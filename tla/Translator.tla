----------------------------- MODULE Translator -----------------------------
(***************************************************************************)
(* BinaryTranslator: the phases of its main, one loop pass per step, and   *)
(* then the machine code it wrote, one emitted command per step.           *)
(*                                                                         *)
(*   ParseOnStructs, OptimizeCmdFlow, FillCmdIp, FillJumpLables,           *)
(*   StartTranslation, and execute.elf                                     *)
(*                                                                         *)
(* An emitted command lies at pos, counted from the end of the mov r10     *)
(* that opens the code; x86_ip is where FillCmdIp believes it lies.        *)
(***************************************************************************)
EXTENDS StackCode, FiniteSets

CONSTANTS Programs,         \* pairs <<assembled program, input>>
          Round(_),         \* cvtsd2si, as a double
          PrintfShows(_),   \* what printf.bin, linked in, prints of a number: the int it rounds to
          ScanfReads(_),    \* what scanf.bin makes of a line that holds a number: its first
                            \* character as a digit
          Rax

VARIABLES program, input,
          phase,
          cmds,             \* self->cmds_array
          i,                \* cmd_indx of the loop that runs
          native_ip, x86_ip,\* FillCmdIp's counters; x86_ip stays as x86_ip_counter
          len,              \* dst_x86.len, without the opening mov
          cpu               \* the x86 processor, as a record like the guest's

vars == <<program, input, phase, cmds, i, native_ip, x86_ip, len, cpu>>

Phases == {"parse", "optimize", "place", "link", "emit", "run", "crashed"}

MovOpcodeSize == 2      \* mutant of MovRegNumSize: without the number
MovRegNumSize == 10
PushImmSize   == 11

TranslatedOps == ({"push", "pop", "sqr"} \cup ArithOps \cup JumpOps \cup PlainOps)

X86Size(c) ==
    CASE c.op \in {"push", "pop"} ->
            CASE c.mode = "imm" -> IF c.op = "push" THEN PushImmSize ELSE 1
              [] c.mode = "reg" -> 1
              [] c.mode = "imm_ram" -> 8
              [] c.mode \in {"reg_ram", "imm_reg_ram"} -> 34
              [] OTHER -> 0
      [] c.op \in ArithOps \cup CondOps -> 26
      [] c.op \in {"jmp", "call"} -> 5
      [] c.op = "hlt" -> 7
      [] c.op = "out" -> 41
      [] c.op = "in" -> 18
      [] c.op = "sqr" -> 16
      [] OTHER -> 1

Parsed(c) ==
    [name |-> c.op, mode |-> c.mode, reg |-> c.reg, value |-> c.value,
     native_size |-> Size(c.op), native_ip |-> 0, x86_size |-> X86Size(c), x86_ip |-> 0,
     is_skip |-> FALSE, pos |-> 0]

Loaded == [Started(input) EXCEPT !.ip = 0]

Init ==
    /\ \E job \in Programs : program = job[1] /\ input = job[2]
    /\ phase = "parse" /\ cmds = <<>> /\ i = 1
    /\ native_ip = 0 /\ x86_ip = 0 /\ len = 0
    /\ cpu = Loaded

Begin(next) == phase' = next /\ i' = 1

\* The first n commands are parsed: up to the first opcode the translator's table lacks.
StopsAt(n) == /\ \A k \in 1..n : program[k].op \in TranslatedOps
              /\ n < Len(program) => program[n + 1].op \notin TranslatedOps

ParseOnStructs ==
    /\ phase = "parse"
    /\ \E n \in 0..Len(program) :
          StopsAt(n) /\ cmds' = [k \in 1..n |-> Parsed(program[k])]
    /\ Begin("optimize")
    /\ UNCHANGED <<program, input, native_ip, x86_ip, len, cpu>>

----------------------------------------------------------------------------
(* OptimizeCmdFlow *)
IsPushImm(c) == c.name = "push" /\ c.mode = "imm"

\* HandleImmStorage: push num; pop r?x becomes mov r?x, num.
MergesAt(k) == /\ IsPushImm(cmds[k])
               /\ cmds[k + 1].name = "pop" /\ cmds[k + 1].mode = "reg"

Skipped(c) == [c EXCEPT !.is_skip = TRUE]

\* Mutant of MovRegNum: the pop does not take over the bytes of the push.
MovRegNumShort(pop, push) ==
    [pop EXCEPT !.name = "mov", !.value = push.value, !.x86_size = MovRegNumSize]

MovRegNum(pop, push) ==
    [pop EXCEPT !.name = "mov", !.value = push.value, !.x86_size = MovRegNumSize,
                !.native_size = pop.native_size + push.native_size]

Merged(k) == [cmds EXCEPT ![k] = Skipped(cmds[k]), ![k + 1] = MovRegNum(cmds[k + 1], cmds[k])]

\* HandleConstantCalculation: push a; push b; op becomes push op(b, a), as an int.
FoldsAt(k) == /\ cmds[k].name \in ArithOps
              /\ cmds[k - 1].mode = "imm"
              /\ cmds[k - 2].mode = "imm"

\* Mutant of Constant: the operands swapped.
ConstantSwapped(op, member1, member2) == Trunc(Arith(op, member2, member1))

Constant(op, member1, member2) == Trunc(Arith(op, member1, member2))

PushConstant(c, member1, member2) ==
    [c EXCEPT !.name = "push", !.mode = "imm",
              !.value = Constant(c.name, member1.value, member2.value),
              !.x86_size = PushImmSize,
              !.native_size = c.native_size + member1.native_size + member2.native_size]

Folded(k) == [cmds EXCEPT ![k] = PushConstant(cmds[k], cmds[k - 1], cmds[k - 2]),
                          ![k - 1] = Skipped(cmds[k - 1]), ![k - 2] = Skipped(cmds[k - 2])]

\* The members of the first two commands would lie before the array.
ReadsBeforeArray(k) == /\ cmds[k].name \in ArithOps
                       /\ k = 1 \/ (k = 2 /\ cmds[1].mode = "imm")

OptimizeStep ==
    /\ phase = "optimize" /\ i < Len(cmds)
    /\ UNCHANGED <<program, input, native_ip, x86_ip, len, cpu>>
    /\ IF ReadsBeforeArray(i)
       THEN phase' = "crashed" /\ UNCHANGED <<cmds, i>>
       ELSE /\ i' = i + 1
            /\ cmds' = IF MergesAt(i) THEN Merged(i)
                       ELSE IF i > 2 /\ FoldsAt(i) THEN Folded(i) ELSE cmds
            /\ UNCHANGED phase

OptimizeEnd ==
    /\ phase = "optimize" /\ i >= Len(cmds)
    /\ Begin("place")
    /\ native_ip' = ServiceDataLen
    /\ UNCHANGED <<program, input, cmds, x86_ip, len, cpu>>

----------------------------------------------------------------------------
(* FillCmdIp *)
Place ==
    /\ phase = "place" /\ i <= Len(cmds)
    /\ i' = i + 1
    /\ IF cmds[i].is_skip
       THEN UNCHANGED <<cmds, native_ip, x86_ip>>
       ELSE /\ cmds' = [cmds EXCEPT ![i].native_ip = native_ip, ![i].x86_ip = x86_ip]
            /\ native_ip' = native_ip + cmds[i].native_size
            /\ x86_ip' = x86_ip + cmds[i].x86_size
    /\ UNCHANGED <<program, input, phase, len, cpu>>

PlaceEnd ==
    /\ phase = "place" /\ i > Len(cmds)
    /\ Begin("link")
    /\ UNCHANGED <<program, input, cmds, native_ip, x86_ip, len, cpu>>

(* FillJumpLables, FindJumpIp.  Commands that are kept have different native_ip, the   *)
(* others 0, and a label is never 0: what the search finds first it would find only.   *)
JumpIp(native) ==
    LET found == {k \in 1..Len(cmds) : cmds[k].native_ip = native}
    IN  IF found = {} THEN -1
        ELSE cmds[CHOOSE k \in found : TRUE].x86_ip

FillJumpLables ==
    /\ phase = "link"
    /\ cmds' = [k \in 1..Len(cmds) |->
                   IF cmds[k].name \in JumpOps
                   THEN [cmds[k] EXCEPT !.value = JumpIp(@)] ELSE cmds[k]]
    /\ Begin("emit")
    /\ UNCHANGED <<program, input, native_ip, x86_ip, len, cpu>>

----------------------------------------------------------------------------
(***************************************************************************)
(* StartTranslation: the bytes each translation unit writes, summed from   *)
(* the sizes of its instructions.                                          *)
(***************************************************************************)
LoadXmm0   == 6
StoreXmm0  == 6
AddRsp     == 4
Ptr        == 4
RegToRsi   == 1 + LoadXmm0 + AddRsp + 5 + 4     \* push, load, add rsp, convert, shift

EmittedPushPop(c) ==
    CASE c.mode = "imm" -> 2 + 8 + 1
      [] c.mode = "reg" -> 1
      [] c.mode = "imm_ram" -> 3 + Ptr + 1
      [] c.mode \in {"reg_ram", "imm_reg_ram"} -> RegToRsi + 3 + 3 + Ptr + 1 + 3
      [] OTHER -> 0

Emitted(c) ==
    CASE c.name \in {"push", "pop"} -> EmittedPushPop(c)
      [] c.name = "mov" -> 2 + 8
      [] c.name \in {"jmp", "call"} -> 1 + Ptr
      [] c.name \in CondOps -> LoadXmm0 + LoadXmm0 + AddRsp + 4 + 2 + Ptr
      [] c.name \in ArithOps -> LoadXmm0 + LoadXmm0 + AddRsp + 4 + StoreXmm0
      [] c.name = "sqr" -> LoadXmm0 + 4 + StoreXmm0
      [] c.name = "out" -> LoadXmm0 + 5 + 1 + 1 + 6 + 3 + 4 + (1 + Ptr) + 3 + 6 + 1
      [] c.name = "in" -> 6 + (1 + Ptr) + 6 + 1
      [] c.name = "hlt" -> 7
      [] OTHER -> 1

Emit ==
    /\ phase = "emit" /\ i <= Len(cmds)
    /\ i' = i + 1
    /\ IF cmds[i].is_skip
       THEN UNCHANGED <<cmds, len>>
       ELSE /\ cmds' = [cmds EXCEPT ![i].pos = len]
            /\ len' = len + Emitted(cmds[i])
    /\ UNCHANGED <<program, input, phase, native_ip, x86_ip, cpu>>

EmitEnd ==
    /\ phase = "emit" /\ i > Len(cmds)
    /\ Begin("run")
    /\ UNCHANGED <<program, input, cmds, native_ip, x86_ip, len, cpu>>

----------------------------------------------------------------------------
(***************************************************************************)
(* execute.elf                                                             *)
(***************************************************************************)
CommandAt(a) == {k \in 1..Len(cmds) : /\ ~cmds[k].is_skip
                                      /\ Emitted(cmds[k]) > 0
                                      /\ cmds[k].pos = a}

\* rel_ptr is taken from where FillCmdIp believes the jump to end.
\* Mutant JumpEndBare: without the comparison before a conditional jump.
JumpEndBare(c) == c.x86_ip + (IF c.name \in CondOps THEN 2 + Ptr ELSE 1 + Ptr)

JumpEnd(c) == c.x86_ip + (IF c.name \in CondOps THEN 2 + Ptr + 20 ELSE 1 + Ptr)
Target(c) == c.pos + Emitted(c) + c.value - JumpEnd(c)

\* The conditional jumps test the flags ucomisd sets, with the opcodes of 10 and 11
\* named JG and JGE and emitted as the signed jumps jg and jge.
Jumps(op, a, b) ==
    CASE op = "jb" -> a # b  [] op = "jbe" -> TRUE   [] op = "je"  -> a = b
      [] op = "ja" -> a > b  [] op = "jae" -> a >= b [] op = "jne" -> a # b

\* RegToRsiOffset rounds the register; the immediate is cut to a word number.
MemWord(c) == CASE c.mode = "imm_ram" -> Trunc(c.value)
                [] c.mode = "reg_ram" -> Round(cpu.regs[c.reg].n)
                [] OTHER -> Arith("add", Trunc(c.value), Round(cpu.regs[c.reg].n))

Raw == [tag |-> "raw", n |-> 0]     \* the bits of a negative int, no number

X86Defined(c) ==
    CASE c.name \in {"push", "pop"} ->
            /\ c.name = "pop" => cpu.stack # <<>>
            /\ InRam(c) => /\ UsesReg(c) => cpu.regs[c.reg].tag = "num"
                           /\ MemWord(c) \in Addresses
      [] c.name = "in" -> cpu.in # <<>>
      [] c.name = "ret" -> cpu.stack # <<>> /\ Top(cpu).tag = "ret"
      [] c.name \in ArithOps \cup CondOps -> NumbersOnTop(cpu, 2)
      [] c.name \in {"sqr", "out"} -> NumbersOnTop(cpu, 1)
      [] OTHER -> TRUE

\* What the instructions of a command do to everything but rip: pushes, pops and mov.
X86Move(c) ==
    CASE c.name = "push" ->
            Pushed(cpu, 0, CASE InRam(c) -> cpu.ram[MemWord(c)]
                             [] c.mode = "reg" -> cpu.regs[c.reg]
                             [] OTHER -> Num(c.value))
      [] c.name = "pop" /\ InRam(c) ->
            [cpu EXCEPT !.ram[MemWord(c)] = Top(cpu), !.stack = Drop(cpu, 1)]
      [] c.name = "pop" /\ c.mode = "reg" ->
            [cpu EXCEPT !.regs[c.reg] = Top(cpu), !.stack = Drop(cpu, 1)]
      [] c.name = "pop" /\ c.mode = "imm" -> Pushed(cpu, 0, Num(c.value))
      [] c.name = "mov" -> [cpu EXCEPT !.regs[c.reg] = Num(c.value)]

\* The others.  TranslateOut passes the number, rounded, to printf in rax, and saves the
\* registers only after that: rax keeps the int, which read as a double is 0 for every word
\* of Ram and every sum.  TranslateIn pushes what scanf leaves in rsi.
X86Effect(c) ==
    CASE c.name \in {"push", "pop", "mov"} -> X86Move(c)
      [] c.name \in ArithOps -> Pushed(cpu, 2, Num(Arith(c.name, Top(cpu).n, Below(cpu).n)))
      [] c.name = "sqr" -> Pushed(cpu, 1, Num(Func("sqr", Top(cpu).n)))
      [] c.name = "out" ->
            [cpu EXCEPT !.out = Append(@, PrintfShows(Top(cpu).n)), !.stack = Drop(cpu, 1),
                        !.regs[Rax] = IF Round(Top(cpu).n) >= 0 THEN Num(0) ELSE Raw]
      [] c.name = "in" -> [Pushed(cpu, 0, Num(ScanfReads(Head(cpu.in)))) EXCEPT !.in = Tail(@)]
      [] c.name \in CondOps -> [cpu EXCEPT !.stack = Drop(cpu, 2)]
      [] c.name = "call" -> Pushed(cpu, 0, Ret(cpu.ip + Emitted(c)))
      [] c.name = "ret" -> [cpu EXCEPT !.stack = Drop(cpu, 1)]
      [] OTHER -> cpu

X86NextIp(c) ==
    CASE c.name \in {"jmp", "call"} -> Target(c)
      [] c.name \in CondOps /\ Jumps(c.name, Top(cpu).n, Below(cpu).n) -> Target(c)
      [] c.name = "ret" -> Top(cpu).n
      [] OTHER -> cpu.ip + Emitted(c)

Execute(c) ==
    IF ~X86Defined(c) THEN Stop(cpu, "wild")
    ELSE IF c.name = "hlt" THEN Stop(cpu, "halted")
    ELSE [X86Effect(c) EXCEPT !.ip = X86NextIp(c)]

\* Outside the commands lie the code of printf and whatever follows it.
RunCommand ==
    /\ phase = "run" /\ cpu.status = "running"
    /\ cpu' = IF CommandAt(cpu.ip) = {} THEN Stop(cpu, "wild")
              ELSE Execute(cmds[CHOOSE k \in CommandAt(cpu.ip) : TRUE])
    /\ UNCHANGED <<program, input, phase, cmds, i, native_ip, x86_ip, len>>

Next == \/ ParseOnStructs \/ OptimizeStep \/ OptimizeEnd
        \/ Place \/ PlaceEnd \/ FillJumpLables \/ Emit \/ EmitEnd
        \/ RunCommand

Spec == Init /\ [][Next]_vars /\ WF_vars(Next)

----------------------------------------------------------------------------
(***************************************************************************)
(* The translated program as the stack processor.  rip lies at a command   *)
(* that was kept, and stands for the first of the commands it replaced.    *)
(***************************************************************************)
NativeIp(a) == IF CommandAt(a) = {} THEN -1
               ELSE cmds[CHOOSE k \in CommandAt(a) : TRUE].native_ip

NativeReturn(a) ==
    LET calls == {k \in 1..Len(cmds) : cmds[k].name = "call" /\ cmds[k].pos + Emitted(cmds[k]) = a}
    IN  IF calls = {} THEN -1
        ELSE LET c == cmds[CHOOSE k \in calls : TRUE] IN c.native_ip + c.native_size

NativeValue(v) == CASE v.tag = "ret" -> Ret(NativeReturn(v.n))
                    [] v.tag = "raw" -> Num(0)
                    [] OTHER -> v

Guest ==
    IF phase # "run" THEN Started(input)
    ELSE [cpu EXCEPT !.ip = NativeIp(@),
                     !.stack = [k \in DOMAIN @ |-> NativeValue(@[k])],
                     !.regs = [r \in DOMAIN @ |-> NativeValue(@[r])],
                     !.ram = [a \in DOMAIN @ |-> NativeValue(@[a])]]

Processor == INSTANCE StackMachine WITH state <- Guest

-----------------------------------------------------------------------------
(* The programs the translator translates correctly, and what is checked   *)
(* of their translation.  Each condition below excludes commands on which  *)
(* the optimizer, the linker or the emitted code departs from the stack    *)
(* processor.                                                              *)

IsImm(p, k)   == p[k].op = "push" /\ p[k].mode = "imm"
IsArith(p, k) == p[k].op \in ArithOps
IsConst(p, k) == IsImm(p, k) \/ IsArith(p, k)

\* An operation is never folded with a member of the operation folded before it.
NoRefold(p) ==
    \A k \in 4..Len(p) :
        ~ /\ IsArith(p, k) /\ IsArith(p, k - 1)
          /\ IsImm(p, k - 2) /\ IsConst(p, k - 3)

\* FindJumpIp finds a command only if it opens the group it was folded or merged into.
JoinsPrevious(p, k) ==
    /\ k > 1
    /\ \/ IsConst(p, k - 1) /\ IsConst(p, k)
       \/ IsImm(p, k - 1) /\ p[k].op = "pop" /\ p[k].mode = "reg"

NoJumpInside(p) ==
    \A k \in 1..Len(p) : p[k].op \in JumpOps =>
        \A t \in At(p, p[k].value) : ~JoinsPrevious(p, t)

\* push a; push b; op; push c; op; ... from j to k: what is folded into one constant.
FoldsTo(p, j, k) ==
    /\ IsImm(p, j) /\ j < k /\ (k - j) % 2 = 0
    /\ \A m \in j + 1 .. k : IF (m - j) % 2 = 1 THEN IsImm(p, m) ELSE IsArith(p, m)

\* A folded constant becomes an int, which the processor's is only if it is whole.
WholeFolds(p) ==
    \A j, k \in 1..Len(p) : FoldsTo(p, j, k) =>
        LET v == Top(Run(p, [Started(<<>>) EXCEPT !.ip = p[j].at], k - j + 1)).n
        IN  Trunc(v) = v

\* TranslateOut overwrites rax.
NoRaxWhenPrinting(p) ==
    (\E k \in 1..Len(p) : p[k].op = "out") =>
        \A k \in 1..Len(p) : UsesReg(p[k]) => p[k].reg # Rax

\* push num+reg is dropped, pop num becomes a push, sin and its like end the parse.
AllTranslated(p) ==
    \A k \in 1..Len(p) : /\ p[k].op \in TranslatedOps
                         /\ p[k].mode # "imm_reg"
                         /\ p[k].op = "pop" => p[k].mode # "imm"

\* Opcodes 10 and 11 are jb and jbe here, jg and jge there.
NoSignedJumps(p) == \A k \in 1..Len(p) : p[k].op \notin {"jb", "jbe"}

\* MemWord rounds the register, and cuts the immediate before it is added; the processor cuts
\* the sum.
SameWord(c, s) ==
    CASE c.mode = "reg_ram" -> Round(s.regs[c.reg].n) = Trunc(s.regs[c.reg].n)
      [] c.mode = "imm_reg_ram" ->
            Arith("add", Trunc(c.value), Round(s.regs[c.reg].n)) = Address(c, s)
      [] OTHER -> TRUE

\* out prints a number the processor would print the same, and in reads one the processor
\* would read the same: whole, and of one digit.
SameText(c, s) ==
    Defined(c, s) => /\ c.op = "out" => PrintfShows(Top(s).n) = Shown(Top(s).n)
                     /\ c.op = "in" => ScanfReads(Head(s.in)) = Head(s.in)

\* The code has nothing that stops it but hlt: no end of the program, no ret without a call.
Followed(p, s) ==
    /\ s.status # "wild"
    /\ s.status = "halted" => \E k \in At(p, s.ip) : p[k].op = "hlt"
    /\ \A k \in At(p, s.ip) : SameWord(p[k], s) /\ SameText(p[k], s)

\* The processor never gets to a state the translation does not follow it to.
MeansSomething(p, in) == p # <<>> /\ \A n \in Nat : Followed(p, Run(p, Started(in), n))

SafeProgram(p) == /\ NoRefold(p) /\ NoJumpInside(p) /\ WholeFolds(p)
                  /\ NoRaxWhenPrinting(p) /\ AllTranslated(p) /\ NoSignedJumps(p)

----------------------------------------------------------------------------
\* Has loop number n of the phases dealt with command k?
Done(loop, after, k) == phase \in after \/ (phase = loop /\ k < i)

\* Every label is found where the guest program has it: whatever was folded and merged,
\* a kept command ends, by FillCmdIp's account, where it ends in the guest program.
LabelsAgree ==
    \A k \in 1..Len(cmds) :
        (~cmds[k].is_skip /\ Done("place", {"link", "emit", "run"}, k)) =>
            cmds[k].native_ip + cmds[k].native_size = program[k].at + Size(program[k].op)

\* The bytes StartTranslation writes are those FillCmdIp counted with the table of
\* parser.h: relative jumps and the calls of printf and scanf land where they should.
CodeAgrees ==
    /\ \A k \in 1..Len(cmds) :
          (~cmds[k].is_skip /\ Done("emit", {"run"}, k)) => cmds[k].pos = cmds[k].x86_ip
    /\ phase = "run" => len = x86_ip

\* The translated program does what the stack processor does with the guest program.
ImplementsProcessor == Processor!Spec
=============================================================================
