------------------------------ MODULE StackCode ------------------------------
(***************************************************************************)
(* The commands of the stack processor of ProgrammingLanguage and what one *)
(* of them does (execution/proc/proc.cpp, general_includes/codegen/cmds.h).*)
(*                                                                         *)
(* A program is the sequence of its commands with the byte address of each *)
(* one.  The processor is one record: After gives the record the next      *)
(* command leaves, Run the one n commands leave.                           *)
(***************************************************************************)
EXTENDS Integers, Sequences

CONSTANTS Number,           \* the doubles a program computes with
          Arith(_, _, _),   \* +, -, *, / on them
          Func(_, _),       \* sqr and sin, which stands for cos, abs and round too
          Trunc(_),         \* int(x), as a double
          Registers,
          Addresses,        \* the words of Ram, by number
          LeftFirst,        \* the compiler pops the left operand first
          Shown(_)          \* what the observer makes of a printed number

ArithOps == {"add", "sub", "mul", "div"}
CondOps  == {"jb", "jbe", "ja", "jae", "je", "jne"}
JumpOps  == CondOps \cup {"jmp", "call"}
FuncOps  == {"sqr", "sin"}
PlainOps == {"hlt", "out", "in", "ret"}

Modes == {"none", "imm", "reg", "imm_reg", "imm_ram", "reg_ram", "imm_reg_ram"}

ASSUME NumberAssumption ==
    /\ Number \subseteq Int
    /\ \A op \in ArithOps, a \in Number, b \in Number : Arith(op, a, b) \in Number
    /\ \A a \in Number : Trunc(a) \in Number

ServiceDataLen == 8
Size(op) == IF op \in JumpOps \cup {"push", "pop"} THEN 10 ELSE 1

Command == [op : {"push", "pop"} \cup ArithOps \cup FuncOps \cup JumpOps \cup PlainOps,
            mode : Modes, reg : Registers, value : Int, at : Nat]

(***************************************************************************)
(* What the assembler writes: commands back to back behind the header, an  *)
(* operand on push and pop only.  The compiler closes every program with   *)
(* end, which lies at EndOf and does nothing; dmp, which only prints, is   *)
(* left out.                                                               *)
(***************************************************************************)
Assembled(p) ==
    /\ p \in Seq(Command)
    /\ \A k \in 1..Len(p) :
          /\ p[k].at = IF k = 1 THEN ServiceDataLen
                       ELSE p[k - 1].at + Size(p[k - 1].op)
          /\ p[k].mode = "none" <=> p[k].op \notin {"push", "pop"}
          /\ p[k].mode # "none" => p[k].value \in Number

At(p, a) == {k \in 1..Len(p) : p[k].at = a}
EndOf(p) == p[Len(p)].at + Size(p[Len(p)].op)

Num(n) == [tag |-> "num", n |-> n]
Ret(a) == [tag |-> "ret", n |-> a]      \* the address call leaves on the stack

Started(in) ==
    [ip |-> ServiceDataLen, stack |-> <<>>, regs |-> [r \in Registers |-> Num(0)],
     ram |-> [a \in Addresses |-> Num(0)], in |-> in, out |-> <<>>, status |-> "running"]

Top(s)          == s.stack[Len(s.stack)]
Below(s)        == s.stack[Len(s.stack) - 1]
Drop(s, n)      == SubSeq(s.stack, 1, Len(s.stack) - n)
Pushed(s, n, v) == [s EXCEPT !.stack = Append(Drop(s, n), v)]

Left(s)  == IF LeftFirst THEN Top(s).n ELSE Below(s).n
Right(s) == IF LeftFirst THEN Below(s).n ELSE Top(s).n

----------------------------------------------------------------------------
(* GetArg *)
UsesReg(c) == c.mode \in {"reg", "imm_reg", "reg_ram", "imm_reg_ram"}
InRam(c)   == c.mode \in {"imm_ram", "reg_ram", "imm_reg_ram"}

ArgNumber(c, s) ==
    CASE c.mode \in {"imm", "imm_ram"} -> c.value
      [] c.mode \in {"reg", "reg_ram"} -> s.regs[c.reg].n
      [] OTHER -> Arith("add", c.value, s.regs[c.reg].n)

Address(c, s) == Trunc(ArgNumber(c, s))

Arg(c, s) == CASE InRam(c) -> s.ram[Address(c, s)]
               [] c.mode = "reg" -> s.regs[c.reg]
               [] OTHER -> Num(ArgNumber(c, s))

Holds(op, a, b) ==
    CASE op = "jb" -> a < b [] op = "jbe" -> a <= b [] op = "je"  -> a = b
      [] op = "ja" -> a > b [] op = "jae" -> a >= b [] op = "jne" -> a # b

(***************************************************************************)
(* Beyond these the program reads below the stack or outside Ram, computes *)
(* with a return address, or scans past the end of its input: the C++ code *)
(* promises nothing.                                                       *)
(***************************************************************************)
Operands(op) == CASE op \in ArithOps \cup CondOps -> 2
                  [] op \in FuncOps \cup {"pop", "out"} -> 1
                  [] OTHER -> 0

NumbersOnTop(s, n) ==
    /\ Len(s.stack) >= n
    /\ \A k \in Len(s.stack) - n + 1 .. Len(s.stack) : s.stack[k].tag = "num"

Defined(c, s) ==
    CASE c.op \in {"push", "pop"} ->
            /\ Len(s.stack) >= Operands(c.op)
            /\ (UsesReg(c) /\ c.mode # "reg") => s.regs[c.reg].tag = "num"
            /\ InRam(c) => Address(c, s) \in Addresses
      [] c.op = "in" -> s.in # <<>>
      [] c.op = "ret" -> s.stack # <<>> => Top(s).tag = "ret"
      [] OTHER -> NumbersOnTop(s, Operands(c.op))

\* What a command does to everything but ip.
Effect(c, s) ==
    CASE c.op = "push" -> Pushed(s, 0, Arg(c, s))
      [] c.op = "pop" /\ InRam(c) ->
            [s EXCEPT !.ram[Address(c, s)] = Top(s), !.stack = Drop(s, 1)]
      [] c.op = "pop" /\ c.mode = "reg" ->
            [s EXCEPT !.regs[c.reg] = Top(s), !.stack = Drop(s, 1)]
      [] c.op \in ArithOps -> Pushed(s, 2, Num(Arith(c.op, Left(s), Right(s))))
      [] c.op \in FuncOps -> Pushed(s, 1, Num(Func(c.op, Top(s).n)))
      [] c.op = "out" ->
            [s EXCEPT !.out = Append(@, Shown(Top(s).n)), !.stack = Drop(s, 1)]
      [] c.op = "in" -> [Pushed(s, 0, Num(Head(s.in))) EXCEPT !.in = Tail(@)]
      [] c.op \in CondOps -> [s EXCEPT !.stack = Drop(s, 2)]
      [] c.op = "call" -> Pushed(s, 0, Ret(s.ip + Size("call")))
      [] c.op = "ret" -> [s EXCEPT !.stack = Drop(s, 1)]
      [] OTHER -> s

NextIp(c, s) ==
    CASE c.op \in {"jmp", "call"} -> c.value
      [] c.op \in CondOps /\ Holds(c.op, Left(s), Right(s)) -> c.value
      [] c.op = "ret" -> Top(s).n
      [] OTHER -> s.ip + Size(c.op)

Halts(c, s) == \/ c.op = "hlt"
               \/ c.op = "ret" /\ s.stack = <<>>

Stop(s, why) == [s EXCEPT !.status = why]

(***************************************************************************)
(* A pass of Execute's loop; "wild" is everything undefined.               *)
(***************************************************************************)
After(p, s) ==
    IF s.status # "running" THEN s
    ELSE IF s.ip >= EndOf(p) THEN Stop(s, "halted")
    ELSE IF At(p, s.ip) = {} THEN Stop(s, "wild")
    ELSE LET c == p[CHOOSE k \in At(p, s.ip) : TRUE] IN
         IF ~Defined(c, s) THEN Stop(s, "wild")
         ELSE IF Halts(c, s) THEN Stop(s, "halted")
         ELSE [Effect(c, s) EXCEPT !.ip = NextIp(c, s)]

\* The processor after n commands.
Run(p, s, n) ==
    LET f[k \in 0..n] == IF k = 0 THEN s ELSE After(p, f[k - 1]) IN f[n]
=============================================================================
