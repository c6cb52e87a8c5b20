------------------------------- MODULE RvIsa -------------------------------
(***************************************************************************)
(* What the pipelined simulator promises: the same program executed one    *)
(* whole instruction at a time, without stages, bypasses or bubbles.       *)
(* The meaning of each instruction is the one the execute and memory       *)
(* stages give it (pipeline.cpp), with every operand read from the         *)
(* register file and every result in place before the next instruction.    *)
(***************************************************************************)
EXTENDS RvInstr, Sequences

CONSTANTS Start,      \* start_instr_address
          MemCap,     \* capacity * sizeof(word_) of the data memory
          InitMem     \* the data memory handed to the constructor

VARIABLES prog,   \* the program, fixed at construction
          pc,     \* address of the next instruction, 0 once it left the section
          regs,   \* the register file
          dmem    \* the data memory

isaVars == <<prog, pc, regs, dmem>>

InSection(p, a) == a >= Start /\ a < Start + 4 * Len(p)

\* The program counter as the architecture shows it.
PcIn(p, a) == IF InSection(p, a) THEN a ELSE 0

\* InstrMemUnit::getData for an aligned address.
InstrAt(p, a) == IF InSection(p, a) THEN p[1 + (a - Start) \div 4] ELSE ZeroInstr

----------------------------------------------------------------------------
\* The meaning of one instruction i at address a, given its operand values.

AluA(i, a, v1) == CASE i.op = "auipc" -> a [] i.op = "lui" -> 0 [] OTHER -> v1
AluB(i, v2) == IF Signals(i).alu_src2 THEN Immediate(i) ELSE v2
AluResult(i, a, v1, v2) == Alu(Signals(i).alu_op, AluA(i, a, v1), AluB(i, v2))

Taken(i, v1, v2) ==
    \/ Signals(i).jmp_cond
    \/ Signals(i).brn_cond /\ Cmp(i.cmp, v1, v2)

\* jalr adds its target register to the program counter as jal adds its immediate.
Displacement(i, a, v1, v2) ==
    IF i.op = "jalr" THEN Even(AluResult(i, a, v1, v2)) ELSE Immediate(i)

NextPc(i, a, v1, v2) ==
    IF Taken(i, v1, v2) THEN Plus(a, Displacement(i, a, v1, v2)) ELSE Plus(a, 4)

\* The value written back: the link address, the loaded word or the ALU result.
Result(i, a, v1, v2, m) ==
    CASE Signals(i).jmp_cond -> Plus(a, 4)
      [] i.op = "load" -> m[AluResult(i, a, v1, v2)]
      [] OTHER -> AluResult(i, a, v1, v2)

----------------------------------------------------------------------------
Init ==
    /\ prog \in Seq(Instr)
    /\ pc = PcIn(prog, Start)
    /\ regs = [r \in Regs |-> 0]
    /\ dmem = InitMem

Executable(p, a) == InSection(p, a) /\ ~Traps(InstrAt(p, a))

Current == InstrAt(prog, pc)
Operand1 == regs[Current.rs1]
Operand2 == regs[Current.rs2]
Address == AluResult(Current, pc, Operand1, Operand2)
Faults == Current.op \in {"load", "store"} /\ Address > MemCap

Step ==
    /\ Executable(prog, pc)
    /\ ~Faults
    /\ pc' = PcIn(prog, NextPc(Current, pc, Operand1, Operand2))
    /\ regs' = IF Signals(Current).wb_we /\ Current.rd # 0
               THEN [regs EXCEPT ![Current.rd] =
                         Result(Current, pc, Operand1, Operand2, dmem)]
               ELSE regs
    /\ dmem' = IF Current.op = "store" THEN [dmem EXCEPT ![Address] = Operand2] ELSE dmem
    /\ UNCHANGED prog

\* An access outside the data memory ends the run without any effect.
Fault ==
    /\ Executable(prog, pc)
    /\ Faults
    /\ pc' = 0
    /\ UNCHANGED <<prog, regs, dmem>>

Next == Step \/ Fault

Spec == Init /\ [][Next]_isaVars
============================================================================
