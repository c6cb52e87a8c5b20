------------------------------ MODULE RvInstr ------------------------------
(***************************************************************************)
(* The instruction words of riscv-pipelined-cpu-sim and what its decoder   *)
(* makes of them (pipeline/instruction.h, pipeline/control_unit.h).        *)
(*                                                                         *)
(* An instruction is a record of the bit fields the pipeline looks at.     *)
(* rd, rs1 and rs2 are the raw fields at bits 7, 15 and 20, present in     *)
(* every word whatever its format: in a store or a branch the rd field     *)
(* holds immediate bits.  imm is what ImmediateExtensionBlock extracts.    *)
(***************************************************************************)
EXTENDS Integers

CONSTANTS NumRegs,        \* registers in the file (32 in the code)
          WordMod,        \* number of values of a word_ (2^32 in the code)
          Alu(_, _, _),   \* modules::ALU on two words
          Cmp(_, _, _)    \* modules::Cmp on two words

Regs == 0 .. NumRegs - 1
Word == 0 .. WordMod - 1

AluOps == {"NOP", "ADD", "SUB", "SLL", "SLT", "SLTU", "XOR", "SRL", "SRA", "OR", "AND"}
CmpOps == {"NOP", "EQ", "NE", "LT", "GE", "LTU", "GEU"}

ASSUME SizeAssumption == NumRegs \in Nat \ {0} /\ WordMod \in Nat /\ WordMod > 4
ASSUME AluAssumption == \A op \in AluOps, a, b \in Word : Alu(op, a, b) \in Word
ASSUME NopAssumption == \A a, b \in Word : Alu("NOP", a, b) = 0
ASSUME CmpAssumption == \A op \in CmpOps, a, b \in Word : Cmp(op, a, b) \in BOOLEAN

(***************************************************************************)
(* Opcodes.  "zero" stands for every opcode the decoder does not know: the *)
(* word 0 of a cleared register or of memory outside the program.  "fence" *)
(* stands for MISC-MEM and for SYSTEM with funct3 # 0, "ebreak" for the    *)
(* other SYSTEM words, "illegal" for a known opcode with a bad funct.      *)
(***************************************************************************)
Ops == {"op", "op_imm", "load", "store", "branch", "jal", "jalr", "lui", "auipc",
        "ebreak", "fence", "illegal", "zero"}

Instr == [op : Ops, alu : AluOps, cmp : CmpOps,
          rd : Regs, rs1 : Regs, rs2 : Regs, imm : Word]

ZeroInstr == [op |-> "zero", alu |-> "NOP", cmp |-> "NOP",
              rd |-> 0, rs1 |-> 0, rs2 |-> 0, imm |-> 0]

InstructionType(op) ==
    CASE op \in {"op", "illegal"} -> "R"
      [] op \in {"op_imm", "load", "jalr", "ebreak"} -> "I"
      [] op = "store" -> "S"
      [] op = "branch" -> "B"
      [] op \in {"lui", "auipc"} -> "U"
      [] op = "jal" -> "J"
      [] OTHER -> "UNKNOWN"

HasRs1(type) == type \notin {"U", "J"}
HasRs2(type) == type \in {"R", "I", "S", "B"}

(***************************************************************************)
(* ControlUnit::tick: the signals decoded from an instruction word, and    *)
(* the words it refuses.                                                   *)
(***************************************************************************)
Traps(i) == i.op \in {"ebreak", "fence", "illegal"}

Signals(i) ==
    [is_jalr     |-> i.op = "jalr",
     wb_we       |-> i.op \notin {"store", "branch"},
     mem_we      |-> i.op = "store",
     mem_to_reg  |-> i.op # "load",
     brn_cond    |-> i.op = "branch",
     jmp_cond    |-> i.op \in {"jal", "jalr"},
     alu_src2    |-> InstructionType(i.op) \in {"I", "S", "U"},
     alu_op      |-> CASE i.op \in {"op", "op_imm"} -> i.alu
                       [] i.op \in {"lui", "auipc", "jalr", "load", "store"} -> "ADD"
                       [] OTHER -> "NOP",
     cmp_control |-> IF i.op = "branch" THEN i.cmp ELSE "NOP"]

SignalSet == [is_jalr : BOOLEAN, wb_we : BOOLEAN, mem_we : BOOLEAN, mem_to_reg : BOOLEAN,
              brn_cond : BOOLEAN, jmp_cond : BOOLEAN, alu_src2 : BOOLEAN,
              alu_op : AluOps, cmp_control : CmpOps]

\* What Register<ExecuteState>::clear leaves: every signal false, also mem_to_reg.
NoSignals ==
    [is_jalr |-> FALSE, wb_we |-> FALSE, mem_we |-> FALSE, mem_to_reg |-> FALSE,
     brn_cond |-> FALSE, jmp_cond |-> FALSE, alu_src2 |-> FALSE,
     alu_op |-> "NOP", cmp_control |-> "NOP"]

\* ImmediateExtensionBlock: no immediate in an R-type or an unknown word.
Immediate(i) == IF InstructionType(i.op) \in {"R", "UNKNOWN"} THEN 0 ELSE i.imm

Even(a) == a - (a % 2)   \* a & 0xfffffffe
Plus(a, b) == (a + b) % WordMod
============================================================================
