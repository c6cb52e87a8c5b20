------------------------- MODULE RvRefinementProofs -------------------------
(***************************************************************************)
(* The pipeline implements the one-instruction machine, and leaves nothing *)
(* behind when it ends, for every set of safe programs, every word size,   *)
(* every number of registers and every Alu and Cmp.                        *)
(*                                                                         *)
(* The invariant says in which of seven phases the five stages are, which  *)
(* words of the program the stage registers hold in each, and that the     *)
(* operands the bypasses choose are the ones the architecture has.         *)
(***************************************************************************)
EXTENDS RvRefinement, TLAPS

-----------------------------------------------------------------------------
(* Type correctness of the pipeline for every program, every number of     *)
(* registers and every word size that is a multiple of four.               *)

MemoryType == [mem_we : BOOLEAN, mem_to_reg : BOOLEAN, wb_we : BOOLEAN,
               jmp_cond : BOOLEAN, write_data : Word, alu_res : Word, wb_a : Regs]
DecodeType == [v_de : BOOLEAN, pc_de : Word, instr : Instr]
ExecuteType == [ctl : SignalSet, v_de : BOOLEAN, data1 : Word, data2 : Word,
                pc_de : Word, instr : Instr]

\* A machine word (word_) is an integer, as the arithmetic facts below ask.
LEMMA WordInt == \A a \in Word : a \in Int
  BY DEF Word

\* A sum is reduced to the word it wraps to (gates.h, Add on word_).
LEMMA PlusWord == \A a, b \in Int : Plus(a, b) \in Word
  BY SizeAssumption DEF Plus, Word

\* Dropping the lowest bit of a word leaves a word (the mask of doExecute).
LEMMA EvenWord == \A a \in Word : Even(a) \in Word
  BY SizeAssumption DEF Even, Word

\* The decoder's signals are well typed for every instruction word.
LEMMA SignalsType == \A i \in Instr : Signals(i) \in SignalSet
  BY DEF Signals, SignalSet, Instr, AluOps, CmpOps

\* What Register::clear puts into a stage is a well-typed instruction and signals.
LEMMA ZeroType == /\ ZeroInstr \in Instr
                  /\ NoSignals \in SignalSet
                  /\ 0 \in Word /\ 0 \in Regs /\ 4 \in Word
  BY SizeAssumption DEF ZeroInstr, NoSignals, Instr, SignalSet, Word, Regs, Ops, AluOps, CmpOps

\* ImmediateExtensionBlock yields a word for every instruction word.
LEMMA ImmediateWord == \A i \in Instr : Immediate(i) \in Word
  BY ZeroType DEF Immediate, Instr

\* doMemory: what it stores and what it hands to write_back, unless it throws.
LEMMA MemoryStageType ==
  ASSUME TypeOK, ~BadAddress
  PROVE  /\ DmemNext \in [0 .. MemCap -> Word]
         /\ WriteBackNext \in [wb_we : BOOLEAN, wb_d : Word, wb_a : Regs]
<1>1. memory \in MemoryType
  BY DEF TypeOK, MemoryType
<1>2. MemAccess => memory.alu_res \in 0 .. MemCap
  BY <1>1, PipelineAssumption DEF BadAddress, MemoryType, Word
<1>3. dmem \in [0 .. MemCap -> Word]
  BY DEF TypeOK
<1>4. DmemNext \in [0 .. MemCap -> Word]
  BY <1>1, <1>3 DEF DmemNext, MemoryType
<1>5. WriteBackNext.wb_d \in Word
  BY <1>1, <1>2, <1>3 DEF WriteBackNext, MemAccess, MemoryType
<1>6. WriteBackNext \in [wb_we : BOOLEAN, wb_d : Word, wb_a : Regs]
  BY <1>1, <1>5 DEF WriteBackNext, MemoryType
<1> QED BY <1>4, <1>6

\* doExecute: operands, redirect and the next memory register.
LEMMA ExecuteStageType ==
  ASSUME TypeOK
  PROVE  /\ PcR \in BOOLEAN
         /\ PcDisp \in Word
         /\ MemoryNext \in MemoryType
<1>1. memory \in MemoryType /\ execute \in ExecuteType /\ write_back.wb_d \in Word
  BY DEF TypeOK, MemoryType, ExecuteType
<1>2. execute.ctl \in SignalSet /\ execute.instr \in Instr /\ execute.pc_de \in Word
  BY <1>1 DEF ExecuteType
<1>3. SrcA \in Word /\ Rs2v \in Word
  BY <1>1 DEF SrcA, Rs2v, Bypass, TypeOK, MemoryType, ExecuteType
<1>4. SrcB \in Word
  BY <1>2, <1>3, ImmediateWord DEF SrcB
<1>5. AluRes \in Word
  <2>1. execute.ctl.alu_op \in AluOps
    BY <1>2 DEF SignalSet
  <2> QED BY <2>1, <1>3, <1>4, AluAssumption DEF AluRes
<1>6. PcR \in BOOLEAN
  BY DEF PcR
<1>7. PcDisp \in Word
  BY <1>2, <1>5, ImmediateWord, EvenWord DEF PcDisp
<1>8. Plus(execute.pc_de, 4) \in Word
  BY <1>2, PlusWord, WordInt
<1>9. execute.instr.rd \in Regs
  BY <1>2 DEF Instr
<1>10. MemoryNext \in MemoryType
  BY <1>2, <1>3, <1>5, <1>8, <1>9 DEF MemoryNext, MemoryType, SignalSet
<1> QED BY <1>6, <1>7, <1>10

\* doDecode: the register file after its write, and the next execute register.
LEMMA DecodeStageType ==
  ASSUME TypeOK
  PROVE  RegsNext \in [Regs -> Word] /\ ExecuteNext \in ExecuteType
<1>1. RegsNext \in [Regs -> Word]
  BY DEF TypeOK, RegsNext
<1>2. decode.instr \in Instr /\ decode.pc_de \in Word /\ decode.v_de \in BOOLEAN
  BY DEF TypeOK
<1>3. decode.instr.rs1 \in Regs /\ decode.instr.rs2 \in Regs
  BY <1>2 DEF Instr
<1>4. RegsNext[decode.instr.rs1] \in Word /\ RegsNext[decode.instr.rs2] \in Word
  BY <1>1, <1>3
<1>5. ExecuteNext.data1 \in Word
  BY <1>2, <1>4, ZeroType DEF ExecuteNext
<1>6. Signals(decode.instr) \in SignalSet
  BY <1>2, SignalsType
<1>7. ExecuteNext \in ExecuteType
  BY <1>2, <1>4, <1>5, <1>6 DEF ExecuteNext, ExecuteType, PcR
<1> QED BY <1>1, <1>7

\* doFetch: the word fetched and the next program counter.
LEMMA FetchStageType ==
  ASSUME TypeOK
  PROVE  PcNext \in Word /\ DecodeNext \in DecodeType
<1>1. pc \in Word /\ execute.pc_de \in Word /\ PcDisp \in Word /\ PcR \in BOOLEAN
  BY ExecuteStageType DEF TypeOK
<1>2. PcNext \in Word
  <2>1. Plus(execute.pc_de, PcDisp) \in Word
    BY <1>1, PlusWord, WordInt
  <2>2. Plus(pc, 4) \in Word
    BY <1>1, PlusWord, WordInt
  <2> QED BY <2>1, <2>2 DEF PcNext
<1>3. InstrAt(pc) \in Instr
  <2>1. CASE OutOfSection(pc)
    BY <2>1, ZeroType DEF InstrAt
  <2>2. CASE ~OutOfSection(pc)
    <3>1. prog \in Seq(Instr)
      BY DEF TypeOK
    <3>2. 1 + (pc - Start) \div 4 \in 1 .. Len(prog)
      BY <1>1, <2>2, <3>1, PipelineAssumption DEF OutOfSection, Word
    <3> QED BY <2>2, <3>1, <3>2 DEF InstrAt
  <2> QED BY <2>1, <2>2
<1>4. DecodeNext \in DecodeType
  BY <1>1, <1>3 DEF DecodeNext, DecodeType
<1> QED BY <1>2, <1>4

\* The clock edge: what the registers hold after it, before the hazard unit looks.
LEMMA TickedType ==
  ASSUME TypeOK
  PROVE  /\ MemoryTicked \in MemoryType
         /\ DecodeTicked \in DecodeType
         /\ ExecuteTicked \in ExecuteType
         /\ Enabled \in [pc : BOOLEAN, dec : BOOLEAN, exe : BOOLEAN, mem : BOOLEAN]
<1>1. memory \in MemoryType /\ decode \in DecodeType /\ execute \in ExecuteType
  BY DEF TypeOK, MemoryType, DecodeType, ExecuteType
<1>2. ClearMemory \in MemoryType /\ ClearDecode \in DecodeType
  BY ZeroType DEF ClearMemory, ClearDecode, MemoryType, DecodeType
<1>3. MemoryTicked \in MemoryType
  BY <1>1, <1>2, ExecuteStageType DEF MemoryTicked
<1>4. DecodeTicked \in DecodeType
  BY <1>1, <1>2, FetchStageType DEF DecodeTicked
<1>5. ExecuteTicked \in ExecuteType
  BY <1>1, DecodeStageType DEF ExecuteTicked
<1>6. Enabled \in [pc : BOOLEAN, dec : BOOLEAN, exe : BOOLEAN, mem : BOOLEAN]
  BY DEF Enabled, TypeOK, AfterJump, AfterLast, LeavesSection
<1> QED BY <1>3, <1>4, <1>5, <1>6

\* A tick that drains the pipeline keeps last_instructions_counter in 0 .. 3.
LEMMA CounterType ==
  ASSUME TypeOK, ~Drained
  PROVE  [flag |-> LastFlag, counter |-> IF LastFlag THEN Counter - 1 ELSE Counter]
            \in [flag : BOOLEAN, counter : 0 .. 3]
<1>1. last \in [flag : BOOLEAN, counter : 0 .. 3]
  BY DEF TypeOK
<1>2. LastFlag \in BOOLEAN
  BY <1>1 DEF LastFlag, LeavesSection
<1>3. Counter \in 0 .. 3
  BY <1>1 DEF Counter
<1>4. LastFlag => Counter # 0
  BY DEF Drained
<1> QED BY <1>2, <1>3, <1>4

\* A tick that throws nothing preserves the types.
LEMMA TickType == TypeOK /\ Tick => TypeOK'
<1> SUFFICES ASSUME TypeOK, Tick PROVE TypeOK'
  OBVIOUS
<1>1. ~BadAddress /\ ~Drained
  BY DEF Tick, Fetches, Decodes
<1>2. pc' \in Word
  BY FetchStageType DEF Tick, TypeOK
<1>3. /\ decode' \in DecodeType
      /\ execute' \in ExecuteType
      /\ enable' \in [pc : BOOLEAN, dec : BOOLEAN, exe : BOOLEAN, mem : BOOLEAN]
      /\ hu_rs1' \in {"REG", "MEM", "WB"} /\ hu_rs2' \in {"REG", "MEM", "WB"}
  <2>1. HazardUnitTick
    BY DEF Tick
  <2>2. CASE PcR
    <3>1. ClearDecode \in DecodeType /\ ClearExecute \in ExecuteType
      BY ZeroType DEF ClearDecode, ClearExecute, DecodeType, ExecuteType
    <3> QED BY <2>1, <2>2, <3>1, TickedType DEF HazardUnitTick, TypeOK
  <2>3. CASE ~PcR
    <3>1. Enabled.mem \in BOOLEAN /\ Halts \in BOOLEAN
      BY TickedType DEF Halts
    <3>2. ChosenRs1 \in {"REG", "MEM", "WB"} /\ ChosenRs2 \in {"REG", "MEM", "WB"}
      BY DEF ChosenRs1, ChosenRs2, Chosen
    <3>3. [pc |-> ~Halts, dec |-> ~Halts, exe |-> ~Halts, mem |-> Enabled.mem]
             \in [pc : BOOLEAN, dec : BOOLEAN, exe : BOOLEAN, mem : BOOLEAN]
      BY <3>1
    <3>4. /\ decode' = DecodeTicked /\ execute' = ExecuteTicked
          /\ enable' = [pc |-> ~Halts, dec |-> ~Halts, exe |-> ~Halts, mem |-> Enabled.mem]
          /\ hu_rs1' = ChosenRs1 /\ hu_rs2' = ChosenRs2
      BY <2>1, <2>3 DEF HazardUnitTick
    <3> QED BY <3>2, <3>3, <3>4, TickedType
  <2> QED BY <2>2, <2>3
<1>4. memory' \in MemoryType
  BY TickedType DEF Tick
<1>5. /\ write_back' \in [wb_we : BOOLEAN, wb_d : Word, wb_a : Regs]
      /\ dmem' \in [0 .. MemCap -> Word]
  BY <1>1, MemoryStageType DEF Tick
<1>6. regs' \in [Regs -> Word]
  BY DecodeStageType DEF Tick
<1>7. last' \in [flag : BOOLEAN, counter : 0 .. 3]
  BY <1>1, CounterType DEF Tick
<1>8. prog' = prog /\ status' = status
  BY DEF Tick
<1> QED
  BY <1>2, <1>3, <1>4, <1>5, <1>6, <1>7, <1>8
  DEF TypeOK, DecodeType, ExecuteType, MemoryType

\* A tick cut short by an exception preserves the types.
LEMMA ThrowType ==
  TypeOK /\ (MemoryThrows \/ DecodeThrows \/ FetchThrows) => TypeOK'
<1> SUFFICES ASSUME TypeOK PROVE MemoryThrows \/ DecodeThrows \/ FetchThrows => TypeOK'
  OBVIOUS
<1>1. CASE MemoryThrows
  BY <1>1 DEF MemoryThrows, Stages, TypeOK
<1>2. CASE DecodeThrows
  <2>1. decode.instr.op \in {"ebreak", "fence", "illegal"}
    BY <1>2 DEF DecodeThrows, Traps
  <2>2. TypeOK /\ ~BadAddress
    BY <1>2 DEF DecodeThrows, Decodes
  <2>3. dmem' \in [0 .. MemCap -> Word] /\ regs' \in [Regs -> Word]
    BY <1>2, <2>2, MemoryStageType, DecodeStageType DEF DecodeThrows
  <2> QED BY <1>2, <2>1, <2>3
          DEF DecodeThrows, Decodes, Stages, TypeOK
<1>3. CASE FetchThrows
  BY <1>3, MemoryStageType, DecodeStageType
  DEF FetchThrows, Fetches, Decodes, Stages, TypeOK
<1> QED BY <1>1, <1>2, <1>3

\* Every value the clocked registers, the register file and the memories ever hold is of
\* its type: no tick of the simulator leaves a register number, a word or a counter out
\* of range, whatever program it runs.
THEOREM Typing == Spec => []TypeOK
<1>1. Init => TypeOK
  <2> SUFFICES ASSUME Init PROVE TypeOK
    OBVIOUS
  <2>1. prog \in Seq(Instr) /\ Start \in Word /\ InitMem \in [0 .. MemCap -> Word]
    BY PipelineAssumption DEF Init
  <2> QED BY <2>1, ZeroType
          DEF Init, TypeOK, ClearDecode, ClearExecute, ClearMemory, ClearWriteBack
<1>2. TypeOK /\ [Next]_vars => TypeOK'
  <2>1. TypeOK /\ UNCHANGED vars => TypeOK'
    BY DEF vars, TypeOK
  <2> QED BY <2>1, TickType, ThrowType DEF Next
<1> QED BY <1>1, <1>2, PTL DEF Spec

-----------------------------------------------------------------------------
(* The refinement.                                                         *)

AllSafe == \A p \in Programs : SafeProgram(p)

-----------------------------------------------------------------------------
(* What a stage register holds: the word at place k of the section, or a   *)
(* bubble, cleared or decoded from the word 0.                             *)

AddressOf(k) == Start + 4 * (k - 1)

InDecode(k) == decode = [v_de |-> FALSE, pc_de |-> AddressOf(k), instr |-> prog[k]]

InExecute(k) ==
    /\ execute.ctl = Signals(prog[k]) /\ ~execute.v_de
    /\ execute.pc_de = AddressOf(k) /\ execute.instr = prog[k]
ExecuteEmpty ==
    /\ execute.ctl \in {NoSignals, Signals(ZeroInstr)} /\ ~execute.v_de
    /\ execute.pc_de = 0 /\ execute.instr = ZeroInstr

InMemory(k) ==
    /\ memory.wb_a = prog[k].rd
    /\ memory.wb_we = Signals(prog[k]).wb_we /\ memory.mem_we = Signals(prog[k]).mem_we
    /\ memory.mem_to_reg = Signals(prog[k]).mem_to_reg
    /\ memory.jmp_cond = Signals(prog[k]).jmp_cond
MemoryEmpty ==
    /\ memory.wb_a = 0 /\ ~memory.mem_we /\ ~memory.jmp_cond
    /\ ~memory.mem_to_reg => memory.alu_res = 0

\* The register file with what write_back and memory still carry.
Forwarded == Pending(RegsNext, WriteBackNext)

\* The operands doExecute selects for p[k] are those of the architecture.
OperandsRight(k) ==
    /\ HasRs1(InstructionType(prog[k].op)) => SrcA = Forwarded[prog[k].rs1]
    /\ HasRs2(InstructionType(prog[k].op)) => Rs2v = Forwarded[prog[k].rs2]
    /\ prog[k].op = "lui" => SrcA = 0
    /\ prog[k].op = "auipc" => SrcA = AddressOf(k)

\* While p[k] waits for a load, its other operands are in the execute register.
OperandsWait(k) ==
    /\ HasRs1(InstructionType(prog[k].op)) /\ prog[k].rs1 # memory.wb_a
           => execute.data1 = RegsNext[prog[k].rs1]
    /\ HasRs2(InstructionType(prog[k].op)) /\ prog[k].rs2 # memory.wb_a
           => execute.data2 = RegsNext[prog[k].rs2]

-----------------------------------------------------------------------------
(* The phases of the pipeline.                                             *)

Runs == enable.pc /\ enable.dec /\ enable.exe /\ enable.mem
Stands == ~enable.pc /\ ~enable.dec /\ ~enable.exe /\ enable.mem

\* At the start and after a redirect.
Empty ==
    /\ ~last.flag /\ Runs /\ decode = ClearDecode /\ ExecuteEmpty
    /\ MemoryEmpty \/ \E k \in DOMAIN prog : InMemory(k)
Fetched(k) ==
    /\ ~last.flag /\ Runs /\ InDecode(k) /\ ExecuteEmpty /\ MemoryEmpty /\ pc = AddressOf(k + 1)
Filled(k) ==
    /\ ~last.flag /\ k + 1 \in DOMAIN prog /\ ~Traps(prog[k])
    /\ InExecute(k) /\ InDecode(k + 1) /\ pc = AddressOf(k + 2)
Flowing(k) ==
    /\ Filled(k) /\ Runs /\ ~memory.jmp_cond
    /\ MemoryEmpty \/ (k > 1 /\ InMemory(k - 1))
    /\ ~BadAddress => OperandsRight(k)
Stalled(k) ==
    /\ Filled(k) /\ Stands /\ k > 1 /\ InMemory(k - 1) /\ LoadUse(prog, k - 1)
    /\ OperandsWait(k)
\* The shutdown: the last word in execute, in memory, out.
LastExecutes ==
    /\ last = [flag |-> TRUE, counter |-> 2] /\ Runs /\ decode = ClearDecode /\ MemoryEmpty
    /\ OutOfSection(pc) /\ (ExecuteEmpty \/ InExecute(Len(prog)))
LastLeaves ==
    /\ last = [flag |-> TRUE, counter |-> 1] /\ Runs /\ ExecuteEmpty /\ MemoryEmpty
    /\ decode.instr = ZeroInstr /\ OutOfSection(decode.pc_de) /\ ~decode.v_de
Gone == last = [flag |-> TRUE, counter |-> 0] /\ MemoryEmpty /\ OutOfSection(execute.pc_de)

InFlight ==
    \/ Empty \/ LastExecutes \/ LastLeaves \/ Gone
    \/ \E k \in DOMAIN prog : Fetched(k) \/ Flowing(k) \/ Stalled(k)

FlightInv ==
    /\ TypeOK /\ prog \in Programs
    /\ status = "running" => InFlight /\ pc % 4 = 0
    /\ NothingLeftBehind

-----------------------------------------------------------------------------
(* Addresses.                                                              *)

\* Every place of the section has an address, four above the one before, and fetching from it
\* yields the word there (InstrMemUnit).
LEMMA Addresses ==
    ASSUME prog \in Programs, NEW k \in 1 .. Len(prog) + 1
    PROVE  /\ Len(prog) \in Nat /\ AddressOf(k) \in Word /\ AddressOf(k) % 4 = 0 /\ AddressOf(k) # 0
           /\ OutOfSection(AddressOf(k)) <=> k = Len(prog) + 1
           /\ k <= Len(prog) => /\ InstrAt(AddressOf(k)) = prog[k] /\ prog[k] \in Instr
                                /\ Plus(AddressOf(k), 4) = AddressOf(k + 1)
<1>1. prog \in Seq(Instr) /\ Start + 4 * Len(prog) < WordMod /\ Len(prog) \in Nat
  BY PipelineAssumption
<1>2. Start \in Int /\ Start > 0 /\ Start % 4 = 0 /\ WordMod \in Nat
  BY PipelineAssumption, SizeAssumption DEF Word
<1>3. /\ AddressOf(k) \in Word /\ AddressOf(k) # 0
      /\ OutOfSection(AddressOf(k)) <=> k = Len(prog) + 1
  BY <1>1, <1>2 DEF AddressOf, OutOfSection, Word
<1>4. AddressOf(k) % 4 = 0
  BY <1>1, <1>2 DEF AddressOf
<1>5. ASSUME k <= Len(prog) PROVE InstrAt(AddressOf(k)) = prog[k] /\ prog[k] \in Instr
  <2>1. 1 + (AddressOf(k) - Start) \div 4 = k
    BY <1>1, <1>2 DEF AddressOf
  <2> QED
    BY <1>1, <1>3, <1>5, <2>1 DEF InstrAt
<1>6. ASSUME k <= Len(prog) PROVE Plus(AddressOf(k), 4) = AddressOf(k + 1)
  <2>1. AddressOf(k) + 4 = AddressOf(k + 1) /\ AddressOf(k) + 4 \in 0 .. WordMod - 1
    BY <1>1, <1>2, <1>6 DEF AddressOf
  <2> QED
    BY <1>2, <2>1 DEF Plus
<1> QED
  BY <1>1, <1>3, <1>4, <1>5, <1>6

\* The words of the section are instructions, with register numbers the register file has.
LEMMA Section ==
    ASSUME prog \in Programs, NEW k \in DOMAIN prog
    PROVE  /\ Len(prog) \in Nat /\ DOMAIN prog = 1 .. Len(prog) /\ k \in 1 .. Len(prog)
           /\ prog[k] \in Instr
           /\ prog[k].rd \in Regs /\ prog[k].rs1 \in Regs /\ prog[k].rs2 \in Regs
<1>1. prog \in Seq(Instr)
  BY PipelineAssumption
<1>2. prog[k] \in Instr
  BY <1>1
<1> QED
  BY <1>1, <1>2 DEF Instr

\* The signals ControlUnit::tick gives memory, by opcode.
LEMMA SignalFields ==
    \A i : /\ Signals(i).wb_we <=> i.op \notin {"store", "branch"}
           /\ Signals(i).mem_we <=> i.op = "store"
           /\ Signals(i).mem_to_reg <=> i.op # "load"
           /\ Signals(i).brn_cond <=> i.op = "branch"
           /\ Signals(i).jmp_cond <=> i.op \in {"jal", "jalr"}
  BY DEF Signals

\* An aligned address inside the section is that of one of its places.
LEMMA PlaceOfAddress ==
    ASSUME prog \in Programs, NEW a \in Word, a % 4 = 0, ~OutOfSection(a)
    PROVE  \E k \in 1 .. Len(prog) : a = AddressOf(k)
<1>1. Len(prog) \in Nat /\ a \in Int
  BY PipelineAssumption DEF Word
<1>2. Start \in Int /\ Start > 0 /\ Start % 4 = 0
  BY PipelineAssumption DEF Word
<1> DEFINE k == 1 + (a - Start) \div 4
<1>3. k \in 1 .. Len(prog) /\ a = AddressOf(k)
  BY <1>1, <1>2 DEF OutOfSection, AddressOf
<1> QED
  BY <1>3

-----------------------------------------------------------------------------
(* The abstract machine, in the words of the pipeline.                     *)

\* RvIsa decodes and computes with the same operators.
LEMMA SameOperators ==
    /\ \A i : IsaMachine!Signals(i) = Signals(i) /\ IsaMachine!Immediate(i) = Immediate(i)
    /\ \A i : IsaMachine!Traps(i) = Traps(i)
    /\ \A a, b : IsaMachine!Plus(a, b) = Plus(a, b)
    /\ \A a : IsaMachine!Even(a) = Even(a)
<1>1. \A op : IsaMachine!InstructionType(op) = InstructionType(op)
  BY DEF IsaMachine!InstructionType, InstructionType
<1> QED
  BY <1>1 DEF IsaMachine!Signals, Signals, IsaMachine!Immediate, Immediate, IsaMachine!Traps, Traps,
              IsaMachine!Plus, Plus, IsaMachine!Even, Even

\* The registers and memory of the architecture, when the access in memory is a good one.
LEMMA ArchTypes ==
    ASSUME TypeOK, ~BadAddress
    PROVE  /\ Forwarded \in [Regs -> Word] /\ ArchRegs = Forwarded /\ ArchDmem = DmemNext
           /\ DmemNext \in [0 .. MemCap -> Word]
<1>1. RegsNext \in [Regs -> Word] /\ WriteBackNext \in [wb_we : BOOLEAN, wb_d : Word, wb_a : Regs]
  BY MemoryStageType, DecodeStageType
<1>2. Forwarded \in [Regs -> Word]
  BY <1>1 DEF Forwarded, Pending
<1> QED
  BY <1>2, MemoryStageType DEF ArchRegs, ArchDmem, Forwarded

\* doExecute on p[k] with the right operands computes what the architecture says: the result or
\* address, whether and where it redirects, and the link address.
LEMMA ExecuteMeans ==
    ASSUME TypeOK, ~BadAddress, prog \in Programs, NEW k \in DOMAIN prog, InExecute(k), OperandsRight(k),
           NEW a, a = AddressOf(k),
           NEW i, i = prog[k], NEW v1, v1 = ArchRegs[i.rs1], NEW v2, v2 = ArchRegs[i.rs2]
    PROVE  /\ AluRes = IsaMachine!AluResult(i, a, v1, v2)
           /\ PcR <=> IsaMachine!Taken(i, v1, v2)
           /\ PcR => PcDisp = IsaMachine!Displacement(i, a, v1, v2)
           /\ i.op = "store" => Rs2v = v2
           /\ AluRes \in Word
<1>1. i \in Instr /\ i.rs1 \in Regs /\ i.rs2 \in Regs /\ a \in Word
  BY Addresses, PipelineAssumption DEF Instr
<1>2. v1 \in Word /\ v2 \in Word
  BY <1>1, ArchTypes
<1>3. execute.ctl = Signals(i) /\ execute.instr = i
  BY DEF InExecute
<1>4. /\ HasRs1(InstructionType(i.op)) => SrcA = v1
      /\ HasRs2(InstructionType(i.op)) => Rs2v = v2
      /\ i.op = "lui" => SrcA = 0
      /\ i.op = "auipc" => SrcA = a
  BY ArchTypes DEF OperandsRight
<1>5. SrcA \in Word /\ Rs2v \in Word /\ SrcB \in Word /\ AluRes \in Word
  <2>1. memory \in MemoryType /\ execute \in ExecuteType /\ write_back.wb_d \in Word
    BY DEF TypeOK, MemoryType, ExecuteType
  <2>2. SrcA \in Word /\ Rs2v \in Word
    BY <2>1 DEF SrcA, Rs2v, Bypass, TypeOK, MemoryType, ExecuteType
  <2>3. SrcB \in Word
    BY <1>1, <1>3, <2>2, ImmediateWord DEF SrcB
  <2>4. execute.ctl.alu_op \in AluOps
    BY <1>1, <1>3, SignalsType DEF SignalSet
  <2> QED
    BY <2>2, <2>3, <2>4, AluAssumption DEF AluRes
<1>6. i.op \in Ops
  BY <1>1 DEF Instr
<1> DEFINE x == IsaMachine!AluA(i, a, v1)
           y == IsaMachine!AluB(i, v2)
<1>7. x = (CASE i.op = "auipc" -> a [] i.op = "lui" -> 0 [] OTHER -> v1)
  BY DEF IsaMachine!AluA
<1>8. y = (IF Signals(i).alu_src2 THEN Immediate(i) ELSE v2)
  BY SameOperators DEF IsaMachine!AluB
<1>9. x \in Word /\ y \in Word
  BY <1>1, <1>2, <1>7, <1>8, ImmediateWord, ZeroType
<1>10. IsaMachine!AluResult(i, a, v1, v2) = Alu(Signals(i).alu_op, x, y)
  BY SameOperators DEF IsaMachine!AluResult
<1> HIDE DEF x, y
<1>11. AluRes = Alu(Signals(i).alu_op, SrcA, SrcB) /\ SrcB = IF Signals(i).alu_src2 THEN Immediate(i) ELSE Rs2v
  BY <1>3 DEF AluRes, SrcB
<1>12. AluRes = Alu(Signals(i).alu_op, x, y)
  <2>1. CASE i.op \in {"op", "op_imm", "load", "store", "jalr", "lui", "auipc"}
    <3>1. SrcA = x
      BY <1>4, <1>7, <2>1 DEF InstructionType, HasRs1
    <3>2. SrcB = y
      BY <1>4, <1>8, <1>11, <2>1 DEF InstructionType, HasRs2, Signals
    <3> QED
      BY <1>11, <3>1, <3>2
  <2>2. CASE i.op \notin {"op", "op_imm", "load", "store", "jalr", "lui", "auipc"}
    <3>1. Signals(i).alu_op = "NOP"
      BY <2>2 DEF Signals
    <3> QED
      BY <1>5, <1>9, <1>11, <3>1, NopAssumption
  <2> QED
    BY <2>1, <2>2
<1>13. AluRes = IsaMachine!AluResult(i, a, v1, v2)
  BY <1>10, <1>12
<1>14. PcR <=> IsaMachine!Taken(i, v1, v2)
  <2>1. PcR <=> Signals(i).jmp_cond \/ (Signals(i).brn_cond /\ Cmp(Signals(i).cmp_control, SrcA, Rs2v))
    BY <1>3 DEF PcR
  <2>2. IsaMachine!Taken(i, v1, v2) <=> Signals(i).jmp_cond \/ (Signals(i).brn_cond /\ Cmp(i.cmp, v1, v2))
    BY SameOperators DEF IsaMachine!Taken
  <2>3. CASE i.op = "branch"
    <3>1. SrcA = v1 /\ Rs2v = v2 /\ Signals(i).cmp_control = i.cmp
      BY <1>4, <2>3 DEF InstructionType, HasRs1, HasRs2, Signals
    <3> QED
      BY <2>1, <2>2, <3>1
  <2>4. CASE i.op # "branch"
    <3>1. ~Signals(i).brn_cond
      BY <2>4 DEF Signals
    <3> QED
      BY <2>1, <2>2, <3>1
  <2> QED
    BY <2>3, <2>4
<1>15. PcDisp = IsaMachine!Displacement(i, a, v1, v2)
  <2>1. Signals(i).is_jalr <=> i.op = "jalr"
    BY DEF Signals
  <2>2. PcDisp = IF Signals(i).is_jalr THEN Even(AluRes) ELSE Immediate(i)
    BY <1>3 DEF PcDisp
  <2>3. PcDisp = IF i.op = "jalr" THEN Even(AluRes) ELSE Immediate(i)
    BY <2>1, <2>2
  <2> QED
    BY <1>13, <2>3, SameOperators DEF IsaMachine!Displacement
<1>16. i.op = "store" => Rs2v = v2
  BY <1>4 DEF InstructionType, HasRs2
<1> QED
  BY <1>5, <1>13, <1>14, <1>15, <1>16

-----------------------------------------------------------------------------
(* One clock tick, seen from the architecture.                             *)

\* tick() moves what memory carries into write_back and what write_back carries into the
\* register file: the architecture's view of both stays, and memory's new content is added.
LEMMA TickFacts ==
    ASSUME TypeOK, Tick
    PROVE  /\ ~BadAddress /\ status = "running" /\ status' = status /\ prog' = prog
           /\ write_back' = WriteBackNext /\ dmem' = DmemNext
           /\ ArchRegs = Forwarded /\ ArchDmem = dmem' /\ RegsNext' = Forwarded
           /\ Forwarded' = Pending(Forwarded, WriteBackNext')
           /\ ArchRegs' = IF BadAddress' THEN Forwarded ELSE Forwarded'
           /\ ArchDmem' = IF BadAddress' THEN dmem' ELSE DmemNext'
<1>1. ~BadAddress /\ status = "running"
  BY DEF Tick, Fetches, Decodes
<1>2. /\ regs' = RegsNext /\ dmem' = DmemNext /\ write_back' = WriteBackNext
      /\ prog' = prog /\ status' = status
  BY DEF Tick
<1>3. RegsNext' = Forwarded
  BY <1>2 DEF RegsNext, Forwarded, Pending
<1>4. ArchRegs = Forwarded /\ ArchDmem = dmem'
  BY <1>1, <1>2, ArchTypes
<1>5. Forwarded' = Pending(Forwarded, WriteBackNext')
  BY <1>3 DEF Forwarded
<1>6. ArchRegs' = IF BadAddress' THEN Forwarded ELSE Forwarded'
  BY <1>3 DEF ArchRegs, Forwarded
<1>7. ArchDmem' = IF BadAddress' THEN dmem' ELSE DmemNext'
  BY DEF ArchDmem
<1> QED
  BY <1>1, <1>2, <1>3, <1>4, <1>5, <1>6, <1>7

\* A bubble in memory writes nothing: doMemory passes it to write_back for register 0.
LEMMA BubbleInMemory ==
    TypeOK /\ MemoryEmpty => ~BadAddress /\ DmemNext = dmem /\ Forwarded = RegsNext
<1> SUFFICES ASSUME TypeOK, MemoryEmpty
             PROVE  ~BadAddress /\ DmemNext = dmem /\ Forwarded = RegsNext
  OBVIOUS
<1>1. ~BadAddress
  BY PipelineAssumption DEF BadAddress, MemAccess, MemoryEmpty, Word
<1>2. DmemNext = dmem
  BY DEF DmemNext, MemoryEmpty
<1>3. WriteBackNext.wb_a = 0
  BY DEF WriteBackNext, MemoryEmpty
<1>4. Forwarded = RegsNext
  BY <1>3 DEF Forwarded, Pending
<1> QED
  BY <1>1, <1>2, <1>4

\* A tick that puts a bubble into memory leaves registers and memory as the architecture sees
\* them.
LEMMA NoEffect ==
    ASSUME TypeOK, Tick, MemoryEmpty'
    PROVE  ~BadAddress' /\ ArchRegs' = ArchRegs /\ ArchDmem' = ArchDmem /\ Forwarded' = Forwarded
<1>1. TypeOK'
  BY TickType
<1>2. (~BadAddress /\ DmemNext = dmem /\ Forwarded = RegsNext)'
  BY <1>1, BubbleInMemory, PTL
<1> QED
  BY <1>2, TickFacts

\* The program counter of the architecture is the address of the oldest instruction.
LEMMA PcShown ==
    ASSUME prog \in Programs, NEW a \in Word
    PROVE  IsaMachine!PcIn(prog, a) = IF OutOfSection(a) THEN 0 ELSE a
<1>1. a \in Int /\ Start \in Int /\ Len(prog) \in Nat
  BY PipelineAssumption DEF Word
<1> QED
  BY <1>1 DEF IsaMachine!PcIn, IsaMachine!InSection, OutOfSection

\* An instruction in execute is the one the architecture executes next.
LEMMA PcOfExecute ==
    ASSUME prog \in Programs, ~BadAddress, NEW k \in DOMAIN prog, InExecute(k)
    PROVE  /\ ArchPc = AddressOf(k) /\ IsaMachine!Current = prog[k]
           /\ IsaMachine!InSection(prog, ArchPc)
<1>1. Len(prog) \in Nat /\ k \in 1 .. Len(prog) /\ DOMAIN prog = 1 .. Len(prog)
  BY PipelineAssumption
<1>2. /\ AddressOf(k) \in Word /\ AddressOf(k) # 0 /\ ~OutOfSection(AddressOf(k))
      /\ InstrAt(AddressOf(k)) = prog[k]
  BY <1>1, Addresses
<1>3. ArchPc = AddressOf(k)
  BY <1>2 DEF ArchPc, Oldest, InExecute
<1>4. IsaMachine!InSection(prog, ArchPc)
  <2>1. AddressOf(k) \in Int /\ Start \in Int
    BY <1>2, PipelineAssumption DEF Word
  <2> QED
    BY <1>1, <1>2, <1>3, <2>1 DEF IsaMachine!InSection, OutOfSection
<1>5. IsaMachine!Current = prog[k]
  BY <1>2, <1>3, <1>4 DEF IsaMachine!Current, IsaMachine!InstrAt, InstrAt
<1> QED
  BY <1>3, <1>4, <1>5

\* An instruction that leaves execute with its operands right does to registers, memory and
\* program counter what the architecture says, or throws where the architecture faults.
LEMMA Executed ==
    ASSUME TypeOK, Tick, prog \in Programs, NEW k \in DOMAIN prog, InExecute(k), OperandsRight(k),
           ~Traps(prog[k]), memory' = MemoryNext,
           ArchPc' = IF BadAddress' THEN 0
                     ELSE IsaMachine!PcIn(prog, IF PcR THEN Plus(AddressOf(k), PcDisp)
                                                ELSE Plus(AddressOf(k), 4))
    PROVE  IsaMachine!Next /\ (BadAddress' => prog[k].op \in {"load", "store"})
<1> DEFINE i == prog[k]
           a == AddressOf(k)
           v1 == ArchRegs[i.rs1]
           v2 == ArchRegs[i.rs2]
           ar == IsaMachine!AluResult(i, a, v1, v2)
<1>1. i \in Instr /\ i.rd \in Regs /\ i.rs1 \in Regs /\ i.rs2 \in Regs
  BY Section
<1>2. /\ ~BadAddress /\ prog' = prog /\ ArchRegs = Forwarded /\ ArchDmem = dmem'
      /\ Forwarded' = Pending(Forwarded, WriteBackNext')
      /\ ArchRegs' = IF BadAddress' THEN Forwarded ELSE Forwarded'
      /\ ArchDmem' = IF BadAddress' THEN dmem' ELSE DmemNext'
  BY TickFacts
<1>3. /\ AluRes = ar
      /\ PcR <=> IsaMachine!Taken(i, v1, v2)
      /\ PcR => PcDisp = IsaMachine!Displacement(i, a, v1, v2)
      /\ i.op = "store" => Rs2v = v2
  BY <1>2, ExecuteMeans
<1>4. ArchPc = a /\ IsaMachine!Current = i /\ IsaMachine!InSection(prog, ArchPc)
  BY <1>2, PcOfExecute
<1>5. IsaMachine!Executable(prog, ArchPc)
  BY <1>4, SameOperators DEF IsaMachine!Executable, IsaMachine!Current
<1>6. IsaMachine!Operand1 = v1 /\ IsaMachine!Operand2 = v2 /\ IsaMachine!Address = ar
  BY <1>4 DEF IsaMachine!Operand1, IsaMachine!Operand2, IsaMachine!Address
<1>7. /\ memory'.wb_a = i.rd
      /\ memory'.wb_we <=> i.op \notin {"store", "branch"}
      /\ memory'.mem_we <=> i.op = "store"
      /\ memory'.mem_to_reg <=> i.op # "load"
      /\ memory'.write_data = Rs2v
      /\ memory'.alu_res = IF i.op \in {"jal", "jalr"} THEN Plus(a, 4) ELSE AluRes
  <2>1. /\ memory'.wb_a = i.rd /\ memory'.write_data = Rs2v
        /\ memory'.wb_we <=> Signals(i).wb_we
        /\ memory'.mem_we <=> Signals(i).mem_we
        /\ memory'.mem_to_reg = Signals(i).mem_to_reg
        /\ memory'.alu_res = IF Signals(i).jmp_cond THEN Plus(a, 4) ELSE AluRes
    BY DEF MemoryNext, InExecute
  <2> QED
    BY <2>1, SignalFields
<1>8. BadAddress' <=> IsaMachine!Faults
  BY <1>3, <1>4, <1>6, <1>7 DEF BadAddress, MemAccess, IsaMachine!Faults
<1>9. CASE BadAddress'
  <2>1. ArchPc' = 0 /\ ArchRegs' = ArchRegs /\ ArchDmem' = ArchDmem
    BY <1>2, <1>9
  <2> QED
    BY <1>2, <1>4, <1>5, <1>8, <1>9, <2>1 DEF IsaMachine!Next, IsaMachine!Fault, IsaMachine!Faults
<1>10. CASE ~BadAddress'
  <2>1. ArchPc' = IsaMachine!PcIn(prog, IsaMachine!NextPc(i, a, v1, v2))
    BY <1>3, <1>10, SameOperators DEF IsaMachine!NextPc
  <2>2. WriteBackNext'.wb_d = IsaMachine!Result(i, a, v1, v2, dmem')
    BY <1>3, <1>7, SameOperators DEF WriteBackNext, IsaMachine!Result, Signals
  <2>3. WriteBackNext'.wb_a = i.rd /\ (WriteBackNext'.wb_we <=> Signals(i).wb_we)
    BY <1>7 DEF WriteBackNext, Signals
  <2>4. ArchRegs' = IF Signals(i).wb_we /\ i.rd # 0
                    THEN [ArchRegs EXCEPT ![i.rd] = IsaMachine!Result(i, a, v1, v2, ArchDmem)]
                    ELSE ArchRegs
    BY <1>2, <1>10, <2>2, <2>3 DEF Pending
  <2>5. ArchDmem' = IF i.op = "store" THEN [ArchDmem EXCEPT ![ar] = v2] ELSE ArchDmem
    BY <1>2, <1>3, <1>7, <1>10 DEF DmemNext
  <2> HIDE DEF i, a, v1, v2, ar
  <2> QED
    BY <1>2, <1>4, <1>5, <1>6, <1>8, <1>10, <2>1, <2>4, <2>5, SameOperators
    DEF IsaMachine!Next, IsaMachine!Step
<1> QED
  BY <1>9, <1>10

\* A nop that leaves execute changes the program counter alone, whatever tick() puts into memory
\* for it: in the shutdown that is a bubble.
LEMMA NopExecuted ==
    ASSUME TypeOK, Tick, prog \in Programs, NEW k \in DOMAIN prog, InExecute(k),
           prog[k].op = "op_imm", prog[k].rd = 0, MemoryEmpty',
           ArchPc' = IsaMachine!PcIn(prog, AddressOf(k + 1))
    PROVE  IsaMachine!Next
<1> DEFINE i == prog[k]
           a == AddressOf(k)
<1>1. /\ ~BadAddress /\ ArchRegs' = ArchRegs /\ ArchDmem' = ArchDmem /\ prog' = prog
  BY NoEffect, TickFacts
<1>2. ArchPc = a /\ IsaMachine!Current = i /\ IsaMachine!InSection(prog, ArchPc)
  BY <1>1, PcOfExecute
<1>3. IsaMachine!Executable(prog, ArchPc)
  BY <1>2, SameOperators DEF IsaMachine!Executable, IsaMachine!Current, Traps
<1>4. k \in 1 .. Len(prog) /\ k \in 1 .. Len(prog) + 1 /\ k <= Len(prog)
  BY PipelineAssumption
<1>5. Plus(a, 4) = AddressOf(k + 1)
  BY <1>4, Addresses
<1>6. \A v1, v2 : ~IsaMachine!Taken(i, v1, v2)
  BY SameOperators DEF IsaMachine!Taken, Signals
<1>7. \A v1, v2 : IsaMachine!NextPc(i, a, v1, v2) = AddressOf(k + 1)
  BY <1>5, <1>6, SameOperators DEF IsaMachine!NextPc
<1>8. ~IsaMachine!Faults
  BY <1>2 DEF IsaMachine!Faults
<1> QED
  BY <1>1, <1>2, <1>3, <1>7, <1>8 DEF IsaMachine!Next, IsaMachine!Step

-----------------------------------------------------------------------------
(* What one tick does to the stage registers.                              *)

\* A result of register 0, or of a bubble, stalls nothing.
LEMMA NoHalt == MemoryTicked.wb_a = 0 => ~Halts
  BY DEF Halts, ChosenRs1, ChosenRs2, Chosen

\* A tick without redirect, stall or shutdown moves every stage one on.
LEMMA Advances ==
    ASSUME TypeOK, Tick, Runs, ~LeavesSection, ~PcR
    PROVE  /\ MemoryTicked = MemoryNext /\ memory' = MemoryNext
           /\ ExecuteTicked = ExecuteNext /\ execute' = ExecuteNext
           /\ decode' = DecodeNext /\ pc' = Plus(pc, 4)
           /\ enable' = [pc |-> ~Halts, dec |-> ~Halts, exe |-> ~Halts, mem |-> TRUE]
           /\ hu_rs1' = ChosenRs1 /\ hu_rs2' = ChosenRs2
           /\ last' = IF last.flag THEN [flag |-> TRUE, counter |-> last.counter - 1] ELSE last
<1>1. ~AfterJump /\ ~AfterLast
  BY DEF AfterJump, AfterLast
<1>2. Enabled.pc /\ Enabled.dec /\ Enabled.exe /\ Enabled.mem = TRUE
  BY <1>1 DEF Enabled, Runs, TypeOK
<1>3. MemoryTicked = MemoryNext /\ ExecuteTicked = ExecuteNext /\ DecodeTicked = DecodeNext
  BY <1>2 DEF MemoryTicked, ExecuteTicked, DecodeTicked
<1>4. pc' = Plus(pc, 4)
  BY <1>2 DEF Tick, PcNext
<1>5. last' = IF last.flag THEN [flag |-> TRUE, counter |-> last.counter - 1] ELSE last
  BY <1>1 DEF Tick, LastFlag, Counter, TypeOK
<1>6. HazardUnitTick /\ memory' = MemoryTicked
  BY DEF Tick
<1> QED
  BY <1>2, <1>3, <1>4, <1>5, <1>6 DEF HazardUnitTick

\* The tick that finds the program counter behind the section lets execute and memory run on
\* and holds the rest; nothing taken there, so no jump came before it.
LEMMA Drains ==
    ASSUME TypeOK, Tick, Runs, AfterLast
    PROVE  /\ MemoryTicked = ClearMemory /\ memory' = ClearMemory
           /\ execute' = ExecuteNext /\ decode' = ClearDecode /\ pc' = pc
           /\ enable' = [pc |-> TRUE, dec |-> TRUE, exe |-> TRUE, mem |-> TRUE]
           /\ last' = [flag |-> TRUE, counter |-> 2]
<1>1. ~AfterJump /\ ~PcR /\ LeavesSection
  BY DEF AfterJump, AfterLast
<1>2. ~Enabled.pc /\ ~Enabled.dec /\ Enabled.exe /\ Enabled.mem = TRUE
  BY <1>1 DEF Enabled, Runs, TypeOK
<1>3. MemoryTicked = ClearMemory /\ ExecuteTicked = ExecuteNext /\ DecodeTicked = ClearDecode
  BY <1>2 DEF MemoryTicked, ExecuteTicked, DecodeTicked
<1>4. ~Halts
  BY <1>3, NoHalt DEF ClearMemory
<1>5. pc' = pc
  BY <1>2 DEF Tick
<1>6. last' = [flag |-> TRUE, counter |-> 2]
  <2>1. LastFlag = TRUE /\ Counter - 1 = 2
    BY <1>1 DEF LastFlag, Counter
  <2> QED
    BY <2>1 DEF Tick
<1>7. HazardUnitTick /\ memory' = MemoryTicked
  BY DEF Tick
<1> QED
  BY <1>1, <1>2, <1>3, <1>4, <1>5, <1>6, <1>7 DEF HazardUnitTick

\* A taken branch or jump empties the stages in front of it.
LEMMA Redirects ==
    ASSUME TypeOK, Tick, Runs, ~LeavesSection, PcR
    PROVE  /\ memory' = MemoryNext /\ execute' = ClearExecute /\ decode' = ClearDecode
           /\ pc' = Plus(execute.pc_de, PcDisp) /\ Runs'
           /\ ~last.flag => last' = last
<1>1. ~AfterJump /\ ~AfterLast
  BY DEF AfterJump, AfterLast
<1>2. Enabled.pc /\ Enabled.dec /\ Enabled.exe /\ Enabled.mem
  BY <1>1 DEF Enabled, Runs
<1>3. HazardUnitTick /\ memory' = MemoryTicked
  BY DEF Tick
<1>4. execute' = ClearExecute /\ decode' = ClearDecode /\ Runs'
  BY <1>2, <1>3 DEF HazardUnitTick, Runs
<1>5. ~last.flag => last' = last
  BY <1>1 DEF Tick, LastFlag, Counter, TypeOK
<1> QED
  BY <1>2, <1>3, <1>4, <1>5 DEF MemoryTicked, Tick, PcNext

\* A bubble in execute neither redirects nor stores, and leaves a bubble for memory.
LEMMA BubbleInExecute ==
    ASSUME TypeOK, ExecuteEmpty
    PROVE  /\ ~PcR /\ MemoryNext.wb_a = 0 /\ ~MemoryNext.mem_we /\ ~MemoryNext.jmp_cond
           /\ MemoryNext.alu_res = 0
<1>1. /\ ~execute.ctl.jmp_cond /\ ~execute.ctl.brn_cond /\ ~execute.ctl.mem_we
      /\ execute.ctl.alu_op = "NOP"
  <2>1. CASE execute.ctl = NoSignals
    BY <2>1 DEF NoSignals
  <2>2. CASE execute.ctl = Signals(ZeroInstr)
    <3>1. ZeroInstr.op = "zero"
      BY DEF ZeroInstr
    <3>2. Signals(ZeroInstr).alu_op = "NOP"
      BY <3>1 DEF Signals
    <3> QED
      BY <2>2, <3>1, <3>2, SignalFields
  <2> QED
    BY <2>1, <2>2 DEF ExecuteEmpty
<1>2. AluRes = 0
  <2>1. memory \in MemoryType /\ execute \in ExecuteType /\ write_back.wb_d \in Word
    BY DEF TypeOK, MemoryType, ExecuteType
  <2>2. SrcA \in Word /\ Rs2v \in Word
    BY <2>1 DEF SrcA, Rs2v, Bypass, TypeOK, MemoryType, ExecuteType
  <2>3. SrcB \in Word
    BY <2>1, <2>2, ImmediateWord DEF SrcB, ExecuteType
  <2> QED
    BY <1>1, <2>2, <2>3, NopAssumption DEF AluRes
<1>3. execute.instr.rd = 0
  BY DEF ExecuteEmpty, ZeroInstr
<1>4. ~PcR
  BY <1>1 DEF PcR
<1> QED
  BY <1>1, <1>2, <1>3, <1>4 DEF MemoryNext

\* An empty decode stage leaves a bubble for execute.
LEMMA BubbleInDecode ==
    ASSUME TypeOK, decode.instr = ZeroInstr, ~decode.v_de, ~PcR
    PROVE  /\ ExecuteNext.ctl = Signals(ZeroInstr) /\ ~ExecuteNext.v_de
           /\ ExecuteNext.pc_de = decode.pc_de /\ ExecuteNext.instr = ZeroInstr
  BY DEF ExecuteNext

\* A word without results in execute puts a bubble into memory.
LEMMA NopForMemory ==
    ASSUME NEW k \in DOMAIN prog, InExecute(k), prog[k].op = "op_imm", prog[k].rd = 0
    PROVE  /\ ~PcR /\ MemoryNext.wb_a = 0 /\ ~MemoryNext.mem_we /\ ~MemoryNext.jmp_cond
           /\ MemoryNext.mem_to_reg
  BY SignalFields DEF InExecute, PcR, MemoryNext

\* The operand a bypass delivers in the next tick is the architecture's: hazardUnitTick takes
\* the youngest result of that register, and the value the stage read otherwise.
LEMMA Forwards ==
    ASSUME TypeOK, Tick, ~PcR, NEW rs \in Regs,
           rs # 0 /\ rs = memory'.wb_a => memory'.wb_we /\ memory'.mem_to_reg,
           rs # 0 /\ rs # memory'.wb_a /\ rs = memory.wb_a => memory.wb_we
    PROVE  \/ /\ Chosen(TRUE, rs) = "MEM" /\ Forwarded'[rs] = memory'.alu_res
           \/ /\ Chosen(TRUE, rs) = "WB" /\ Forwarded'[rs] = write_back'.wb_d
           \/ /\ Chosen(TRUE, rs) = "REG" /\ Forwarded'[rs] = RegsNext[rs]
              /\ rs = 0 \/ (rs # memory'.wb_a /\ rs # memory.wb_a)
<1>1. /\ write_back' = WriteBackNext /\ Forwarded' = Pending(Forwarded, WriteBackNext')
      /\ ~BadAddress /\ memory' = MemoryTicked
  BY TickFacts DEF Tick
<1>2. Forwarded \in [Regs -> Word] /\ RegsNext \in [Regs -> Word]
  BY <1>1, ArchTypes, DecodeStageType
<1>3. Chosen(TRUE, rs) = CASE rs # 0 /\ rs = memory'.wb_a -> "MEM"
                           [] rs # 0 /\ rs # memory'.wb_a /\ rs = memory.wb_a -> "WB"
                           [] OTHER -> "REG"
  BY <1>1 DEF Chosen, WriteBackNext
<1>4. /\ WriteBackNext'.wb_a = memory'.wb_a /\ WriteBackNext'.wb_we = memory'.wb_we
      /\ memory'.mem_to_reg => WriteBackNext'.wb_d = memory'.alu_res
      /\ WriteBackNext.wb_a = memory.wb_a /\ WriteBackNext.wb_we = memory.wb_we
  BY DEF WriteBackNext
<1>5. CASE rs # 0 /\ rs = memory'.wb_a
  <2>1. Forwarded'[rs] = memory'.alu_res
    BY <1>1, <1>2, <1>4, <1>5 DEF Pending
  <2> QED
    BY <1>3, <1>5, <2>1
<1>6. ASSUME ~(rs # 0 /\ rs = memory'.wb_a) PROVE Forwarded'[rs] = Forwarded[rs]
  BY <1>1, <1>2, <1>4, <1>6 DEF Pending
<1>7. CASE rs # 0 /\ rs # memory'.wb_a /\ rs = memory.wb_a
  <2>1. Forwarded[rs] = WriteBackNext.wb_d
    BY <1>2, <1>4, <1>7 DEF Forwarded, Pending
  <2> QED
    BY <1>1, <1>3, <1>6, <1>7, <2>1
<1>8. CASE rs = 0 \/ (rs # memory'.wb_a /\ rs # memory.wb_a)
  <2>1. Forwarded[rs] = RegsNext[rs]
    BY <1>2, <1>4, <1>8 DEF Forwarded, Pending
  <2> QED
    BY <1>3, <1>6, <1>8, <2>1
<1> QED
  BY <1>5, <1>7, <1>8

-----------------------------------------------------------------------------
(* From each phase to the next.                                            *)

\* One instruction of the architecture, or none.
OneOrNone ==
    IsaMachine!Next \/ UNCHANGED <<prog, ArchPc, ArchRegs, ArchDmem>>

\* A tick that hands memory a bubble and shows the same program counter is none.
LEMMA Stutters ==
    ASSUME TypeOK, Tick, MemoryEmpty', ArchPc' = ArchPc
    PROVE  OneOrNone
  BY NoEffect, TickFacts DEF OneOrNone

\* The program counter the architecture shows after a tick.
LEMMA PcShownNext ==
    ASSUME prog' = prog, NEW a, Oldest' = a
    PROVE  ArchPc' = IF BadAddress' \/ OutOfSection(a) THEN 0 ELSE a
  BY DEF ArchPc, OutOfSection

\* The word 0 in execute waits for no load.
LEMMA NoHaltForZero == ExecuteTicked.instr = ZeroInstr => ~Halts
<1> SUFFICES ASSUME ExecuteTicked.instr = ZeroInstr PROVE ~Halts
  OBVIOUS
<1>1. ExecuteTicked.instr.rs1 = 0 /\ ExecuteTicked.instr.rs2 = 0
  BY DEF ZeroInstr
<1> QED
  BY <1>1 DEF Halts, ChosenRs1, ChosenRs2, Chosen

\* The first fetch, at the start and after a redirect, or the end when there is nothing to
\* fetch any more.
LEMMA FromEmpty ==
    ASSUME TypeOK, Tick, prog \in Programs, pc % 4 = 0, Empty
    PROVE  InFlight' /\ OneOrNone
<1>1. /\ ~last.flag /\ Runs /\ ExecuteEmpty /\ decode = ClearDecode
      /\ decode.instr = ZeroInstr /\ ~decode.v_de /\ decode.pc_de = 0
  BY DEF Empty, ClearDecode
<1>2. /\ ~PcR /\ MemoryNext.wb_a = 0 /\ ~MemoryNext.mem_we /\ ~MemoryNext.jmp_cond
      /\ MemoryNext.alu_res = 0
  BY <1>1, BubbleInExecute
<1>3. /\ ExecuteNext.ctl = Signals(ZeroInstr) /\ ~ExecuteNext.v_de
      /\ ExecuteNext.pc_de = 0 /\ ExecuteNext.instr = ZeroInstr
  BY <1>1, <1>2, BubbleInDecode
<1>4. LeavesSection <=> OutOfSection(pc)
  <2>1. ZeroInstr.op = "zero"
    BY DEF ZeroInstr
  <2> QED
    BY <1>1, <1>3, <2>1, SignalFields DEF LeavesSection
<1>5. prog' = prog /\ ~BadAddress
  BY TickFacts
<1>6. ArchPc = IF OutOfSection(pc) THEN 0 ELSE pc
  BY <1>1, <1>5 DEF ArchPc, Oldest, ExecuteEmpty
<1>7. CASE ~OutOfSection(pc)
  <2>1. PICK k \in 1 .. Len(prog) : pc = AddressOf(k)
    BY <1>7, PlaceOfAddress DEF TypeOK
  <2>2. Len(prog) \in Nat /\ k \in DOMAIN prog /\ k <= Len(prog) /\ k \in 1 .. Len(prog) + 1
    BY PipelineAssumption
  <2>3. AddressOf(k) # 0 /\ InstrAt(pc) = prog[k] /\ Plus(pc, 4) = AddressOf(k + 1)
    BY <2>1, <2>2, Addresses
  <2>4. /\ MemoryTicked = MemoryNext /\ memory' = MemoryNext
        /\ ExecuteTicked = ExecuteNext /\ execute' = ExecuteNext
        /\ decode' = DecodeNext /\ pc' = AddressOf(k + 1) /\ ~last.flag /\ last' = last
        /\ enable' = [pc |-> ~Halts, dec |-> ~Halts, exe |-> ~Halts, mem |-> TRUE]
    BY <1>1, <1>2, <1>4, <1>7, <2>3, Advances
  <2>5. MemoryEmpty'
    BY <1>2, <2>4 DEF MemoryEmpty
  <2>6. Runs'
    BY <1>3, <2>4, NoHaltForZero DEF Runs
  <2>7. ExecuteEmpty'
    BY <1>3, <2>4 DEF ExecuteEmpty
  <2>8. InDecode(k)'
    BY <1>2, <1>5, <2>1, <2>3, <2>4 DEF InDecode, DecodeNext, PcR
  <2>9. InFlight'
    BY <1>5, <2>2, <2>4, <2>5, <2>6, <2>7, <2>8 DEF InFlight, Fetched
  <2>10. Oldest' = AddressOf(k)
    BY <2>3, <2>4, <2>7, <2>8 DEF Oldest, ExecuteEmpty, InDecode
  <2>11. ArchPc' = ArchPc
    BY <1>5, <1>6, <2>1, <2>5, <2>10, NoEffect, PcShownNext
  <2> QED
    BY <2>5, <2>9, <2>11, Stutters
<1>8. CASE OutOfSection(pc) /\ memory.jmp_cond
  <2>1. AfterJump
    BY <1>4, <1>8 DEF AfterJump
  <2>2. ~Enabled.pc /\ ~Enabled.dec /\ ~Enabled.exe /\ ~AfterLast
    BY <1>8, <2>1 DEF Enabled, AfterLast
  <2>3. memory' = ClearMemory /\ execute' = execute
    BY <1>2, <2>2 DEF Tick, MemoryTicked, HazardUnitTick, ExecuteTicked
  <2>4. last' = [flag |-> TRUE, counter |-> 0]
    <3>1. LastFlag = TRUE /\ Counter - 1 = 0
      BY <1>4, <1>8, <2>1 DEF LastFlag, Counter
    <3> QED
      BY <3>1 DEF Tick
  <2>5. MemoryEmpty'
    BY <2>3 DEF MemoryEmpty, ClearMemory
  <2>6. 0 < Start /\ execute'.pc_de = 0
    BY <1>1, <2>3, PipelineAssumption DEF ExecuteEmpty, Word
  <2>7. InFlight'
    BY <2>4, <2>5, <2>6 DEF InFlight, Gone, OutOfSection
  <2>8. Oldest' = 0
    BY <2>4, <2>6 DEF Oldest
  <2>9. ArchPc' = ArchPc
    BY <1>5, <1>6, <1>8, <2>5, <2>8, NoEffect, PcShownNext
  <2> QED
    BY <2>5, <2>7, <2>9, Stutters
<1>9. CASE OutOfSection(pc) /\ ~memory.jmp_cond
  <2>1. AfterLast
    BY <1>2, <1>4, <1>9 DEF AfterLast
  <2>2. /\ memory' = ClearMemory /\ execute' = ExecuteNext /\ decode' = ClearDecode /\ pc' = pc
        /\ enable' = [pc |-> TRUE, dec |-> TRUE, exe |-> TRUE, mem |-> TRUE]
        /\ last' = [flag |-> TRUE, counter |-> 2]
    BY <1>1, <2>1, Drains
  <2>3. MemoryEmpty' /\ ExecuteEmpty' /\ Runs'
    BY <1>3, <2>2 DEF MemoryEmpty, ClearMemory, ExecuteEmpty, Runs
  <2>4. OutOfSection(pc)'
    BY <1>5, <1>9, <2>2 DEF OutOfSection
  <2>5. InFlight'
    BY <2>2, <2>3, <2>4 DEF InFlight, LastExecutes, ClearDecode
  <2>6. Oldest' = 0
    BY <1>3, <2>2 DEF Oldest
  <2>7. ArchPc' = ArchPc
    BY <1>5, <1>6, <1>9, <2>3, <2>6, NoEffect, PcShownNext
  <2> QED
    BY <2>3, <2>5, <2>7, Stutters
<1> QED
  BY <1>7, <1>8, <1>9

\* The operands of the instruction that the clock puts or leaves in execute, when the results it
\* names are real ones: hazardUnitTick matches register numbers alone.
LEMMA OperandsArrive ==
    ASSUME TypeOK, Tick, ~PcR, prog \in Programs, NEW k \in DOMAIN prog, InExecute(k)',
           NEW i, i = prog[k], NEW type, type = InstructionType(i.op),
           HasRs1(type) => hu_rs1' = Chosen(TRUE, i.rs1),
           HasRs2(type) => hu_rs2' = Chosen(TRUE, i.rs2),
           Matches(i, memory'.wb_a) => memory'.wb_we /\ memory'.mem_to_reg,
           Matches(i, memory.wb_a) /\ memory.wb_a # memory'.wb_a => memory.wb_we,
           HasRs1(type) /\ (i.rs1 = 0 \/ (i.rs1 # memory'.wb_a /\ i.rs1 # memory.wb_a))
               => execute'.data1 = RegsNext[i.rs1],
           HasRs2(type) /\ (i.rs2 = 0 \/ (i.rs2 # memory'.wb_a /\ i.rs2 # memory.wb_a))
               => execute'.data2 = RegsNext[i.rs2],
           i.op = "lui" => hu_rs1' = "REG" /\ execute'.data1 = 0,
           i.op = "auipc" => hu_rs1' = "REG" /\ execute'.data1 = AddressOf(k)
    PROVE  OperandsRight(k)'
<1>1. i.rs1 \in Regs /\ i.rs2 \in Regs /\ prog' = prog
  BY Section, TickFacts
<1>2. ASSUME HasRs1(type) PROVE SrcA' = Forwarded'[i.rs1]
  <2>1. i.rs1 # 0 /\ i.rs1 = memory'.wb_a => memory'.wb_we /\ memory'.mem_to_reg
    BY <1>2 DEF Matches
  <2>2. i.rs1 # 0 /\ i.rs1 # memory'.wb_a /\ i.rs1 = memory.wb_a => memory.wb_we
    BY <1>2 DEF Matches
  <2>3. hu_rs1' = Chosen(TRUE, i.rs1)
    BY <1>2
  <2>4. SrcA' = CASE hu_rs1' = "REG" -> execute'.data1
                [] hu_rs1' = "MEM" -> memory'.alu_res
                [] hu_rs1' = "WB" -> write_back'.wb_d
    BY DEF SrcA, Bypass
  <2>5. i.rs1 = 0 \/ (i.rs1 # memory'.wb_a /\ i.rs1 # memory.wb_a)
            => execute'.data1 = RegsNext[i.rs1]
    BY <1>2
  <2>6. \/ /\ Chosen(TRUE, i.rs1) = "MEM" /\ Forwarded'[i.rs1] = memory'.alu_res
        \/ /\ Chosen(TRUE, i.rs1) = "WB" /\ Forwarded'[i.rs1] = write_back'.wb_d
        \/ /\ Chosen(TRUE, i.rs1) = "REG" /\ Forwarded'[i.rs1] = RegsNext[i.rs1]
           /\ i.rs1 = 0 \/ (i.rs1 # memory'.wb_a /\ i.rs1 # memory.wb_a)
    BY <1>1, <2>1, <2>2, Forwards
  <2> QED
    BY <2>3, <2>4, <2>5, <2>6
<1>3. ASSUME HasRs2(type) PROVE Rs2v' = Forwarded'[i.rs2]
  <2>1. i.rs2 # 0 /\ i.rs2 = memory'.wb_a => memory'.wb_we /\ memory'.mem_to_reg
    BY <1>3 DEF Matches
  <2>2. i.rs2 # 0 /\ i.rs2 # memory'.wb_a /\ i.rs2 = memory.wb_a => memory.wb_we
    BY <1>3 DEF Matches
  <2>3. hu_rs2' = Chosen(TRUE, i.rs2)
    BY <1>3
  <2>4. Rs2v' = CASE hu_rs2' = "REG" -> execute'.data2
                [] hu_rs2' = "MEM" -> memory'.alu_res
                [] hu_rs2' = "WB" -> write_back'.wb_d
    BY DEF Rs2v, Bypass
  <2>5. i.rs2 = 0 \/ (i.rs2 # memory'.wb_a /\ i.rs2 # memory.wb_a)
            => execute'.data2 = RegsNext[i.rs2]
    BY <1>3
  <2>6. \/ /\ Chosen(TRUE, i.rs2) = "MEM" /\ Forwarded'[i.rs2] = memory'.alu_res
        \/ /\ Chosen(TRUE, i.rs2) = "WB" /\ Forwarded'[i.rs2] = write_back'.wb_d
        \/ /\ Chosen(TRUE, i.rs2) = "REG" /\ Forwarded'[i.rs2] = RegsNext[i.rs2]
           /\ i.rs2 = 0 \/ (i.rs2 # memory'.wb_a /\ i.rs2 # memory.wb_a)
    BY <1>1, <2>1, <2>2, Forwards
  <2> QED
    BY <2>3, <2>4, <2>5, <2>6
<1>4. i.op = "lui" => SrcA' = 0
  BY DEF SrcA, Bypass
<1>5. i.op = "auipc" => SrcA' = AddressOf(k)
  BY DEF SrcA, Bypass
<1> QED
  BY <1>1, <1>2, <1>3, <1>4, <1>5 DEF OperandsRight

\* The word in decode moves to execute, the one behind it to decode; it stalls exactly when it
\* reads the register of a load in memory.
LEMMA Arrives ==
    ASSUME TypeOK, Tick, prog \in Programs, NEW k \in DOMAIN prog, k + 1 \in DOMAIN prog,
           Runs, ~last.flag, InDecode(k), pc = AddressOf(k + 1), ~PcR
    PROVE  /\ memory' = MemoryNext /\ Filled(k)'
           /\ Halts <=> ~memory'.mem_to_reg /\ Matches(prog[k], memory'.wb_a)
           /\ ~Halts => Runs'
           /\ Halts => Stands'
           /\ HasRs1(InstructionType(prog[k].op)) => execute'.data1 = RegsNext[prog[k].rs1]
           /\ execute'.data2 = RegsNext[prog[k].rs2]
           /\ /\ Matches(prog[k], memory'.wb_a) => memory'.wb_we /\ memory'.mem_to_reg
              /\ Matches(prog[k], memory.wb_a) /\ memory.wb_a # memory'.wb_a => memory.wb_we
              => OperandsRight(k)'
<1> DEFINE i == prog[k]
           type == InstructionType(i.op)
<1>1. /\ Len(prog) \in Nat /\ k \in 1 .. Len(prog) /\ k + 1 \in 1 .. Len(prog)
      /\ i.rs1 \in Regs /\ i.rs2 \in Regs
  BY Section
<1>2. prog' = prog /\ ~Traps(i)
  BY TickFacts DEF Tick, Fetches, InDecode
<1>3. ~OutOfSection(pc) /\ InstrAt(pc) = prog[k + 1] /\ Plus(pc, 4) = AddressOf(k + 2)
  <2>1. k + 1 \in 1 .. Len(prog) + 1 /\ k + 1 # Len(prog) + 1 /\ k + 1 <= Len(prog)
    BY <1>1
  <2>2. AddressOf((k + 1) + 1) = AddressOf(k + 2)
    BY <1>1 DEF AddressOf
  <2> QED
    BY <2>1, <2>2, Addresses
<1>4. /\ MemoryTicked = memory' /\ memory' = MemoryNext
      /\ ExecuteTicked = ExecuteNext /\ execute' = ExecuteNext
      /\ decode' = DecodeNext /\ pc' = AddressOf(k + 2) /\ last' = last
      /\ enable' = [pc |-> ~Halts, dec |-> ~Halts, exe |-> ~Halts, mem |-> TRUE]
      /\ hu_rs1' = ChosenRs1 /\ hu_rs2' = ChosenRs2
  BY <1>3, Advances DEF LeavesSection
<1>5. InDecode(k + 1)'
  BY <1>2, <1>3, <1>4 DEF InDecode, DecodeNext, PcR
<1>6. /\ InExecute(k)' /\ execute'.instr = i
      /\ execute'.data1 = CASE i.op = "auipc" -> AddressOf(k)
                            [] i.op = "lui" -> 0
                            [] OTHER -> RegsNext[i.rs1]
      /\ execute'.data2 = RegsNext[i.rs2]
  BY <1>2, <1>4 DEF InDecode, InExecute, ExecuteNext
<1>7. Filled(k)'
  BY <1>2, <1>4, <1>5, <1>6 DEF Filled
<1>8. HasRs1(type) => execute'.data1 = RegsNext[i.rs1]
  BY <1>6 DEF HasRs1, InstructionType
<1>9. hu_rs1' = Chosen(HasRs1(type), i.rs1) /\ hu_rs2' = Chosen(HasRs2(type), i.rs2)
  BY <1>4, <1>6 DEF ChosenRs1, ChosenRs2, DecodedType, InDecode
<1>10. Halts <=> ~memory'.mem_to_reg /\ Matches(i, memory'.wb_a)
  BY <1>4, <1>9 DEF Halts, Chosen, Matches
<1>11. /\ HasRs1(type) => hu_rs1' = Chosen(TRUE, i.rs1)
       /\ HasRs2(type) => hu_rs2' = Chosen(TRUE, i.rs2)
       /\ ~HasRs1(type) => hu_rs1' = "REG"
  BY <1>9 DEF Chosen
<1>12. i.op \in {"lui", "auipc"} => ~HasRs1(type)
  BY DEF InstructionType, HasRs1
<1>13. (~Halts => Runs') /\ (Halts => Stands')
  BY <1>4 DEF Runs, Stands
<1>14. ASSUME Matches(i, memory'.wb_a) => memory'.wb_we /\ memory'.mem_to_reg,
              Matches(i, memory.wb_a) /\ memory.wb_a # memory'.wb_a => memory.wb_we
       PROVE  OperandsRight(k)'
  <2>1. i.op = "lui" => execute'.data1 = 0
    BY <1>6
  <2>2. i.op = "auipc" => execute'.data1 = AddressOf(k)
    BY <1>6
  <2> HIDE DEF i, type
  <2> QED
    BY <1>6, <1>8, <1>11, <1>12, <1>14, <2>1, <2>2, OperandsArrive DEF i, type
<1> QED
  BY <1>4, <1>6, <1>7, <1>8, <1>10, <1>13, <1>14

\* The last word moves to execute and nothing is fetched behind it.
LEMMA LastArrives ==
    ASSUME TypeOK, Tick, prog \in Programs, SafeProgram(prog), Runs, ~last.flag, ~memory.jmp_cond,
           NEW k, k = Len(prog), InDecode(k), pc = AddressOf(k + 1), ~PcR
    PROVE  InFlight' /\ MemoryEmpty' /\ ArchPc' = AddressOf(k)
<1>1. k \in Nat /\ k >= 2 /\ DOMAIN prog = 1 .. k /\ prog[k].op = "op_imm"
  BY PipelineAssumption DEF SafeProgram, PaddedEnd
<1>2. prog' = prog
  BY TickFacts
<1>3. OutOfSection(pc) /\ AddressOf(k) # 0 /\ ~OutOfSection(AddressOf(k))
  <2>1. k \in 1 .. Len(prog) + 1 /\ k + 1 \in 1 .. Len(prog) + 1 /\ k # Len(prog) + 1
    BY <1>1
  <2> QED
    BY <2>1, Addresses
<1>4. /\ ExecuteNext.ctl = Signals(prog[k]) /\ ~ExecuteNext.v_de
      /\ ExecuteNext.pc_de = AddressOf(k) /\ ExecuteNext.instr = prog[k]
  BY DEF ExecuteNext, InDecode
<1>5. AfterLast
  BY <1>1, <1>3, <1>4, SignalFields DEF AfterLast, LeavesSection
<1>6. /\ memory' = ClearMemory /\ execute' = ExecuteNext /\ decode' = ClearDecode /\ pc' = pc
      /\ enable' = [pc |-> TRUE, dec |-> TRUE, exe |-> TRUE, mem |-> TRUE]
      /\ last' = [flag |-> TRUE, counter |-> 2]
  BY <1>5, Drains
<1>7. MemoryEmpty' /\ Runs' /\ InExecute(k)'
  BY <1>2, <1>4, <1>6 DEF MemoryEmpty, ClearMemory, Runs, InExecute
<1>8. OutOfSection(pc)'
  BY <1>2, <1>3, <1>6 DEF OutOfSection
<1>9. InFlight'
  BY <1>2, <1>6, <1>7, <1>8 DEF InFlight, LastExecutes, ClearDecode
<1>10. Oldest' = AddressOf(k)
  BY <1>3, <1>4, <1>6 DEF Oldest
<1> QED
  BY <1>2, <1>3, <1>7, <1>9, <1>10, NoEffect, PcShownNext

\* The first word after the start or a redirect moves to execute.
LEMMA FromFetched ==
    ASSUME TypeOK, Tick, prog \in Programs, SafeProgram(prog), NEW k \in DOMAIN prog, Fetched(k)
    PROVE  InFlight' /\ OneOrNone
<1>1. /\ ~last.flag /\ Runs /\ InDecode(k) /\ ExecuteEmpty /\ MemoryEmpty /\ pc = AddressOf(k + 1)
      /\ ~memory.jmp_cond /\ decode.pc_de = AddressOf(k)
  BY DEF Fetched, MemoryEmpty, InDecode
<1>2. /\ ~PcR /\ MemoryNext.wb_a = 0 /\ ~MemoryNext.mem_we /\ ~MemoryNext.jmp_cond
      /\ MemoryNext.alu_res = 0
  BY <1>1, BubbleInExecute
<1>3. Len(prog) \in Nat /\ DOMAIN prog = 1 .. Len(prog) /\ k \in 1 .. Len(prog)
  BY Section
<1>4. AddressOf(k) # 0 /\ ~OutOfSection(AddressOf(k))
  <2>1. k \in 1 .. Len(prog) + 1 /\ k # Len(prog) + 1
    BY <1>3
  <2> QED
    BY <2>1, Addresses
<1>5. ArchPc = AddressOf(k) /\ prog' = prog
  BY <1>1, <1>4, TickFacts DEF ArchPc, Oldest, ExecuteEmpty
<1>6. CASE k = Len(prog)
  <2>1. InFlight' /\ MemoryEmpty' /\ ArchPc' = AddressOf(k)
    BY <1>1, <1>2, <1>6, LastArrives
  <2> QED
    BY <1>5, <2>1, Stutters
<1>7. CASE k # Len(prog)
  <2>1. k + 1 \in DOMAIN prog
    BY <1>3, <1>7
  <2>2. /\ memory' = MemoryNext /\ Filled(k)'
        /\ Halts => Matches(prog[k], memory'.wb_a)
        /\ ~Halts => Runs'
        /\ /\ Matches(prog[k], memory'.wb_a) => memory'.wb_we /\ memory'.mem_to_reg
           /\ Matches(prog[k], memory.wb_a) /\ memory.wb_a # memory'.wb_a => memory.wb_we
           => OperandsRight(k)'
    BY <1>1, <1>2, <2>1, Arrives
  <2>3. ~Matches(prog[k], 0)
    BY DEF Matches
  <2>4. MemoryEmpty' /\ memory'.wb_a = 0 /\ memory.wb_a = 0
    BY <1>1, <1>2, <2>2 DEF MemoryEmpty
  <2>5. Flowing(k)'
    BY <2>2, <2>3, <2>4 DEF Flowing, MemoryEmpty
  <2>6. InFlight'
    BY <1>5, <2>5 DEF InFlight
  <2>7. Oldest' = AddressOf(k)
    BY <1>4, <2>2 DEF Oldest, Filled, InExecute
  <2>8. ArchPc' = ArchPc
    BY <1>4, <1>5, <2>4, <2>7, NoEffect, PcShownNext
  <2> QED
    BY <2>4, <2>6, <2>8, Stutters
<1> QED
  BY <1>6, <1>7

\* What execute hands memory for the word at place k.
LEMMA MemoryTakes ==
    ASSUME prog \in Programs, prog' = prog, NEW k \in DOMAIN prog, InExecute(k), memory' = MemoryNext
    PROVE  /\ InMemory(k)' /\ memory'.wb_a = prog[k].rd
           /\ memory'.wb_we <=> prog[k].op \notin {"store", "branch"}
           /\ memory'.mem_to_reg <=> prog[k].op # "load"
           /\ memory'.jmp_cond <=> prog[k].op \in {"jal", "jalr"}
<1>1. Signals(prog[k]) \in SignalSet
  BY Section, SignalsType
<1>2. /\ memory'.wb_a = prog[k].rd
      /\ memory'.wb_we = Signals(prog[k]).wb_we /\ memory'.mem_we = Signals(prog[k]).mem_we
      /\ memory'.mem_to_reg = Signals(prog[k]).mem_to_reg
      /\ memory'.jmp_cond = Signals(prog[k]).jmp_cond
  BY <1>1 DEF MemoryNext, InExecute, SignalSet
<1> QED
  BY <1>2, SignalFields DEF InMemory

\* A branch or jump is taken while the program counter is still inside the section: the two nops
\* at its end take none.
LEMMA TakenInside ==
    ASSUME prog \in Programs, SafeProgram(prog), NEW k \in DOMAIN prog, Filled(k), PcR
    PROVE  ~LeavesSection
<1>1. InExecute(k) /\ pc = AddressOf(k + 2) /\ k + 1 \in DOMAIN prog
  BY DEF Filled
<1>2. Len(prog) \in Nat /\ DOMAIN prog = 1 .. Len(prog) /\ k \in 1 .. Len(prog)
  BY Section
<1>3. prog[k].op \in {"branch", "jal", "jalr"}
  BY <1>1, SignalFields DEF PcR, InExecute
<1>4. k # Len(prog) - 1 /\ k # Len(prog)
  BY <1>3 DEF SafeProgram, PaddedEnd
<1>5. k + 2 \in 1 .. Len(prog) + 1 /\ k + 2 # Len(prog) + 1
  BY <1>2, <1>4
<1> QED
  BY <1>1, <1>5, Addresses DEF LeavesSection

\* A taken branch or jump: the pipeline starts again at its target.
LEMMA FromTaken ==
    ASSUME TypeOK, Tick, prog \in Programs, SafeProgram(prog), NEW k \in DOMAIN prog, Flowing(k), PcR
    PROVE  InFlight' /\ OneOrNone
<1>1. /\ ~last.flag /\ Runs /\ InExecute(k) /\ InDecode(k + 1) /\ pc = AddressOf(k + 2)
      /\ ~Traps(prog[k]) /\ k + 1 \in DOMAIN prog
  BY DEF Flowing, Filled
<1>2. prog' = prog /\ ~BadAddress /\ TypeOK'
  BY TickFacts, TickType
<1>3. OperandsRight(k)
  BY <1>2 DEF Flowing
<1>7. ~LeavesSection
  BY TakenInside DEF Flowing
<1>8. /\ memory' = MemoryNext /\ execute' = ClearExecute /\ decode' = ClearDecode
      /\ pc' = Plus(AddressOf(k), PcDisp) /\ Runs' /\ last' = last
  BY <1>1, <1>7, Redirects DEF InExecute
<1>9. InMemory(k)'
  BY <1>1, <1>2, <1>8, MemoryTakes
<1>10. InFlight'
  BY <1>1, <1>2, <1>8, <1>9 DEF InFlight, Empty, ExecuteEmpty, ClearExecute
<1>11. Oldest' = pc'
  BY <1>1, <1>8 DEF Oldest, ClearExecute, ClearDecode
<1>12. pc' \in Word
  BY <1>2 DEF TypeOK
<1>13. ArchPc' = IF BadAddress' THEN 0 ELSE IsaMachine!PcIn(prog, Plus(AddressOf(k), PcDisp))
  <2>1. PICK a : a = pc'
    OBVIOUS
  <2>2. ArchPc' = IF BadAddress' \/ OutOfSection(a) THEN 0 ELSE a
    BY <1>2, <1>11, <2>1, PcShownNext
  <2>3. IsaMachine!PcIn(prog, a) = IF OutOfSection(a) THEN 0 ELSE a
    BY <1>12, <2>1, PcShown
  <2> QED
    BY <1>8, <2>1, <2>2, <2>3
<1>14. IsaMachine!Next
  BY <1>1, <1>3, <1>8, <1>13, Executed
<1> QED
  BY <1>10, <1>14 DEF OneOrNone

\* The last word but one leaves execute, and the last one enters it.
LEMMA FromLastButOne ==
    ASSUME TypeOK, Tick, prog \in Programs, SafeProgram(prog), NEW k \in DOMAIN prog, Flowing(k), ~PcR,
           k + 1 = Len(prog)
    PROVE  InFlight' /\ OneOrNone
<1>1. /\ ~last.flag /\ Runs /\ InExecute(k) /\ InDecode(k + 1) /\ pc = AddressOf(k + 2)
      /\ ~memory.jmp_cond
  BY DEF Flowing, Filled
<1>2. Len(prog) \in Nat /\ k \in 1 .. Len(prog)
  BY Section
<1>3. prog[k].op = "op_imm" /\ prog[k].rd = 0
  BY <1>2 DEF SafeProgram, PaddedEnd
<1>4. AddressOf(k + 2) = AddressOf((k + 1) + 1)
  BY <1>2 DEF AddressOf
<1>5. InFlight' /\ MemoryEmpty' /\ ArchPc' = AddressOf(k + 1)
  BY <1>1, <1>4, LastArrives
<1>6. IsaMachine!PcIn(prog, AddressOf(k + 1)) = AddressOf(k + 1)
  <2>1. k + 1 \in 1 .. Len(prog) + 1 /\ k + 1 # Len(prog) + 1
    BY <1>2
  <2> QED
    BY <2>1, Addresses, PcShown
<1>7. IsaMachine!Next
  BY <1>1, <1>3, <1>5, <1>6, NopExecuted
<1> QED
  BY <1>5, <1>7 DEF OneOrNone

\* An instruction leaves execute and the next one enters it, to wait there when it reads the
\* register of a load.
LEMMA FromFlowing ==
    ASSUME TypeOK, Tick, prog \in Programs, SafeProgram(prog), NEW k \in DOMAIN prog, Flowing(k), ~PcR,
           k + 1 # Len(prog)
    PROVE  InFlight' /\ OneOrNone
<1> DEFINE j == k + 1
<1>1. /\ ~last.flag /\ Runs /\ InExecute(k) /\ InDecode(j) /\ pc = AddressOf(k + 2)
      /\ ~Traps(prog[k]) /\ j \in DOMAIN prog
      /\ MemoryEmpty \/ (k > 1 /\ InMemory(k - 1))
  BY DEF Flowing, Filled
<1>2. prog' = prog /\ ~BadAddress /\ TypeOK'
  BY TickFacts, TickType
<1>3. OperandsRight(k)
  BY <1>2 DEF Flowing
<1>4. /\ Len(prog) \in Nat /\ DOMAIN prog = 1 .. Len(prog)
      /\ k \in 1 .. Len(prog) /\ j \in 1 .. Len(prog) /\ j + 1 \in DOMAIN prog
  BY <1>1, Section
<1>5. pc = AddressOf(j + 1)
  BY <1>1, <1>4 DEF AddressOf
<1> HIDE DEF j
<1>6. /\ memory' = MemoryNext /\ Filled(j)'
      /\ Halts <=> ~memory'.mem_to_reg /\ Matches(prog[j], memory'.wb_a)
      /\ ~Halts => Runs'
      /\ Halts => Stands'
      /\ HasRs1(InstructionType(prog[j].op)) => execute'.data1 = RegsNext[prog[j].rs1]
      /\ execute'.data2 = RegsNext[prog[j].rs2]
      /\ /\ Matches(prog[j], memory'.wb_a) => memory'.wb_we /\ memory'.mem_to_reg
         /\ Matches(prog[j], memory.wb_a) /\ memory.wb_a # memory'.wb_a => memory.wb_we
         => OperandsRight(j)'
  BY <1>1, <1>4, <1>5, Arrives
<1>7. /\ InMemory(k)' /\ memory'.wb_a = prog[k].rd
      /\ memory'.wb_we <=> prog[k].op \notin {"store", "branch"}
      /\ memory'.mem_to_reg <=> prog[k].op # "load"
      /\ memory'.jmp_cond <=> prog[k].op \in {"jal", "jalr"}
  BY <1>1, <1>2, <1>6, MemoryTakes
<1>8. ~memory'.jmp_cond
  BY <1>1, <1>7, SignalFields DEF PcR, InExecute
<1>9. Matches(prog[j], memory'.wb_a) => memory'.wb_we
  BY <1>4, <1>7 DEF SafeProgram, NoFalseForward, j
<1>10. Matches(prog[j], memory.wb_a) => memory.wb_we
  <2>1. CASE MemoryEmpty
    BY <2>1 DEF MemoryEmpty, Matches
  <2>2. CASE k > 1 /\ InMemory(k - 1)
    <3>1. k - 1 \in DOMAIN prog /\ (k - 1) + 2 = j
      BY <1>4, <2>2 DEF j
    <3>2. Matches(prog[j], prog[k - 1].rd) => prog[k - 1].op \notin {"store", "branch"}
      BY <1>4, <3>1 DEF SafeProgram, NoFalseForward
    <3>3. memory.wb_a = prog[k - 1].rd /\ memory.wb_we = Signals(prog[k - 1]).wb_we
      BY <2>2 DEF InMemory
    <3> QED
      BY <3>2, <3>3, SignalFields
  <2> QED
    BY <1>1, <2>1, <2>2
<1>11. ASSUME Halts PROVE InFlight'
  <2>1. LoadUse(prog, k)
    BY <1>1, <1>6, <1>7, <1>11 DEF LoadUse, j
  <2>2. ASSUME NEW r \in Regs, r # 0 => Matches(prog[j], r), r # memory'.wb_a
        PROVE  RegsNext'[r] = RegsNext[r]
    <3>1. RegsNext' = Forwarded /\ RegsNext \in [Regs -> Word]
      BY TickFacts, DecodeStageType
    <3>2. CASE MemoryEmpty
      BY <3>1, <3>2, BubbleInMemory
    <3>3. CASE k > 1 /\ InMemory(k - 1)
      <4>1. Matches(prog[j], prog[k - 1].rd) => prog[k - 1].rd = prog[k].rd
        BY <1>4, <2>1, <3>3 DEF SafeProgram, BypassSurvivesStall, j
      <4>2. r = 0 \/ r # memory.wb_a
        BY <1>7, <2>2, <3>3, <4>1 DEF InMemory
      <4>3. r # 0 => Forwarded[r] = RegsNext[r]
        BY <3>1, <4>2 DEF Forwarded, Pending, WriteBackNext
      <4>4. Forwarded[0] = RegsNext[0]
        BY <3>1 DEF Forwarded, Pending
      <4> QED
        BY <3>1, <4>3, <4>4
    <3> QED
      BY <1>1, <3>2, <3>3
  <2>3. prog[j].rs1 \in Regs /\ prog[j].rs2 \in Regs
    BY <1>1, Section
  <2>4. OperandsWait(j)'
    BY <1>2, <1>6, <2>2, <2>3 DEF OperandsWait, Matches
  <2>5. j > 1 /\ j - 1 = k
    BY <1>4 DEF j
  <2>6. Stalled(j)'
    BY <1>2, <1>6, <1>7, <1>11, <2>1, <2>4, <2>5 DEF Stalled
  <2> QED
    BY <1>1, <1>2, <2>6 DEF InFlight
<1>12. ASSUME ~Halts PROVE InFlight'
  <2>1. j > 1 /\ j - 1 = k
    BY <1>4 DEF j
  <2>2. Flowing(j)'
    BY <1>6, <1>7, <1>8, <1>9, <1>10, <1>12, <2>1 DEF Flowing
  <2> QED
    BY <1>1, <1>2, <2>2 DEF InFlight
<1>13. InFlight'
  BY <1>11, <1>12
<1>14. /\ AddressOf(j) # 0 /\ AddressOf(j) \in Word /\ ~OutOfSection(AddressOf(j))
       /\ Plus(AddressOf(k), 4) = AddressOf(j)
  <2>1. /\ j \in 1 .. Len(prog) + 1 /\ j # Len(prog) + 1
        /\ k \in 1 .. Len(prog) + 1 /\ k <= Len(prog)
    BY <1>4
  <2> QED
    BY <2>1, Addresses DEF j
<1>15. Oldest' = AddressOf(j)
  BY <1>6, <1>14 DEF Oldest, Filled, InExecute
<1>16. ArchPc' = IF BadAddress' THEN 0 ELSE IsaMachine!PcIn(prog, Plus(AddressOf(k), 4))
  BY <1>2, <1>14, <1>15, PcShownNext, PcShown
<1>17. IsaMachine!Next
  BY <1>1, <1>3, <1>6, <1>16, Executed
<1> QED
  BY <1>13, <1>17 DEF OneOrNone

\* A stalled tick: the load's word reaches write_back, a bubble follows it, and the bypasses
\* chosen again deliver what the waiting instruction needs.
LEMMA FromStalled ==
    ASSUME TypeOK, Tick, prog \in Programs, SafeProgram(prog), NEW k \in DOMAIN prog, Stalled(k)
    PROVE  InFlight' /\ OneOrNone
<1> DEFINE i == prog[k]
           type == InstructionType(i.op)
           after == InstructionType(prog[k + 1].op)
<1>1. /\ ~last.flag /\ Stands /\ InExecute(k) /\ InDecode(k + 1) /\ pc = AddressOf(k + 2)
      /\ ~Traps(prog[k]) /\ k + 1 \in DOMAIN prog
      /\ k > 1 /\ InMemory(k - 1) /\ LoadUse(prog, k - 1) /\ OperandsWait(k)
  BY DEF Stalled, Filled
<1>2. prog' = prog /\ ~BadAddress
  BY TickFacts
<1>3. /\ Len(prog) \in Nat /\ DOMAIN prog = 1 .. Len(prog) /\ k \in 1 .. Len(prog)
      /\ k - 1 \in DOMAIN prog /\ (k - 1) + 1 = k /\ (k - 1) + 2 = k + 1
      /\ i.rs1 \in Regs /\ i.rs2 \in Regs
  BY <1>1, Section
<1>4. /\ prog[k - 1].op = "load" /\ Matches(i, prog[k - 1].rd)
      /\ i.op \notin {"branch", "jalr"}
      /\ HasRs1(type) => HasRs1(after)
      /\ HasRs2(type) => HasRs2(after)
  BY <1>1, <1>3 DEF LoadUse, SafeProgram, NoStalledBranch, BypassSurvivesStall
<1>5. /\ memory.wb_a = prog[k - 1].rd /\ memory.wb_a # 0 /\ memory.wb_we
  BY <1>1, <1>4, SignalFields DEF InMemory, Matches
<1>6. i.op \notin {"jal", "lui", "auipc"}
  BY <1>4 DEF Matches, InstructionType, HasRs1, HasRs2
<1>7. ~PcR
  BY <1>1, <1>4, <1>6, SignalFields DEF PcR, InExecute
<1>8. k + 1 # Len(prog)
  BY <1>1, <1>3 DEF SafeProgram, PaddedEnd
<1>9. ~LeavesSection
  <2>1. k + 2 \in 1 .. Len(prog) + 1 /\ k + 2 # Len(prog) + 1
    BY <1>1, <1>3, <1>8
  <2> QED
    BY <1>1, <2>1, Addresses DEF LeavesSection
<1>10. ~AfterJump /\ ~AfterLast
  BY <1>9 DEF AfterJump, AfterLast
<1>11. ~Enabled.pc /\ ~Enabled.dec /\ ~Enabled.exe /\ Enabled.mem = TRUE
  BY <1>1, <1>10 DEF Enabled, Stands, TypeOK
<1>12. MemoryTicked = ClearMemory /\ ExecuteTicked = execute /\ DecodeTicked = decode
  BY <1>10, <1>11 DEF MemoryTicked, ExecuteTicked, DecodeTicked
<1>13. ~Halts
  BY <1>12, NoHalt DEF ClearMemory
<1>14. /\ memory' = ClearMemory /\ execute' = execute /\ decode' = decode /\ pc' = pc
       /\ hu_rs1' = ChosenRs1 /\ hu_rs2' = ChosenRs2 /\ Runs'
  <2>1. HazardUnitTick /\ memory' = ClearMemory /\ pc' = pc
    BY <1>11, <1>12 DEF Tick
  <2>2. /\ decode' = DecodeTicked /\ execute' = ExecuteTicked
        /\ enable' = [pc |-> ~Halts, dec |-> ~Halts, exe |-> ~Halts, mem |-> Enabled.mem]
        /\ hu_rs1' = ChosenRs1 /\ hu_rs2' = ChosenRs2
    BY <1>7, <2>1 DEF HazardUnitTick
  <2>3. Runs'
    BY <1>11, <1>13, <2>2 DEF Runs
  <2> QED
    BY <1>12, <2>1, <2>2, <2>3
<1>15. last' = last
  BY <1>1, <1>9, <1>10 DEF Tick, LastFlag, Counter, TypeOK
<1>16. MemoryEmpty' /\ memory'.wb_a = 0 /\ ~memory'.jmp_cond
  BY <1>14 DEF MemoryEmpty, ClearMemory
<1>17. InExecute(k)'
  BY <1>1, <1>2, <1>14 DEF InExecute
<1>18. Filled(k)'
  BY <1>1, <1>2, <1>14, <1>15, <1>17 DEF Filled, InDecode
<1>19. hu_rs1' = Chosen(HasRs1(after), i.rs1) /\ hu_rs2' = Chosen(HasRs2(after), i.rs2)
  BY <1>1, <1>12, <1>14 DEF ChosenRs1, ChosenRs2, DecodedType, InDecode, InExecute
<1>20. /\ HasRs1(type) => hu_rs1' = Chosen(TRUE, i.rs1)
       /\ HasRs2(type) => hu_rs2' = Chosen(TRUE, i.rs2)
  BY <1>4, <1>19 DEF Chosen
<1>21. /\ HasRs1(type) /\ (i.rs1 = 0 \/ (i.rs1 # memory'.wb_a /\ i.rs1 # memory.wb_a))
              => execute'.data1 = RegsNext[i.rs1]
       /\ HasRs2(type) /\ (i.rs2 = 0 \/ (i.rs2 # memory'.wb_a /\ i.rs2 # memory.wb_a))
              => execute'.data2 = RegsNext[i.rs2]
  BY <1>1, <1>5, <1>14 DEF OperandsWait
<1>22. ~Matches(i, memory'.wb_a)
  BY <1>16 DEF Matches
<1>23. OperandsRight(k)'
  <2> HIDE DEF i, type
  <2> QED
    BY <1>5, <1>6, <1>7, <1>17, <1>20, <1>21, <1>22, OperandsArrive DEF i, type
<1>24. Flowing(k)'
  BY <1>14, <1>16, <1>18, <1>23 DEF Flowing
<1>25. InFlight'
  BY <1>2, <1>24 DEF InFlight
<1>26. AddressOf(k) # 0 /\ ~OutOfSection(AddressOf(k))
  <2>1. k \in 1 .. Len(prog) + 1 /\ k # Len(prog) + 1
    BY <1>3
  <2> QED
    BY <2>1, Addresses
<1>27. ArchPc = AddressOf(k)
  BY <1>1, <1>2, PcOfExecute
<1>28. Oldest' = AddressOf(k)
  BY <1>17, <1>26 DEF Oldest, InExecute
<1>29. ArchPc' = ArchPc
  BY <1>2, <1>16, <1>26, <1>27, <1>28, NoEffect, PcShownNext
<1> QED
  BY <1>16, <1>25, <1>29, Stutters

\* The shutdown: the last word leaves execute with nothing to write, and two bubbles follow it.
LEMMA FromLastExecutes ==
    ASSUME TypeOK, Tick, prog \in Programs, SafeProgram(prog), LastExecutes
    PROVE  InFlight' /\ OneOrNone
<1> DEFINE n == Len(prog)
<1>1. /\ last = [flag |-> TRUE, counter |-> 2] /\ Runs /\ MemoryEmpty /\ OutOfSection(pc)
      /\ decode.instr = ZeroInstr /\ ~decode.v_de /\ decode.pc_de = 0
      /\ ExecuteEmpty \/ InExecute(n)
  BY DEF LastExecutes, ClearDecode
<1>2. prog' = prog /\ ~BadAddress
  BY TickFacts
<1>3. n \in Nat /\ n >= 2 /\ n \in DOMAIN prog /\ prog[n].op = "op_imm" /\ prog[n].rd = 0
  BY PipelineAssumption DEF SafeProgram, PaddedEnd
<1> HIDE DEF n
<1>4. /\ ~PcR /\ MemoryNext.wb_a = 0 /\ ~MemoryNext.mem_we /\ ~MemoryNext.jmp_cond
      /\ MemoryNext.mem_to_reg \/ MemoryNext.alu_res = 0
  BY <1>1, <1>3, BubbleInExecute, NopForMemory
<1>5. /\ memory' = MemoryNext /\ ExecuteTicked = ExecuteNext /\ execute' = ExecuteNext
      /\ decode' = DecodeNext
      /\ enable' = [pc |-> ~Halts, dec |-> ~Halts, exe |-> ~Halts, mem |-> TRUE]
      /\ last' = [flag |-> TRUE, counter |-> 1]
  BY <1>1, <1>4, Advances DEF LeavesSection
<1>6. /\ ExecuteNext.ctl = Signals(ZeroInstr) /\ ~ExecuteNext.v_de
      /\ ExecuteNext.pc_de = 0 /\ ExecuteNext.instr = ZeroInstr
  BY <1>1, <1>4, BubbleInDecode
<1>7. MemoryEmpty' /\ ExecuteEmpty' /\ Runs'
  BY <1>4, <1>5, <1>6, NoHaltForZero DEF MemoryEmpty, ExecuteEmpty, Runs
<1>8. decode'.instr = ZeroInstr /\ ~decode'.v_de /\ OutOfSection(decode.pc_de)'
  BY <1>1, <1>2, <1>4, <1>5 DEF DecodeNext, InstrAt, OutOfSection
<1>9. InFlight'
  BY <1>5, <1>7, <1>8 DEF InFlight, LastLeaves
<1>10. Oldest' = 0
  BY <1>5, <1>7 DEF Oldest, ExecuteEmpty
<1>11. ArchPc' = 0
  BY <1>2, <1>10, PcShownNext
<1>12. CASE ExecuteEmpty
  <2>1. ArchPc = 0
    BY <1>1, <1>12 DEF ArchPc, Oldest, ExecuteEmpty
  <2> QED
    BY <1>7, <1>9, <1>11, <2>1, Stutters
<1>13. CASE InExecute(n)
  <2>1. IsaMachine!PcIn(prog, AddressOf(n + 1)) = 0
    <3>1. n + 1 \in 1 .. Len(prog) + 1 /\ n + 1 = Len(prog) + 1
      BY <1>3 DEF n
    <3> QED
      BY <3>1, Addresses, PcShown
  <2>2. IsaMachine!Next
    BY <1>3, <1>7, <1>11, <1>13, <2>1, NopExecuted
  <2> QED
    BY <1>9, <2>2 DEF OneOrNone
<1> QED
  BY <1>1, <1>12, <1>13

\* The last tick of the shutdown that does not throw.
LEMMA FromLastLeaves ==
    ASSUME TypeOK, Tick, prog \in Programs, LastLeaves
    PROVE  InFlight' /\ OneOrNone
<1>1. /\ last = [flag |-> TRUE, counter |-> 1] /\ Runs /\ ExecuteEmpty /\ MemoryEmpty
      /\ decode.instr = ZeroInstr /\ OutOfSection(decode.pc_de) /\ ~decode.v_de
  BY DEF LastLeaves
<1>2. prog' = prog /\ ~BadAddress
  BY TickFacts
<1>3. /\ ~PcR /\ MemoryNext.wb_a = 0 /\ ~MemoryNext.mem_we /\ ~MemoryNext.jmp_cond
      /\ MemoryNext.alu_res = 0
  BY <1>1, BubbleInExecute
<1>4. /\ memory' = MemoryNext /\ execute' = ExecuteNext
      /\ last' = [flag |-> TRUE, counter |-> 0]
  BY <1>1, <1>3, Advances DEF LeavesSection
<1>5. execute'.pc_de = decode.pc_de
  BY <1>1, <1>3, <1>4, BubbleInDecode
<1>6. MemoryEmpty' /\ OutOfSection(execute.pc_de)'
  BY <1>1, <1>2, <1>3, <1>4, <1>5 DEF MemoryEmpty, OutOfSection
<1>7. InFlight'
  BY <1>4, <1>6 DEF InFlight, Gone
<1>8. ArchPc = 0
  BY <1>1 DEF ArchPc, Oldest, ExecuteEmpty
<1>9. ArchPc' = 0
  BY <1>4, <1>6 DEF ArchPc, Oldest
<1> QED
  BY <1>6, <1>7, <1>8, <1>9, Stutters

\* Every tick goes from phase to phase, and is one instruction of the architecture or none.
LEMMA TickFlies ==
    ASSUME TypeOK, prog \in Programs, SafeProgram(prog), InFlight, pc % 4 = 0, Tick
    PROVE  InFlight' /\ OneOrNone /\ pc' % 4 = 0
<1>1. pc' % 4 = 0
  BY DEF Tick, Misaligned
<1>2. ~Gone
  BY DEF Gone, Tick, Drained, LastFlag, Counter, AfterJump, AfterLast, LeavesSection
<1>3. CASE \E k \in DOMAIN prog : Fetched(k) \/ Flowing(k) \/ Stalled(k)
  <2>1. PICK k \in DOMAIN prog : Fetched(k) \/ Flowing(k) \/ Stalled(k)
    BY <1>3
  <2>2. CASE Fetched(k)
    BY <1>1, <2>2, FromFetched
  <2>3. CASE Flowing(k)
    BY <1>1, <2>3, FromTaken, FromLastButOne, FromFlowing
  <2>4. CASE Stalled(k)
    BY <1>1, <2>4, FromStalled
  <2> QED
    BY <2>1, <2>2, <2>3, <2>4
<1> QED
  BY <1>1, <1>2, <1>3, FromEmpty, FromLastExecutes, FromLastLeaves DEF InFlight

-----------------------------------------------------------------------------
(* A tick cut short by an exception.                                       *)

\* A load in memory stores nothing: reading and writing never meet there.
LEMMA LoadsStoreNothing == InFlight => (~memory.mem_to_reg => ~memory.mem_we)
<1>1. MemoryEmpty => ~memory.mem_we
  BY DEF MemoryEmpty
<1>2. \A k : InMemory(k) => (~memory.mem_to_reg => ~memory.mem_we)
  BY SignalFields DEF InMemory
<1> QED
  BY <1>1, <1>2 DEF InFlight, Empty, Fetched, Flowing, Stalled, LastExecutes, LastLeaves, Gone

\* doMemory and doDecode have done their work when a later stage throws, and the registers have
\* not ticked: the architecture sees the same program counter, registers and memory.
LEMMA CutShort ==
    ASSUME TypeOK, InFlight, ~BadAddress, dmem' = DmemNext, regs' = RegsNext, UNCHANGED Stages
    PROVE  /\ UNCHANGED <<prog, ArchPc, ArchRegs, ArchDmem>>
           /\ ~BadAddress' /\ ArchRegs = Forwarded /\ ArchDmem = dmem'
<1>1. /\ prog' = prog /\ pc' = pc /\ decode' = decode /\ execute' = execute /\ memory' = memory
      /\ write_back' = write_back /\ last' = last
  BY DEF Stages
<1>2. ~BadAddress' /\ ArchPc' = ArchPc
  BY <1>1 DEF BadAddress, MemAccess, ArchPc, Oldest, OutOfSection
<1>3. RegsNext' = RegsNext
  BY <1>1 DEF RegsNext, TypeOK
<1>4. WriteBackNext' = WriteBackNext
  BY <1>1, LoadsStoreNothing DEF WriteBackNext, DmemNext
<1>5. DmemNext' = DmemNext
  BY <1>1 DEF DmemNext, TypeOK
<1>6. ArchRegs' = Forwarded /\ ArchDmem' = DmemNext
  BY <1>2, <1>3, <1>4, <1>5 DEF ArchRegs, ArchDmem, Forwarded
<1>7. ArchRegs = Forwarded /\ ArchDmem = DmemNext
  BY ArchTypes
<1> QED
  BY <1>1, <1>2, <1>6, <1>7

\* doFetch never throws for a branch taken at the end of a safe program.
LEMMA NotTakenAtTheEnd ==
    ASSUME TypeOK, prog \in Programs, SafeProgram(prog), InFlight
    PROVE  ~TakenAtTheEnd
<1> SUFFICES ASSUME LeavesSection, PcR PROVE FALSE
  BY DEF TakenAtTheEnd
<1>1. ~last.flag
  BY DEF LeavesSection
<1>2. ~ExecuteEmpty
  BY BubbleInExecute
<1>3. ~Empty /\ ~LastExecutes /\ ~LastLeaves /\ ~Gone
  BY <1>1, <1>2 DEF Empty, LastExecutes, LastLeaves, Gone
<1>4. PICK k \in DOMAIN prog : Flowing(k) \/ Stalled(k)
  BY <1>2, <1>3 DEF InFlight, Fetched
<1> QED
  BY <1>4, TakenInside DEF Flowing, Stalled

\* When doFetch ends the run because the program left its section, the last results have been
\* written and no instruction is left.
LEMMA LeftBehind ==
    ASSUME TypeOK, prog \in Programs, SafeProgram(prog), InFlight, FetchThrows,
           status' = "out_of_section"
    PROVE  ArchRegs' = regs' /\ ArchDmem' = dmem' /\ ArchPc' = 0
<1>1. ~BadAddress /\ dmem' = DmemNext /\ regs' = RegsNext /\ UNCHANGED Stages
  BY DEF FetchThrows, Fetches, Decodes
<1>2. Drained
  BY NotTakenAtTheEnd DEF FetchThrows
<1>3. ~LeavesSection
  <2>1. ASSUME LeavesSection PROVE AfterJump \/ AfterLast
    BY <2>1, NotTakenAtTheEnd DEF AfterJump, AfterLast, TakenAtTheEnd
  <2> QED
    BY <1>2, <2>1 DEF Drained, Counter
<1>4. last.flag /\ last.counter = 0
  BY <1>2, <1>3 DEF Drained, LastFlag, Counter, AfterJump, AfterLast
<1>5. Gone
  BY <1>4 DEF InFlight, Empty, Fetched, Flowing, Stalled, Filled, LastExecutes, LastLeaves, Gone
<1>6. MemoryEmpty /\ OutOfSection(execute.pc_de)
  BY <1>5 DEF Gone
<1>7. ArchRegs' = Forwarded /\ ArchDmem' = dmem' /\ ArchPc' = ArchPc
  BY <1>1, CutShort
<1>8. Forwarded = regs'
  BY <1>1, <1>6, BubbleInMemory
<1>9. ArchPc = 0
  BY <1>4, <1>6 DEF ArchPc, Oldest
<1> QED
  BY <1>7, <1>8, <1>9

\* An exception leaves the architecture as it was.
LEMMA ThrowFlies ==
    ASSUME TypeOK, prog \in Programs, SafeProgram(prog), InFlight,
           MemoryThrows \/ DecodeThrows \/ FetchThrows
    PROVE  NothingLeftBehind' /\ status' # "running" /\ prog' = prog /\ OneOrNone
<1>1. CASE MemoryThrows
  <2>1. /\ prog' = prog /\ pc' = pc /\ decode' = decode /\ execute' = execute /\ memory' = memory
        /\ write_back' = write_back /\ last' = last /\ regs' = regs /\ dmem' = dmem
        /\ status' = "bad_address"
    BY <1>1 DEF MemoryThrows, Stages
  <2>2. BadAddress' = BadAddress
    BY <2>1 DEF BadAddress, MemAccess
  <2>3. ArchPc' = ArchPc
    BY <2>1, <2>2 DEF ArchPc, Oldest, OutOfSection
  <2>4. ArchRegs' = ArchRegs /\ ArchDmem' = ArchDmem
    BY <2>1, <2>2 DEF ArchRegs, ArchDmem, RegsNext, WriteBackNext, DmemNext, Pending
  <2> QED
    BY <2>1, <2>3, <2>4 DEF OneOrNone, NothingLeftBehind
<1>2. CASE DecodeThrows
  <2>1. /\ ~BadAddress /\ dmem' = DmemNext /\ regs' = RegsNext /\ UNCHANGED Stages
        /\ status' \in {"ebreak", "fence", "illegal"}
    BY <1>2 DEF DecodeThrows, Decodes, Traps
  <2> QED
    BY <2>1, CutShort DEF OneOrNone, NothingLeftBehind
<1>3. CASE FetchThrows
  <2>1. /\ ~BadAddress /\ dmem' = DmemNext /\ regs' = RegsNext /\ UNCHANGED Stages
        /\ status' \in {"misaligned", "out_of_section"}
    BY <1>3 DEF FetchThrows, Fetches, Decodes
  <2>2. NothingLeftBehind'
    BY <1>3, LeftBehind DEF NothingLeftBehind
  <2> QED
    BY <2>1, <2>2, CutShort DEF OneOrNone
<1> QED
  BY <1>1, <1>2, <1>3

-----------------------------------------------------------------------------
(* The theorems.                                                           *)

\* Before the first tick() every stage is empty and the architecture is at the start.
LEMMA InitFlies == ASSUME Init PROVE TypeOK /\ FlightInv /\ IsaMachine!Init
<1>1. prog \in Seq(Instr) /\ Start \in Word /\ InitMem \in [0 .. MemCap -> Word]
  BY PipelineAssumption DEF Init
<1>2. TypeOK
  BY <1>1, ZeroType DEF Init, TypeOK, ClearDecode, ClearExecute, ClearMemory, ClearWriteBack
<1>3. MemoryEmpty /\ ExecuteEmpty /\ execute.pc_de = 0 /\ decode.pc_de = 0 /\ ~last.flag
  BY DEF Init, MemoryEmpty, ClearMemory, ExecuteEmpty, ClearExecute, ClearDecode
<1>4. InFlight /\ pc % 4 = 0
  BY <1>3, PipelineAssumption DEF Init, InFlight, Empty, Runs
<1>5. FlightInv
  BY <1>2, <1>4 DEF FlightInv, Init, NothingLeftBehind
<1>6. ~BadAddress /\ DmemNext = dmem /\ Forwarded = RegsNext
  BY <1>2, <1>3, BubbleInMemory
<1>7. RegsNext = regs
  BY DEF RegsNext, Init, ClearWriteBack
<1>8. ArchRegs = regs /\ ArchDmem = dmem
  BY <1>2, <1>6, <1>7, ArchTypes
<1>9. ArchPc = IsaMachine!PcIn(prog, Start)
  BY <1>1, <1>3, <1>6, PcShown DEF Init, ArchPc, Oldest
<1>10. IsaMachine!Instr = Instr /\ IsaMachine!Regs = Regs
  BY DEF IsaMachine!Instr, Instr, IsaMachine!Regs, Regs, IsaMachine!Ops, Ops, IsaMachine!AluOps,
         AluOps, IsaMachine!CmpOps, CmpOps, IsaMachine!Word, Word
<1> QED
  BY <1>1, <1>2, <1>5, <1>8, <1>9, <1>10 DEF Init, IsaMachine!Init

\* A step of the simulator keeps the invariant and is one step of the architecture or none.
LEMMA StepFlies ==
    ASSUME AllSafe, FlightInv, [Next]_vars
    PROVE  FlightInv' /\ OneOrNone
<1>1. TypeOK /\ prog \in Programs /\ SafeProgram(prog) /\ NothingLeftBehind
  BY DEF FlightInv, AllSafe
<1>2. status = "running" => InFlight /\ pc % 4 = 0
  BY DEF FlightInv
<1>3. CASE Tick
  <2>1. status = "running" /\ status' = status /\ prog' = prog
    BY <1>1, <1>3, TickFacts
  <2>2. InFlight' /\ OneOrNone /\ pc' % 4 = 0
    BY <1>1, <1>2, <1>3, <2>1, TickFlies
  <2>3. TypeOK'
    BY <1>1, <1>3, TickType
  <2> QED
    BY <1>1, <2>1, <2>2, <2>3 DEF FlightInv, NothingLeftBehind
<1>4. CASE MemoryThrows \/ DecodeThrows \/ FetchThrows
  <2>1. InFlight
    BY <1>2, <1>4 DEF MemoryThrows, DecodeThrows, FetchThrows, Fetches, Decodes
  <2>2. NothingLeftBehind' /\ status' # "running" /\ prog' = prog /\ OneOrNone
    BY <1>1, <1>4, <2>1, ThrowFlies
  <2>3. TypeOK'
    BY <1>1, <1>4, ThrowType
  <2> QED
    BY <1>1, <2>2, <2>3 DEF FlightInv
<1>5. CASE UNCHANGED vars
  <2>1. UNCHANGED <<prog, ArchPc, ArchRegs, ArchDmem>>
    BY <1>5 DEF vars, ArchPc, ArchRegs, ArchDmem, BadAddress, MemAccess, Oldest, OutOfSection,
                RegsNext, WriteBackNext, DmemNext, Pending
  <2>2. TypeOK' /\ NothingLeftBehind'
    BY <1>1, <1>5, <2>1 DEF vars, TypeOK, NothingLeftBehind
  <2>3. InFlight' = InFlight
    <3>1. /\ (MemoryEmpty <=> MemoryEmpty') /\ (ExecuteEmpty <=> ExecuteEmpty')
          /\ Runs' = Runs /\ Stands' = Stands
          /\ OutOfSection(pc)' = OutOfSection(pc)
          /\ OutOfSection(decode.pc_de)' = OutOfSection(decode.pc_de)
          /\ OutOfSection(execute.pc_de)' = OutOfSection(execute.pc_de)
          /\ BadAddress' = BadAddress
      BY <1>5 DEF vars, MemoryEmpty, ExecuteEmpty, Runs, Stands, OutOfSection, BadAddress, MemAccess
    <3>2. \A k : /\ InDecode(k)' = InDecode(k) /\ InExecute(k)' = InExecute(k)
                 /\ InMemory(k)' = InMemory(k)
      BY <1>5 DEF vars, InDecode, InExecute, InMemory
    <3>3. Forwarded' = Forwarded /\ RegsNext' = RegsNext
      BY <1>5 DEF vars, Forwarded, Pending, RegsNext, WriteBackNext
    <3>4. SrcA' = SrcA /\ Rs2v' = Rs2v
      BY <1>5 DEF vars, SrcA, Rs2v, Bypass
    <3>5. \A k : OperandsRight(k)' = OperandsRight(k) /\ OperandsWait(k)' = OperandsWait(k)
      BY <1>5, <3>3, <3>4 DEF vars, OperandsRight, OperandsWait
    <3>6. \A k : (Filled(k) <=> Filled(k)')
      BY <1>5, <3>2 DEF vars, Filled
    <3> QED
      BY <1>5, <3>1, <3>2, <3>3, <3>5, <3>6
      DEF vars, InFlight, Empty, Fetched, Flowing, Stalled, LastExecutes, LastLeaves, Gone
  <2>4. FlightInv'
    BY <1>1, <1>2, <1>5, <2>2, <2>3 DEF vars, FlightInv
  <2> QED
    BY <2>1, <2>4 DEF OneOrNone
<1> QED
  BY <1>3, <1>4, <1>5 DEF Next

\* Whatever safe program runs, the five stages are in one of the seven phases after every tick,
\* hold the words that belong there, and the operands the bypasses deliver to execute are the
\* architecture's.
THEOREM FlightInvHolds == AllSafe => (Spec => []FlightInv)
<1>1. Init => FlightInv
  BY InitFlies
<1>2. AllSafe /\ FlightInv /\ [Next]_vars => FlightInv'
  BY StepFlies
<1>3. AllSafe => AllSafe'
  BY DEF AllSafe
<1> QED
  BY <1>1, <1>2, <1>3, PTL DEF Spec

\* When run() ends because a safe program left its section, no result is still in a stage
\* register and the architecture is outside the section too.
THEOREM NothingLeftBehindHolds == AllSafe => (Spec => []NothingLeftBehind)
<1>1. FlightInv => NothingLeftBehind
  BY DEF FlightInv
<1> QED
  BY <1>1, FlightInvHolds, PTL

\* For safe programs the five-stage pipeline, with its bypasses, stalls, flushes and shutdown, is
\* the machine that executes one whole instruction at a time: every clock tick is one instruction
\* of it or none.
THEOREM ImplementsIsaHolds == AllSafe => (Spec => ImplementsIsa)
<1>1. Init => IsaMachine!Init
  BY InitFlies
<1>2. AllSafe /\ FlightInv /\ [Next]_vars
        => [IsaMachine!Next]_<<prog, ArchPc, ArchRegs, ArchDmem>>
  BY StepFlies DEF OneOrNone
<1>3. AllSafe => AllSafe'
  BY DEF AllSafe
<1> QED
  BY <1>1, <1>2, <1>3, FlightInvHolds, PTL DEF Spec, ImplementsIsa, IsaMachine!Spec, IsaMachine!isaVars
=============================================================================
