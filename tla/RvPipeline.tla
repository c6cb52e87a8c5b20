----------------------------- MODULE RvPipeline -----------------------------
(***************************************************************************)
(* pipeline::Pipeline, clock by clock: five stages, the registers between  *)
(* them, the hazard unit's bypasses and load stall, the flush after a      *)
(* taken branch, and the shutdown once the program counter leaves the      *)
(* section.                                                                *)
(*                                                                         *)
(* The variables are what lasts from one tick() to the next.  pc_r,        *)
(* pc_disp, bp_mem, the control unit's outputs and every Register::next    *)
(* are rewritten in each tick before they are read, so they are state      *)
(* functions here; hu_rs1 and hu_rs2 really carry over.                    *)
(***************************************************************************)
EXTENDS RvInstr, Sequences

CONSTANTS Start, Programs, MemCap, InitMem

ASSUME PipelineAssumption ==
    /\ MemCap \in Word
    /\ InitMem \in [0 .. MemCap -> Word]
    /\ Start \in Word \ {0} /\ Start % 4 = 0
    /\ WordMod % 4 = 0
    /\ \A p \in Programs : p \in Seq(Instr) /\ Start + 4 * Len(p) < WordMod

VARIABLES
    prog,           \* instr_mem_unit: the instruction section
    pc,             \* program_counter.current
    decode,         \* decode_register.current
    execute,        \* execute_register.current
    memory,         \* memory_register.current
    write_back,     \* write_back_register.current
    enable,         \* enable_flag of the program counter and of three registers
    hu_rs1, hu_rs2, \* the bypasses chosen for the instruction in execute
    last,           \* last_instructions_flag and last_instructions_counter
    regs,           \* reg_file.regs
    dmem,           \* data_mem_unit.memory, one word per address
    status          \* "running", or the exception that ended run()

vars == <<prog, pc, decode, execute, memory, write_back, enable, hu_rs1, hu_rs2,
          last, regs, dmem, status>>

ClearDecode == [v_de |-> FALSE, pc_de |-> 0, instr |-> ZeroInstr]
ClearExecute == [ctl |-> NoSignals, v_de |-> FALSE, data1 |-> 0, data2 |-> 0,
                 pc_de |-> 0, instr |-> ZeroInstr]
ClearMemory == [mem_we |-> FALSE, mem_to_reg |-> FALSE, wb_we |-> FALSE,
                jmp_cond |-> FALSE, write_data |-> 0, alu_res |-> 0, wb_a |-> 0]
ClearWriteBack == [wb_we |-> FALSE, wb_d |-> 0, wb_a |-> 0]

OutOfSection(a) == a < Start \/ a >= Start + 4 * Len(prog)
InstrAt(a) == IF OutOfSection(a) THEN ZeroInstr ELSE prog[1 + (a - Start) \div 4]

----------------------------------------------------------------------------
(* doMemory *)

MemAccess == ~memory.mem_to_reg \/ memory.mem_we
BadAddress == MemAccess /\ memory.alu_res > MemCap

DmemNext ==
    IF memory.mem_we THEN [dmem EXCEPT ![memory.alu_res] = memory.write_data] ELSE dmem

WriteBackNext ==
    [wb_we |-> memory.wb_we,
     wb_d  |-> IF memory.mem_to_reg THEN memory.alu_res ELSE dmem[memory.alu_res],
     wb_a  |-> memory.wb_a]

----------------------------------------------------------------------------
(* doExecute *)

Bypass(option, data) ==
    CASE option = "REG" -> data
      [] option = "MEM" -> memory.alu_res      \* bp_mem
      [] option = "WB"  -> write_back.wb_d

SrcA == Bypass(hu_rs1, execute.data1)
Rs2v == Bypass(hu_rs2, execute.data2)
SrcB == IF execute.ctl.alu_src2 THEN Immediate(execute.instr) ELSE Rs2v
AluRes == Alu(execute.ctl.alu_op, SrcA, SrcB)

PcR == \/ execute.ctl.jmp_cond
       \/ execute.ctl.brn_cond /\ Cmp(execute.ctl.cmp_control, SrcA, Rs2v)

PcDisp == IF execute.ctl.is_jalr THEN Even(AluRes) ELSE Immediate(execute.instr)

MemoryNext ==
    [mem_we     |-> execute.ctl.mem_we /\ ~execute.v_de,
     mem_to_reg |-> execute.ctl.mem_to_reg,
     wb_we      |-> execute.ctl.wb_we /\ ~execute.v_de,
     jmp_cond   |-> execute.ctl.jmp_cond,
     write_data |-> Rs2v,
     alu_res    |-> IF execute.ctl.jmp_cond THEN Plus(execute.pc_de, 4) ELSE AluRes,
     wb_a       |-> execute.instr.rd]

----------------------------------------------------------------------------
(* doDecode: the register file is written before it is read. *)

RegsNext ==
    IF write_back.wb_we /\ write_back.wb_a # 0
    THEN [regs EXCEPT ![write_back.wb_a] = write_back.wb_d] ELSE regs

ExecuteNext ==
    LET i == decode.instr IN
    [ctl   |-> Signals(i),
     v_de  |-> PcR \/ decode.v_de,
     data1 |-> CASE i.op = "auipc" -> decode.pc_de
                 [] i.op = "lui" -> 0
                 [] OTHER -> RegsNext[i.rs1],
     data2 |-> RegsNext[i.rs2],
     pc_de |-> decode.pc_de,
     instr |-> i]

----------------------------------------------------------------------------
(* doFetch *)

LeavesSection ==
    /\ ~last.flag
    /\ OutOfSection(pc)
    /\ ~(ExecuteNext.ctl.jmp_cond \/ ExecuteNext.ctl.brn_cond)

AfterJump == LeavesSection /\ memory.jmp_cond
AfterLast == LeavesSection /\ ~memory.jmp_cond /\ ~PcR

\* Mutant of Counter: nothing is left to drain after a jump.
CounterShort == IF AfterJump THEN 0 ELSE IF AfterLast THEN 3 ELSE last.counter
Counter == IF AfterJump THEN 1 ELSE IF AfterLast THEN 3 ELSE last.counter
LastFlag == last.flag \/ LeavesSection

PcNext == IF PcR THEN Plus(execute.pc_de, PcDisp) ELSE Plus(pc, 4)
DecodeNext == [v_de |-> PcR, pc_de |-> pc, instr |-> InstrAt(pc)]

\* The two places where doFetch throws out_of_instr_section.
TakenAtTheEnd == LeavesSection /\ ~memory.jmp_cond /\ PcR
DrainedLate == LastFlag /\ Counter = -1   \* mutant of Drained: decremented once too often
Drained == LastFlag /\ Counter = 0

\* The enable flags when the registers tick.
Enabled ==
    [pc  |-> enable.pc /\ ~AfterJump /\ ~AfterLast,
     dec |-> enable.dec /\ ~AfterJump /\ ~AfterLast,
     exe |-> enable.exe /\ ~AfterJump,
     mem |-> enable.mem /\ ~AfterJump]

\* tick() puts a bubble into memory while the front of the pipeline stands still.
\* Mutant of MemoryTicked: the memory stage stands still as well.
MemoryTickedHeld == IF ~Enabled.pc THEN memory
                    ELSE IF Enabled.mem THEN MemoryNext ELSE memory
MemoryTicked == IF ~Enabled.pc THEN ClearMemory
                ELSE IF Enabled.mem THEN MemoryNext ELSE memory

DecodeTicked == IF Enabled.dec THEN DecodeNext
                ELSE IF AfterLast THEN ClearDecode ELSE decode

ExecuteTicked == IF Enabled.exe THEN ExecuteNext ELSE execute

----------------------------------------------------------------------------
(***************************************************************************)
(* hazardUnitTick looks at the registers as the clock has just left them.  *)
(* The type is the control unit's: that of the word decoded in this tick,  *)
(* which in a stall is not the instruction that stays in execute.          *)
(***************************************************************************)
\* Mutant of Chosen: an older result is preferred to a newer one.
ChosenOldest(used, rs) ==
    CASE used /\ rs # 0 /\ rs = WriteBackNext.wb_a -> "WB"
      [] used /\ rs # 0 /\ rs # WriteBackNext.wb_a /\ rs = MemoryTicked.wb_a -> "MEM"
      [] OTHER -> "REG"

Chosen(used, rs) ==
    CASE used /\ rs # 0 /\ rs = MemoryTicked.wb_a -> "MEM"
      [] used /\ rs # 0 /\ rs # MemoryTicked.wb_a /\ rs = WriteBackNext.wb_a -> "WB"
      [] OTHER -> "REG"

DecodedType == InstructionType(decode.instr.op)
ChosenRs1 == Chosen(HasRs1(DecodedType), ExecuteTicked.instr.rs1)
ChosenRs2 == Chosen(HasRs2(DecodedType), ExecuteTicked.instr.rs2)
Halts == ~MemoryTicked.mem_to_reg /\ (ChosenRs1 = "MEM" \/ ChosenRs2 = "MEM")

\* After a redirect the hazard unit returns early: bypasses and enables stay.
HazardUnitTick ==
    \/ /\ PcR
       /\ decode' = ClearDecode
       /\ execute' = ClearExecute
       /\ enable' = Enabled
       /\ UNCHANGED <<hu_rs1, hu_rs2>>
    \/ /\ ~PcR
       /\ decode' = DecodeTicked
       /\ execute' = ExecuteTicked
       /\ enable' = [pc |-> ~Halts, dec |-> ~Halts, exe |-> ~Halts, mem |-> Enabled.mem]
       /\ hu_rs1' = ChosenRs1
       /\ hu_rs2' = ChosenRs2

----------------------------------------------------------------------------
Init ==
    /\ prog \in Programs
    /\ pc = Start
    /\ decode = ClearDecode
    /\ execute = ClearExecute
    /\ memory = ClearMemory
    /\ write_back = ClearWriteBack
    /\ enable = [pc |-> TRUE, dec |-> TRUE, exe |-> TRUE, mem |-> TRUE]
    /\ hu_rs1 = "REG" /\ hu_rs2 = "REG"
    /\ last = [flag |-> FALSE, counter |-> 0]
    /\ regs = [r \in Regs |-> 0]
    /\ dmem = InitMem
    /\ status = "running"

Decodes == status = "running" /\ ~BadAddress
Fetches == Decodes /\ ~Traps(decode.instr)
Misaligned == PcNext % 4 # 0

\* A whole tick() that throws nothing.
Tick ==
    /\ Fetches
    /\ ~TakenAtTheEnd /\ ~Misaligned /\ ~Drained
    /\ write_back' = WriteBackNext
    /\ memory' = MemoryTicked
    /\ HazardUnitTick
    /\ pc' = IF Enabled.pc THEN PcNext ELSE pc
    /\ last' = [flag |-> LastFlag, counter |-> IF LastFlag THEN Counter - 1 ELSE Counter]
    /\ regs' = RegsNext
    /\ dmem' = DmemNext
    /\ UNCHANGED <<prog, status>>

\* A tick() cut short by an exception: the stages before it have done their work
\* on the memories, and no register has ticked.
Stages == <<prog, pc, decode, execute, memory, write_back, enable, hu_rs1, hu_rs2, last>>

MemoryThrows ==
    /\ status = "running" /\ BadAddress
    /\ status' = "bad_address"
    /\ UNCHANGED <<Stages, regs, dmem>>

DecodeThrows ==
    /\ Decodes /\ Traps(decode.instr)
    /\ status' = decode.instr.op
    /\ dmem' = DmemNext /\ regs' = RegsNext
    /\ UNCHANGED Stages

FetchThrows ==
    /\ Fetches
    /\ TakenAtTheEnd \/ Misaligned \/ Drained
    /\ status' = IF Misaligned /\ ~TakenAtTheEnd THEN "misaligned" ELSE "out_of_section"
    /\ dmem' = DmemNext /\ regs' = RegsNext
    /\ UNCHANGED Stages

Next == Tick \/ MemoryThrows \/ DecodeThrows \/ FetchThrows

\* run() calls tick() in a loop until an exception: nothing can make it wait.
Spec == Init /\ [][Next]_vars /\ WF_vars(Next)
============================================================================
