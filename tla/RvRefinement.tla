---------------------------- MODULE RvRefinement ----------------------------
(***************************************************************************)
(* The pipeline seen as the one-instruction-at-a-time machine RvIsa.  An   *)
(* instruction takes effect when it leaves the execute stage: the results  *)
(* that memory and write_back still carry are laid over the register file  *)
(* and the data memory, and the architectural program counter is the       *)
(* address of the oldest instruction that has not left execute.            *)
(***************************************************************************)
EXTENDS RvPipeline

Pending(rf, wb) ==
    IF wb.wb_we /\ wb.wb_a # 0 THEN [rf EXCEPT ![wb.wb_a] = wb.wb_d] ELSE rf

ArchRegs == IF BadAddress THEN RegsNext ELSE Pending(RegsNext, WriteBackNext)
ArchDmem == IF BadAddress THEN dmem ELSE DmemNext

\* A cleared stage register holds no instruction (pc_de = 0, below every section),
\* and nothing fetched once last_instructions_flag is set reaches execute.
Oldest == IF execute.pc_de # 0 THEN execute.pc_de
          ELSE IF last.flag THEN 0
          ELSE IF decode.pc_de # 0 THEN decode.pc_de ELSE pc

ArchPc == IF BadAddress \/ OutOfSection(Oldest) THEN 0 ELSE Oldest

IsaMachine == INSTANCE RvIsa WITH pc <- ArchPc, regs <- ArchRegs, dmem <- ArchDmem

----------------------------------------------------------------------------
(***************************************************************************)
(* The programs the pipeline executes correctly.  Each condition excludes  *)
(* a sequence on which hazardUnitTick or doFetch departs from the          *)
(* architecture; the runs named rv_* that expect a violation drop one.     *)
(***************************************************************************)
Matches(i, r) ==
    /\ r # 0
    /\ \/ HasRs1(InstructionType(i.op)) /\ i.rs1 = r
       \/ HasRs2(InstructionType(i.op)) /\ i.rs2 = r

\* The immediate bits in the rd field of a store or a branch name no source register
\* of the two instructions behind it: the hazard unit does not look at wb_we.
NoFalseForward(p) ==
    \A k \in DOMAIN p, d \in {1, 2} :
        p[k].op \in {"store", "branch"} /\ k + d \in DOMAIN p
            => ~Matches(p[k + d], p[k].rd)

\* p[k + 1] stalls behind the load p[k].
LoadUse(p, k) == /\ p[k].op = "load" /\ k + 1 \in DOMAIN p
                 /\ Matches(p[k + 1], p[k].rd)

\* The instruction that stalls is no branch or jump: in the stalled tick it would
\* redirect on a value that has not been loaded, and be flushed with its successor.
NoStalledBranch(p) ==
    \A k \in DOMAIN p : LoadUse(p, k) => p[k + 1].op \notin {"branch", "jalr"}

\* The bypasses chosen again in the stalled tick are those chosen before: the other
\* operand was not in write_back, and the word in decode has the same source fields.
BypassSurvivesStall(p) ==
    \A k \in DOMAIN p : LoadUse(p, k) =>
        /\ k > 1 /\ Matches(p[k + 1], p[k - 1].rd) => p[k - 1].rd = p[k].rd
        /\ k + 2 \in DOMAIN p
        /\ HasRs1(InstructionType(p[k + 1].op)) => HasRs1(InstructionType(p[k + 2].op))
        /\ HasRs2(InstructionType(p[k + 1].op)) => HasRs2(InstructionType(p[k + 2].op))

\* Two nops end the section: of the last two instructions the first loses its result
\* in the shutdown, and a branch taken there ends the run. The first of the nops does
\* not read what a load right before it returns: it would stall, and the word fetched
\* behind it would be dropped, so that only one nop is left.
PaddedEnd(p) ==
    /\ Len(p) >= 2
    /\ \A k \in {Len(p) - 1, Len(p)} : p[k].op = "op_imm" /\ p[k].rd = 0
    /\ Len(p) > 2 => ~LoadUse(p, Len(p) - 2)

SafeProgram(p) == /\ NoFalseForward(p) /\ NoStalledBranch(p)
                  /\ BypassSurvivesStall(p) /\ PaddedEnd(p)

----------------------------------------------------------------------------
TypeOK ==
    /\ prog \in Seq(Instr)
    /\ pc \in Word
    /\ decode \in [v_de : BOOLEAN, pc_de : Word, instr : Instr]
    /\ execute \in [ctl : SignalSet, v_de : BOOLEAN, data1 : Word, data2 : Word,
                    pc_de : Word, instr : Instr]
    /\ memory \in [mem_we : BOOLEAN, mem_to_reg : BOOLEAN, wb_we : BOOLEAN,
                   jmp_cond : BOOLEAN, write_data : Word, alu_res : Word, wb_a : Regs]
    /\ write_back \in [wb_we : BOOLEAN, wb_d : Word, wb_a : Regs]
    /\ enable \in [pc : BOOLEAN, dec : BOOLEAN, exe : BOOLEAN, mem : BOOLEAN]
    /\ hu_rs1 \in {"REG", "MEM", "WB"} /\ hu_rs2 \in {"REG", "MEM", "WB"}
    /\ last \in [flag : BOOLEAN, counter : 0 .. 3]
    /\ regs \in [Regs -> Word]
    /\ dmem \in [0 .. MemCap -> Word]
    /\ status \in {"running", "bad_address", "misaligned", "out_of_section",
                   "ebreak", "fence", "illegal"}

(* Every clock tick is one instruction of the architecture or none: no     *)
(* result is lost, doubled, taken from the wrong register or written by an *)
(* instruction on the path a branch left.                                  *)
ImplementsIsa == IsaMachine!Spec

(* When run() ends because the program left its section, every result has  *)
(* reached the register file and the program really is outside.            *)
NothingLeftBehind ==
    status = "out_of_section" => ArchRegs = regs /\ ArchDmem = dmem /\ ArchPc = 0

(* The clock never runs on without executing: either run() ends, or again  *)
(* and again an instruction leaves the execute stage.                      *)
KeepsExecuting == []<>(status # "running" \/ (execute.pc_de # 0 /\ enable.exe))
============================================================================
