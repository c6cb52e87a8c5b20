-------------------------------- MODULE MCRv --------------------------------
(***************************************************************************)
(* Instances of the pipeline for TLC: 5-bit words, the registers x0, x1,   *)
(* x2, and x3, which stands for every register that is not written.        *)
(***************************************************************************)
EXTENDS RvRefinement

Datapath == INSTANCE RvDatapath WITH Width <- 5
MCAlu(op, a, b) == Datapath!AluOf(op, a, b)
MCCmp(op, a, b) == Datapath!CmpOf(op, a, b)

MCInitMem == [a \in 0 .. MemCap |-> CASE a = 0 -> 5 [] a = 4 -> 1 [] OTHER -> 0]

\* The rs2 field of an I-type word, and the rd field of a store, is bits of the immediate.
Field(imm) == IF imm < 3 THEN imm ELSE 3
Word_(op, alu, cmp, rd, rs1, rs2, imm) ==
    [op |-> op, alu |-> alu, cmp |-> cmp, rd |-> rd, rs1 |-> rs1, rs2 |-> rs2, imm |-> imm]

Op(alu, rd, rs1, rs2) == Word_("op", alu, "NOP", rd, rs1, rs2, 0)
OpImm(alu, rd, rs1, imm) == Word_("op_imm", alu, "NOP", rd, rs1, Field(imm), imm)
Load(rd, imm, rs1) == Word_("load", "NOP", "NOP", rd, rs1, Field(imm), imm)
Store(rs2, imm, rs1) == Word_("store", "NOP", "NOP", Field(imm), rs1, rs2, imm)
Branch(cmp, rs1, rs2, rd, imm) == Word_("branch", "NOP", cmp, rd, rs1, rs2, imm)
Jal(rd, imm) == Word_("jal", "NOP", "NOP", rd, 0, Field(imm), imm)
Jalr(rd, imm, rs1) == Word_("jalr", "NOP", "NOP", rd, rs1, Field(imm), imm)
Lui(rd, imm) == Word_("lui", "NOP", "NOP", rd, 3, 3, imm)
Auipc(rd, imm) == Word_("auipc", "NOP", "NOP", rd, 3, 3, imm)
Nop == OpImm("ADD", 0, 0, 0)
Trap(op) == Word_(op, "NOP", "NOP", 0, 0, 0, 0)

\* The words whose neighbourhood decides bypasses, stalls and flushes.
CorePool == {OpImm("ADD", 1, 0, 1), Op("SUB", 1, 2, 1), Load(1, 4, 0), Load(2, 0, 1),
             Store(1, 4, 0), Store(2, 1, 1), Branch("NE", 1, 2, 3, 8), Jal(2, 8)}

\* All formats, a backward branch, a jump out of the section, and words on which a
\* stage throws.
Pool == CorePool \union
        {Nop, OpImm("SLT", 2, 1, 1), Branch("GE", 1, 0, 1, 28), Jalr(2, 8, 0), Lui(1, 16),
         Auipc(1, 0), Load(1, 16, 0), Jal(0, 6), Jal(2, 16), Trap("ebreak"), Trap("fence")}

\* Two words without effect; the first may still read a register.
Padded(words, n) == {p \o <<Nop, Nop>> : p \in [1 .. n -> words]}
ReadingPad == OpImm("ADD", 0, 1, 0)
PaddedToRead(words, n) == {p \o <<q, r>> : p \in [1 .. n -> words], q, r \in {Nop, ReadingPad}}
SafePrograms ==
    {p \in Padded(Pool, 3) \union Padded(CorePool, 4) \union PaddedToRead(CorePool, 2) : SafeProgram(p)}

\* Safe but for the nops behind the last instruction, and without branches.
NoJumps == {w \in CorePool : w.op \notin {"branch", "jal"}}
StraightLine == {p \in [1 .. 3 -> NoJumps] :
                    NoFalseForward(p) /\ BypassSurvivesStall(p)}
============================================================================
