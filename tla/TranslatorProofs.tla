-------------------------- MODULE TranslatorProofs --------------------------
(***************************************************************************)
(* Labels and code addresses come out right for every program: whatever    *)
(* OptimizeCmdFlow folds and merges, FillCmdIp gives every kept command    *)
(* the guest address its group ends at, and the address StartTranslation   *)
(* writes it to.  And what is written does what the stack processor does   *)
(* with the program, one kept command for the few it stands for.           *)
(***************************************************************************)
EXTENDS Translator, SequenceTheorems, TLAPS

Kept(k) == ~cmds[k].is_skip

\* j is the last kept command before k; 0 stands for the header.
Gap(j, k) == /\ j = 0 \/ Kept(j)
             /\ \A m \in j + 1 .. k - 1 : cmds[m].is_skip

\* Where command j ends in the guest program, and in the code by FillCmdIp's account.
EndAt(j) == IF j = 0 THEN ServiceDataLen ELSE program[j].at + Size(program[j].op)
CodeEnd(j) == IF j = 0 THEN 0 ELSE cmds[j].x86_ip + cmds[j].x86_size

(***************************************************************************)
(* The array of commands and the counters.                                 *)
(***************************************************************************)
IrCommand ==
    [name : TranslatedOps \cup {"mov"}, mode : Modes, reg : Registers, value : Int,
     native_size : Nat, native_ip : Nat, x86_size : Nat, x86_ip : Nat,
     is_skip : BOOLEAN, pos : Nat]

IrTypeOK ==
    /\ Assembled(program)
    /\ phase \in Phases
    /\ cmds \in Seq(IrCommand)
    /\ Len(cmds) <= Len(program)
    /\ i \in Nat \ {0}
    /\ native_ip \in Nat /\ x86_ip \in Nat /\ len \in Nat
    /\ phase = "optimize" =>
          \A k \in 1..Len(cmds) : cmds[k].mode = "imm" => cmds[k].value \in Number
    /\ phase = "optimize" => i <= Len(cmds) \/ i = 1
    /\ phase \in {"place", "emit"} => i <= Len(cmds) + 1
    /\ phase = "parse" => cmds = <<>> /\ x86_ip = 0
    /\ phase = "optimize" => x86_ip = 0
    /\ phase \in {"parse", "optimize", "place", "link"} => len = 0

(***************************************************************************)
(* OptimizeCmdFlow before its pass over command i: from i on nothing is    *)
(* skipped and only command i may have been changed, by a merge; before i  *)
(* a constant is a push of the program or a folded operation, and what is  *)
(* skipped just before i is no member of an operation still to come.       *)
(***************************************************************************)
Ahead ==
    phase = "optimize" =>
        /\ \A k \in i .. Len(cmds) :
              /\ Kept(k)
              /\ cmds[k].mode = program[k].mode
              /\ cmds[k].name = program[k].op \/ (k = i /\ cmds[k].name = "mov")
        /\ \A k \in 1..Len(cmds) :
              /\ cmds[k].name = "mov" => cmds[k].mode = "reg"
              /\ cmds[k].mode = "imm" =>
                    \/ IsImm(program, k)
                    \/ /\ k > 2 /\ IsArith(program, k)
                       /\ IsImm(program, k - 1) /\ IsConst(program, k - 2)
        /\ (i > 1 /\ i <= Len(cmds) /\ ~Kept(i - 1)) => cmds[i].name = "mov"
        /\ (i > 2 /\ i <= Len(cmds) /\ ~Kept(i - 2)) =>
              cmds[i - 1].mode = "reg" \/ IsArith(program, i - 1)

\* A kept command has the bytes of its whole group.
Groups ==
    \A k \in 1..Len(cmds) : Kept(k) =>
        \E j \in 0..k - 1 : Gap(j, k) /\ cmds[k].native_size = EndAt(k) - EndAt(j)

\* FillCmdIp's account of the guest program.
Labels ==
    /\ phase = "place" => \E j \in 0..i - 1 : Gap(j, i) /\ native_ip = EndAt(j)
    /\ LabelsAgree

LabelsInv == IrTypeOK /\ Ahead /\ Groups /\ Labels

(***************************************************************************)
(* The counted sizes are the written ones, each kept command follows the   *)
(* kept one before it, and so do the bytes that StartTranslation writes.   *)
(***************************************************************************)
Sizes == \A k \in 1..Len(cmds) : cmds[k].x86_size = Emitted(cmds[k])

Chain ==
    \A k \in 1..Len(cmds) :
        (Kept(k) /\ Done("place", {"link", "emit", "run"}, k)) =>
            \E j \in 0..k - 1 : Gap(j, k) /\ cmds[k].x86_ip = CodeEnd(j)

Counted ==
    /\ phase = "place" => \E j \in 0..i - 1 : Gap(j, i) /\ x86_ip = CodeEnd(j)
    /\ phase \in {"link", "emit", "run"} =>
          \E j \in 0..Len(cmds) : Gap(j, Len(cmds) + 1) /\ x86_ip = CodeEnd(j)

Written ==
    /\ phase = "emit" => \E j \in 0..i - 1 : Gap(j, i) /\ len = CodeEnd(j)
    /\ CodeAgrees

CodeInv == IrTypeOK /\ Sizes /\ Chain /\ Counted /\ Written

-----------------------------------------------------------------------------
LEMMA SizeNat == \A op : Size(op) \in Nat /\ Size(op) > 0
  BY DEF Size

LEMMA EndAtNat ==
    ASSUME Assembled(program), NEW j \in 0..Len(program)
    PROVE  EndAt(j) \in Nat
<1>1. CASE j = 0
  BY <1>1 DEF EndAt, ServiceDataLen
<1>2. CASE j > 0
  <2>1. program[j] \in Command
    BY <1>2 DEF Assembled
  <2> QED
    BY <1>2, <2>1, SizeNat DEF EndAt, Command
<1> QED
  BY <1>1, <1>2

(* Commands lie back to back. *)
LEMMA EndAtNext ==
    ASSUME Assembled(program), NEW k \in 1..Len(program)
    PROVE  EndAt(k) = EndAt(k - 1) + Size(program[k].op)
<1>1. program[k].at = EndAt(k - 1)
  BY DEF Assembled, EndAt
<1> QED
  BY <1>1 DEF EndAt

LEMMA X86SizeNat == \A c : X86Size(c) \in Nat
  BY DEF X86Size, PushImmSize

(* What a freshly parsed command is. *)
LEMMA ParsedType ==
    ASSUME NEW c \in Command, c.op \in TranslatedOps
    PROVE  Parsed(c) \in IrCommand
  BY X86SizeNat, SizeNat DEF Parsed, IrCommand, Command

(***************************************************************************)
(* HandleImmStorage and HandleConstantCalculation, field by field.         *)
(***************************************************************************)
LEMMA SkippedProps ==
    ASSUME NEW r \in IrCommand
    PROVE  /\ Skipped(r) \in IrCommand
           /\ Skipped(r).is_skip = TRUE
           /\ Skipped(r).name = r.name /\ Skipped(r).mode = r.mode /\ Skipped(r).value = r.value
           /\ Skipped(r).reg = r.reg /\ Skipped(r).x86_size = r.x86_size
  BY DEF Skipped, IrCommand

LEMMA MovRegNumProps ==
    ASSUME NEW r \in IrCommand, NEW c \in IrCommand
    PROVE  /\ MovRegNum(r, c) \in IrCommand
           /\ MovRegNum(r, c).is_skip = r.is_skip
           /\ MovRegNum(r, c).name = "mov" /\ MovRegNum(r, c).mode = r.mode
           /\ MovRegNum(r, c).x86_size = MovRegNumSize
           /\ MovRegNum(r, c).native_size = r.native_size + c.native_size
<1>1. /\ r.native_size \in Nat /\ c.native_size \in Nat /\ c.value \in Int
  BY DEF IrCommand
<1>2. MovRegNumSize \in Nat
  BY DEF MovRegNumSize
<1>3. MovRegNum(r, c) \in IrCommand
  <2> DEFINE a == [r EXCEPT !.name = "mov", !.value = c.value]
             b == [a EXCEPT !.x86_size = MovRegNumSize,
                            !.native_size = r.native_size + c.native_size]
  <2>1. a \in IrCommand
    BY <1>1 DEF IrCommand
  <2>2. r.native_size + c.native_size \in Nat
    BY <1>1
  <2>3. b \in IrCommand
    <3> HIDE DEF a
    <3> QED
      BY <1>2, <2>1, <2>2 DEF IrCommand
  <2>4. b = MovRegNum(r, c)
    BY Zenon DEF MovRegNum
  <2> QED
    BY <2>3, <2>4
<1>4. MovRegNum(r, c).native_size = r.native_size + c.native_size
  BY <1>1 DEF MovRegNum, IrCommand
<1> QED
  BY <1>3, <1>4 DEF MovRegNum, IrCommand

LEMMA PushConstantProps ==
    ASSUME NEW r \in IrCommand, NEW m \in IrCommand, NEW n \in IrCommand,
           r.name \in ArithOps, m.value \in Number, n.value \in Number
    PROVE  /\ PushConstant(r, m, n) \in IrCommand
           /\ PushConstant(r, m, n).is_skip = r.is_skip
           /\ PushConstant(r, m, n).name = "push" /\ PushConstant(r, m, n).mode = "imm"
           /\ PushConstant(r, m, n).value \in Number
           /\ PushConstant(r, m, n).x86_size = PushImmSize
           /\ PushConstant(r, m, n).native_size = r.native_size + m.native_size + n.native_size
<1>1. r.native_size \in Nat /\ m.native_size \in Nat /\ n.native_size \in Nat
  BY DEF IrCommand
<1>2. /\ Constant(r.name, m.value, n.value) \in Number
      /\ Constant(r.name, m.value, n.value) \in Int
  BY NumberAssumption DEF Constant
<1>3. PushImmSize \in Nat /\ "push" \in TranslatedOps /\ "imm" \in Modes
  BY DEF PushImmSize, TranslatedOps, Modes
<1>4. PushConstant(r, m, n) \in IrCommand
  <2> DEFINE a == [r EXCEPT !.name = "push", !.mode = "imm"]
             b == [a EXCEPT !.value = Constant(r.name, m.value, n.value),
                            !.x86_size = PushImmSize]
             c == [b EXCEPT !.native_size = r.native_size + m.native_size + n.native_size]
  <2>1. a \in IrCommand
    BY <1>3 DEF IrCommand
  <2>2. b \in IrCommand
    <3> HIDE DEF a
    <3> QED
      BY <1>2, <1>3, <2>1 DEF IrCommand
  <2>3. r.native_size + m.native_size + n.native_size \in Nat
    BY <1>1
  <2>4. c \in IrCommand
    <3> HIDE DEF b
    <3> QED
      BY <2>2, <2>3 DEF IrCommand
  <2>5. c = PushConstant(r, m, n)
    BY Zenon DEF PushConstant
  <2> QED
    BY <2>4, <2>5
<1>5. PushConstant(r, m, n).native_size = r.native_size + m.native_size + n.native_size
  BY DEF PushConstant, IrCommand
<1>6. PushConstant(r, m, n).value \in Number
  BY <1>2 DEF PushConstant, IrCommand
<1> QED
  BY <1>4, <1>5, <1>6 DEF PushConstant, IrCommand

LEMMA CmdsAre ==
    ASSUME cmds \in Seq(IrCommand)
    PROVE  /\ Len(cmds) \in Nat /\ DOMAIN cmds = 1..Len(cmds)
           /\ cmds \in [1..Len(cmds) -> IrCommand]
           /\ \A m \in 1..Len(cmds) : cmds[m] \in IrCommand
  BY LenProperties, ElementOfSeq

LEMMA IsCmds ==
    ASSUME NEW s, NEW n \in Nat, s \in [1..n -> IrCommand]
    PROVE  s \in Seq(IrCommand) /\ Len(s) = n
  BY LenProperties, SeqDef

LEMMA MergedProps ==
    ASSUME cmds \in Seq(IrCommand), NEW k \in 1..Len(cmds) - 1
    PROVE  /\ Merged(k) \in Seq(IrCommand)
           /\ Len(Merged(k)) = Len(cmds)
           /\ \A m \in 1..Len(cmds) : m # k /\ m # k + 1 => Merged(k)[m] = cmds[m]
           /\ Merged(k)[k] = Skipped(cmds[k])
           /\ Merged(k)[k + 1] = MovRegNum(cmds[k + 1], cmds[k])
<1>1. /\ Len(cmds) \in Nat /\ DOMAIN cmds = 1..Len(cmds)
      /\ cmds \in [1..Len(cmds) -> IrCommand]
      /\ cmds[k] \in IrCommand /\ cmds[k + 1] \in IrCommand
  BY CmdsAre
<1>2. Skipped(cmds[k]) \in IrCommand /\ MovRegNum(cmds[k + 1], cmds[k]) \in IrCommand
  BY <1>1, SkippedProps, MovRegNumProps
<1>3. Merged(k) \in [1..Len(cmds) -> IrCommand]
  BY <1>1, <1>2 DEF Merged
<1>4. Merged(k) \in Seq(IrCommand) /\ Len(Merged(k)) = Len(cmds)
  BY <1>1, <1>3, IsCmds
<1> QED
  BY <1>1, <1>4 DEF Merged

LEMMA FoldedProps ==
    ASSUME cmds \in Seq(IrCommand), NEW k \in 3..Len(cmds), cmds[k].name \in ArithOps,
           cmds[k - 1].value \in Number, cmds[k - 2].value \in Number
    PROVE  /\ Folded(k) \in Seq(IrCommand)
           /\ Len(Folded(k)) = Len(cmds)
           /\ \A m \in 1..Len(cmds) : m # k /\ m # k - 1 /\ m # k - 2 => Folded(k)[m] = cmds[m]
           /\ \A m \in {k - 1, k - 2} : Folded(k)[m] = Skipped(cmds[m])
           /\ Folded(k)[k] = PushConstant(cmds[k], cmds[k - 1], cmds[k - 2])
<1>1. /\ Len(cmds) \in Nat /\ DOMAIN cmds = 1..Len(cmds)
      /\ cmds \in [1..Len(cmds) -> IrCommand]
      /\ cmds[k] \in IrCommand /\ cmds[k - 1] \in IrCommand /\ cmds[k - 2] \in IrCommand
  BY CmdsAre
<1>2. /\ PushConstant(cmds[k], cmds[k - 1], cmds[k - 2]) \in IrCommand
      /\ Skipped(cmds[k - 1]) \in IrCommand /\ Skipped(cmds[k - 2]) \in IrCommand
  BY <1>1, SkippedProps, PushConstantProps
<1>3. Folded(k) \in [1..Len(cmds) -> IrCommand]
  BY <1>1, <1>2 DEF Folded
<1>4. Folded(k) \in Seq(IrCommand) /\ Len(Folded(k)) = Len(cmds)
  BY <1>1, <1>3, IsCmds
<1> QED
  BY <1>1, <1>4 DEF Folded

LEMMA MergeFields ==
    ASSUME cmds \in Seq(IrCommand), NEW k \in 1..Len(cmds) - 1, cmds' = Merged(k)
    PROVE  /\ cmds' \in Seq(IrCommand)
           /\ Len(cmds') = Len(cmds)
           /\ \A m \in 1..Len(cmds) : m # k /\ m # k + 1 => cmds'[m] = cmds[m]
           /\ cmds'[k].is_skip = TRUE
           /\ cmds'[k].name = cmds[k].name /\ cmds'[k].mode = cmds[k].mode
           /\ cmds'[k].value = cmds[k].value /\ cmds'[k].x86_size = cmds[k].x86_size
           /\ cmds'[k + 1].is_skip = cmds[k + 1].is_skip
           /\ cmds'[k + 1].name = "mov" /\ cmds'[k + 1].mode = cmds[k + 1].mode
           /\ cmds'[k + 1].x86_size = MovRegNumSize
           /\ cmds'[k + 1].native_size = cmds[k + 1].native_size + cmds[k].native_size
<1>1. cmds[k] \in IrCommand /\ cmds[k + 1] \in IrCommand
  BY CmdsAre
<1>2. cmds'[k] = Skipped(cmds[k]) /\ cmds'[k + 1] = MovRegNum(cmds[k + 1], cmds[k])
  BY MergedProps
<1>3. /\ cmds'[k].is_skip = TRUE
      /\ cmds'[k].name = cmds[k].name /\ cmds'[k].mode = cmds[k].mode
      /\ cmds'[k].value = cmds[k].value /\ cmds'[k].x86_size = cmds[k].x86_size
  BY <1>1, <1>2, SkippedProps
<1>4. /\ cmds'[k + 1].is_skip = cmds[k + 1].is_skip
      /\ cmds'[k + 1].name = "mov" /\ cmds'[k + 1].mode = cmds[k + 1].mode
      /\ cmds'[k + 1].x86_size = MovRegNumSize
      /\ cmds'[k + 1].native_size = cmds[k + 1].native_size + cmds[k].native_size
  BY <1>1, <1>2, MovRegNumProps
<1> QED
  BY <1>3, <1>4, MergedProps

LEMMA FoldFields ==
    ASSUME cmds \in Seq(IrCommand), NEW k \in 3..Len(cmds), cmds[k].name \in ArithOps,
           cmds[k - 1].value \in Number, cmds[k - 2].value \in Number, cmds' = Folded(k)
    PROVE  /\ cmds' \in Seq(IrCommand)
           /\ Len(cmds') = Len(cmds)
           /\ \A m \in 1..Len(cmds) : m # k /\ m # k - 1 /\ m # k - 2 => cmds'[m] = cmds[m]
           /\ \A m \in {k - 1, k - 2} :
                 /\ cmds'[m].is_skip = TRUE
                 /\ cmds'[m].name = cmds[m].name /\ cmds'[m].mode = cmds[m].mode
                 /\ cmds'[m].value = cmds[m].value /\ cmds'[m].x86_size = cmds[m].x86_size
           /\ cmds'[k].is_skip = cmds[k].is_skip
           /\ cmds'[k].name = "push" /\ cmds'[k].mode = "imm" /\ cmds'[k].value \in Number
           /\ cmds'[k].x86_size = PushImmSize
           /\ cmds'[k].native_size = cmds[k].native_size + cmds[k - 1].native_size
                                                        + cmds[k - 2].native_size
<1>1. cmds[k] \in IrCommand /\ cmds[k - 1] \in IrCommand /\ cmds[k - 2] \in IrCommand
  BY CmdsAre
<1>2. /\ \A m \in {k - 1, k - 2} : cmds'[m] = Skipped(cmds[m])
      /\ cmds'[k] = PushConstant(cmds[k], cmds[k - 1], cmds[k - 2])
  BY FoldedProps
<1>3. ASSUME NEW m \in {k - 1, k - 2}
      PROVE  /\ cmds'[m].is_skip = TRUE
             /\ cmds'[m].name = cmds[m].name /\ cmds'[m].mode = cmds[m].mode
             /\ cmds'[m].value = cmds[m].value /\ cmds'[m].x86_size = cmds[m].x86_size
  <2>1. cmds[m] \in IrCommand /\ cmds'[m] = Skipped(cmds[m])
    BY <1>1, <1>2
  <2> QED
    BY <2>1, SkippedProps
<1>4. /\ cmds'[k].is_skip = cmds[k].is_skip
      /\ cmds'[k].name = "push" /\ cmds'[k].mode = "imm" /\ cmds'[k].value \in Number
      /\ cmds'[k].x86_size = PushImmSize
      /\ cmds'[k].native_size = cmds[k].native_size + cmds[k - 1].native_size
                                                   + cmds[k - 2].native_size
  BY <1>1, <1>2, PushConstantProps
<1> QED
  BY <1>3, <1>4, FoldedProps

(***************************************************************************)
(* What the other loops do to the array.                                   *)
(***************************************************************************)
\* The parts of a command that stay once the optimizer is done.
SameShape ==
    /\ Len(cmds') = Len(cmds)
    /\ \A k \in 1..Len(cmds) :
          /\ cmds'[k].is_skip = cmds[k].is_skip
          /\ cmds'[k].name = cmds[k].name /\ cmds'[k].mode = cmds[k].mode
          /\ cmds'[k].native_size = cmds[k].native_size
          /\ cmds'[k].x86_size = cmds[k].x86_size

LEMMA ParseProps ==
    ASSUME Assembled(program), ParseOnStructs
    PROVE  /\ cmds' \in Seq(IrCommand)
           /\ Len(cmds') <= Len(program)
           /\ \A k \in 1..Len(cmds') : /\ cmds'[k] = Parsed(program[k])
                                       /\ program[k] \in Command
<1>1. /\ Len(program) \in Nat
      /\ \A k \in 1..Len(program) : program[k] \in Command
  BY LenProperties, ElementOfSeq DEF Assembled
<1>2. PICK n \in 0..Len(program) :
          StopsAt(n) /\ cmds' = [k \in 1..n |-> Parsed(program[k])]
  BY DEF ParseOnStructs
<1>3. \A k \in 1..n : program[k] \in Command /\ program[k].op \in TranslatedOps
  BY <1>1, <1>2 DEF StopsAt
<1>4. \A k \in 1..n : Parsed(program[k]) \in IrCommand
  BY <1>3, ParsedType
<1>5. cmds' \in [1..n -> IrCommand]
  BY <1>2, <1>4
<1>6. cmds' \in Seq(IrCommand) /\ Len(cmds') = n
  BY <1>1, <1>5, IsCmds
<1> QED
  BY <1>1, <1>2, <1>3, <1>6

LEMMA PlaceProps ==
    ASSUME IrTypeOK, Place
    PROVE  /\ cmds' \in Seq(IrCommand)
           /\ SameShape
           /\ \A k \in 1..Len(cmds) : k # i => cmds'[k] = cmds[k]
           /\ ~Kept(i) => cmds' = cmds
           /\ Kept(i) => cmds'[i].native_ip = native_ip /\ cmds'[i].x86_ip = x86_ip
<1>1. /\ Len(cmds) \in Nat /\ cmds \in [1..Len(cmds) -> IrCommand]
      /\ i \in 1..Len(cmds) /\ native_ip \in Nat /\ x86_ip \in Nat
      /\ cmds[i] \in IrCommand
  BY CmdsAre DEF IrTypeOK, Place
<1>2. CASE cmds[i].is_skip
  BY <1>1, <1>2 DEF Place, IrTypeOK, SameShape, Kept
<1>3. CASE ~cmds[i].is_skip
  <2> DEFINE c == [cmds[i] EXCEPT !.native_ip = native_ip, !.x86_ip = x86_ip]
  <2>1. c \in IrCommand
    BY <1>1 DEF IrCommand
  <2>2. /\ c.is_skip = cmds[i].is_skip /\ c.name = cmds[i].name /\ c.mode = cmds[i].mode
        /\ c.native_size = cmds[i].native_size /\ c.x86_size = cmds[i].x86_size
    BY <1>1 DEF IrCommand
  <2>3. c.native_ip = native_ip /\ c.x86_ip = x86_ip
    BY <1>1 DEF IrCommand
  <2>4. cmds' = [cmds EXCEPT ![i] = c]
    BY <1>1, <1>3 DEF Place
  <2> HIDE DEF c
  <2>5. cmds' \in [1..Len(cmds) -> IrCommand]
    BY <1>1, <2>1, <2>4
  <2>6. cmds' \in Seq(IrCommand) /\ Len(cmds') = Len(cmds)
    BY <1>1, <2>5, IsCmds
  <2>7. cmds'[i] = c /\ \A k \in 1..Len(cmds) : k # i => cmds'[k] = cmds[k]
    BY <1>1, <2>4
  <2> QED
    BY <1>1, <1>3, <2>2, <2>3, <2>6, <2>7 DEF SameShape, Kept
<1> QED
  BY <1>2, <1>3

LEMMA JumpIpInt ==
    ASSUME cmds \in Seq(IrCommand), NEW a
    PROVE  JumpIp(a) \in Int
<1> DEFINE found == {k \in 1..Len(cmds) : cmds[k].native_ip = a}
<1>1. CASE found = {}
  BY <1>1 DEF JumpIp
<1>2. CASE found # {}
  <2>1. (CHOOSE k \in found : TRUE) \in 1..Len(cmds)
    BY <1>2
  <2>2. cmds[CHOOSE k \in found : TRUE] \in IrCommand
    BY <2>1, CmdsAre
  <2>3. JumpIp(a) = cmds[CHOOSE k \in found : TRUE].x86_ip
    BY <1>2, Zenon DEF JumpIp
  <2>4. cmds[CHOOSE k \in found : TRUE].x86_ip \in Nat
    BY <2>2 DEF IrCommand
  <2> QED
    BY <2>3, <2>4
<1> QED
  BY <1>1, <1>2

LEMMA LinkProps ==
    ASSUME IrTypeOK, FillJumpLables
    PROVE  /\ cmds' \in Seq(IrCommand)
           /\ SameShape
           /\ \A k \in 1..Len(cmds) : /\ cmds'[k].native_ip = cmds[k].native_ip
                                      /\ cmds'[k].x86_ip = cmds[k].x86_ip
<1> DEFINE c(k) == IF cmds[k].name \in JumpOps
                   THEN [cmds[k] EXCEPT !.value = JumpIp(cmds[k].value)] ELSE cmds[k]
<1>1. /\ Len(cmds) \in Nat
      /\ \A k \in 1..Len(cmds) : cmds[k] \in IrCommand /\ JumpIp(cmds[k].value) \in Int
  BY CmdsAre, JumpIpInt DEF IrTypeOK
<1>2. ASSUME NEW k \in 1..Len(cmds)
      PROVE  /\ c(k) \in IrCommand
             /\ c(k).is_skip = cmds[k].is_skip
             /\ c(k).name = cmds[k].name /\ c(k).mode = cmds[k].mode
             /\ c(k).native_size = cmds[k].native_size /\ c(k).x86_size = cmds[k].x86_size
             /\ c(k).native_ip = cmds[k].native_ip /\ c(k).x86_ip = cmds[k].x86_ip
  <2>1. cmds[k] \in IrCommand /\ JumpIp(cmds[k].value) \in Int
    BY <1>1
  <2>2. \A r \in IrCommand, v \in Int : [r EXCEPT !.value = v] \in IrCommand
    BY DEF IrCommand
  <2>3. c(k) \in IrCommand
    BY <2>1, <2>2
  <2>4. /\ c(k).is_skip = cmds[k].is_skip
        /\ c(k).name = cmds[k].name /\ c(k).mode = cmds[k].mode
    BY <2>1 DEF IrCommand
  <2>5. /\ c(k).native_size = cmds[k].native_size /\ c(k).x86_size = cmds[k].x86_size
        /\ c(k).native_ip = cmds[k].native_ip /\ c(k).x86_ip = cmds[k].x86_ip
    BY <2>1 DEF IrCommand
  <2> QED
    BY <2>3, <2>4, <2>5
<1>3. cmds' = [k \in 1..Len(cmds) |-> c(k)]
  BY DEF FillJumpLables
<1> HIDE DEF c
<1>4. cmds' \in [1..Len(cmds) -> IrCommand]
  BY <1>2, <1>3
<1>5. cmds' \in Seq(IrCommand) /\ Len(cmds') = Len(cmds)
  BY <1>1, <1>4, IsCmds
<1> QED
  BY <1>2, <1>3, <1>5 DEF SameShape

LEMMA EmitProps ==
    ASSUME IrTypeOK, Emit
    PROVE  /\ cmds' \in Seq(IrCommand)
           /\ SameShape
           /\ \A k \in 1..Len(cmds) : k # i => cmds'[k] = cmds[k]
           /\ ~Kept(i) => cmds' = cmds
           /\ Kept(i) => cmds'[i].pos = len
           /\ cmds'[i].native_ip = cmds[i].native_ip /\ cmds'[i].x86_ip = cmds[i].x86_ip
<1>1. /\ Len(cmds) \in Nat /\ cmds \in [1..Len(cmds) -> IrCommand]
      /\ i \in 1..Len(cmds) /\ len \in Nat /\ cmds[i] \in IrCommand
  BY CmdsAre DEF IrTypeOK, Emit
<1>2. CASE cmds[i].is_skip
  BY <1>1, <1>2 DEF Emit, IrTypeOK, SameShape, Kept
<1>3. CASE ~cmds[i].is_skip
  <2> DEFINE c == [cmds[i] EXCEPT !.pos = len]
  <2>1. /\ c \in IrCommand
        /\ c.is_skip = cmds[i].is_skip /\ c.name = cmds[i].name /\ c.mode = cmds[i].mode
        /\ c.native_size = cmds[i].native_size /\ c.x86_size = cmds[i].x86_size
        /\ c.native_ip = cmds[i].native_ip /\ c.x86_ip = cmds[i].x86_ip /\ c.pos = len
    BY <1>1 DEF IrCommand
  <2>2. cmds' = [cmds EXCEPT ![i] = c]
    BY <1>1, <1>3 DEF Emit
  <2> HIDE DEF c
  <2>3. cmds' \in [1..Len(cmds) -> IrCommand]
    BY <1>1, <2>1, <2>2
  <2>4. cmds' \in Seq(IrCommand) /\ Len(cmds') = Len(cmds)
    BY <1>1, <2>3, IsCmds
  <2>5. cmds'[i] = c /\ \A k \in 1..Len(cmds) : k # i => cmds'[k] = cmds[k]
    BY <1>1, <2>2
  <2> QED
    BY <1>1, <1>3, <2>1, <2>4, <2>5 DEF SameShape, Kept
<1> QED
  BY <1>2, <1>3

(***************************************************************************)
(* IrTypeOK is an invariant of every assembled program.                    *)
(***************************************************************************)
LEMMA IrTypeInit == Init /\ Assembled(program) => IrTypeOK
<1>1. <<>> \in Seq(IrCommand) /\ Len(<<>>) = 0
  BY EmptySeq
<1>2. Assembled(program) => Len(program) \in Nat
  BY LenProperties DEF Assembled
<1> QED
  BY <1>1, <1>2 DEF Init, IrTypeOK, Phases

LEMMA IrTypeStep == IrTypeOK /\ [Next]_vars => IrTypeOK' /\ program' = program
<1> SUFFICES ASSUME IrTypeOK, [Next]_vars
             PROVE  IrTypeOK' /\ program' = program
  OBVIOUS
<1> USE DEF Phases
<1>0. /\ Len(cmds) \in Nat /\ Len(program) \in Nat
      /\ \A k \in 1..Len(cmds) : cmds[k] \in IrCommand
  BY CmdsAre, LenProperties DEF IrTypeOK, Assembled
<1>1. CASE ParseOnStructs
  <2>1. /\ cmds' \in Seq(IrCommand) /\ Len(cmds') <= Len(program) /\ Len(cmds') \in Nat
        /\ \A k \in 1..Len(cmds') : cmds'[k] = Parsed(program[k]) /\ program[k] \in Command
    BY <1>1, ParseProps, LenProperties DEF IrTypeOK
  <2>2. \A k \in 1..Len(cmds') : cmds'[k].mode = "imm" => cmds'[k].value \in Number
    <3> SUFFICES ASSUME NEW k \in 1..Len(cmds'), cmds'[k].mode = "imm"
                 PROVE  cmds'[k].value \in Number
      OBVIOUS
    <3>1. k \in 1..Len(program) /\ cmds'[k] = Parsed(program[k])
      BY <1>0, <2>1
    <3>2. cmds'[k].mode = program[k].mode /\ cmds'[k].value = program[k].value
      BY <3>1 DEF Parsed
    <3> QED
      BY <3>1, <3>2 DEF Assembled, IrTypeOK
  <2> QED
    BY <1>1, <2>1, <2>2 DEF IrTypeOK, ParseOnStructs, Begin, Assembled
<1>2. CASE OptimizeStep
  <2>1. i \in 1..Len(cmds) - 1
    BY <1>0, <1>2 DEF IrTypeOK, OptimizeStep
  <2>2. CASE ReadsBeforeArray(i)
    BY <1>2, <2>2 DEF IrTypeOK, OptimizeStep, Assembled
  <2>3. CASE ~ReadsBeforeArray(i) /\ MergesAt(i)
    <3>1. cmds' = Merged(i)
      BY <1>2, <2>3 DEF OptimizeStep
    <3>2. /\ cmds' \in Seq(IrCommand) /\ Len(cmds') = Len(cmds)
          /\ \A m \in 1..Len(cmds) : m # i /\ m # i + 1 => cmds'[m] = cmds[m]
          /\ cmds'[i].mode = cmds[i].mode /\ cmds'[i].value = cmds[i].value
          /\ cmds'[i + 1].mode = "reg"
      BY <2>1, <2>3, <3>1, MergeFields DEF MergesAt, IrTypeOK
    <3>3. \A k \in 1..Len(cmds') : cmds'[k].mode = "imm" => cmds'[k].value \in Number
      BY <1>2, <2>1, <3>2 DEF IrTypeOK, OptimizeStep
    <3> QED
      BY <1>2, <2>1, <2>3, <3>2, <3>3 DEF IrTypeOK, OptimizeStep, Assembled
  <2>4. CASE ~ReadsBeforeArray(i) /\ ~MergesAt(i) /\ i > 2 /\ FoldsAt(i)
    <3>1. cmds' = Folded(i)
      BY <1>2, <2>4 DEF OptimizeStep
    <3>2. /\ cmds[i].name \in ArithOps /\ i \in 3..Len(cmds)
          /\ cmds[i - 1].value \in Number /\ cmds[i - 2].value \in Number
      BY <1>0, <1>2, <2>1, <2>4 DEF FoldsAt, IrTypeOK, OptimizeStep
    <3>3. /\ cmds' \in Seq(IrCommand) /\ Len(cmds') = Len(cmds)
          /\ \A m \in 1..Len(cmds) : m # i /\ m # i - 1 /\ m # i - 2 => cmds'[m] = cmds[m]
          /\ \A m \in {i - 1, i - 2} : cmds'[m].mode = cmds[m].mode /\ cmds'[m].value = cmds[m].value
          /\ cmds'[i].value \in Number
      BY <3>1, <3>2, FoldFields DEF IrTypeOK
    <3>5. \A k \in 1..Len(cmds') : cmds'[k].mode = "imm" => cmds'[k].value \in Number
      BY <1>2, <2>1, <3>3 DEF IrTypeOK, OptimizeStep
    <3> QED
      BY <1>2, <2>1, <2>4, <3>3, <3>5 DEF IrTypeOK, OptimizeStep, Assembled
  <2>5. CASE ~ReadsBeforeArray(i) /\ ~MergesAt(i) /\ ~(i > 2 /\ FoldsAt(i))
    <3>1. /\ cmds' = cmds /\ i' = i + 1 /\ phase' = phase /\ i < Len(cmds) /\ phase = "optimize"
          /\ UNCHANGED <<program, native_ip, x86_ip, len>>
      BY <1>2, <2>5 DEF OptimizeStep
    <3>2. i' \in Nat \ {0} /\ i' <= Len(cmds)
      BY <1>0, <3>1 DEF IrTypeOK
    <3> QED
      BY <3>1, <3>2 DEF IrTypeOK, Assembled
  <2> QED
    BY <2>2, <2>3, <2>4, <2>5
<1>3. CASE OptimizeEnd
  BY <1>0, <1>3 DEF IrTypeOK, OptimizeEnd, Begin, ServiceDataLen, Assembled
<1>4. CASE Place
  <2>1. cmds' \in Seq(IrCommand) /\ Len(cmds') = Len(cmds)
    BY <1>4, PlaceProps DEF SameShape
  <2>2. native_ip' \in Nat /\ x86_ip' \in Nat /\ i' = i + 1 /\ i \in 1..Len(cmds)
    <3>1. i \in 1..Len(cmds) /\ cmds[i].native_size \in Nat /\ cmds[i].x86_size \in Nat
      <4>1. i \in 1..Len(cmds) /\ cmds[i] \in IrCommand
        BY <1>0, <1>4 DEF IrTypeOK, Place
      <4> QED
        BY <4>1 DEF IrCommand
    <3>2. native_ip \in Nat /\ x86_ip \in Nat
      BY DEF IrTypeOK
    <3>3. /\ native_ip' \in {native_ip, native_ip + cmds[i].native_size}
          /\ x86_ip' \in {x86_ip, x86_ip + cmds[i].x86_size}
          /\ i' = i + 1
      BY <1>4 DEF Place
    <3> QED
      BY <3>1, <3>2, <3>3
  <2> QED
    BY <1>0, <1>4, <2>1, <2>2 DEF IrTypeOK, Place, Assembled
<1>5. CASE PlaceEnd
  BY <1>0, <1>5 DEF IrTypeOK, PlaceEnd, Begin, Assembled
<1>6. CASE FillJumpLables
  <2>1. cmds' \in Seq(IrCommand) /\ Len(cmds') = Len(cmds)
    BY <1>6, LinkProps DEF SameShape
  <2> QED
    BY <1>0, <1>6, <2>1 DEF IrTypeOK, FillJumpLables, Begin, Assembled
<1>7. CASE Emit
  <2>1. cmds' \in Seq(IrCommand) /\ Len(cmds') = Len(cmds)
    BY <1>7, EmitProps DEF SameShape
  <2>2. \A c : Emitted(c) \in Nat
    BY DEF Emitted, EmittedPushPop, LoadXmm0, StoreXmm0, AddRsp, Ptr, RegToRsi
  <2>3. len' \in Nat /\ i' = i + 1 /\ i \in 1..Len(cmds)
    BY <1>0, <1>7, <2>2 DEF IrTypeOK, Emit
  <2> QED
    BY <1>0, <1>7, <2>1, <2>3 DEF IrTypeOK, Emit, Assembled
<1>8. CASE EmitEnd
  BY <1>0, <1>8 DEF IrTypeOK, EmitEnd, Begin, Assembled
<1>9. CASE RunCommand
  BY <1>9 DEF IrTypeOK, RunCommand, Assembled
<1>10. CASE UNCHANGED vars
  BY <1>10 DEF IrTypeOK, vars, Assembled
<1> QED
  BY <1>1, <1>2, <1>3, <1>4, <1>5, <1>6, <1>7, <1>8, <1>9, <1>10 DEF Next

(***************************************************************************)
(* Every array step of OptimizeCmdFlow, with the case it falls in.         *)
(***************************************************************************)
LEMMA OptimizeCases ==
    ASSUME IrTypeOK, OptimizeStep
    PROVE  /\ i \in 1..Len(cmds) - 1 /\ phase = "optimize" /\ program' = program
           /\ \/ phase' = "crashed" /\ cmds' = cmds
              \/ /\ phase' = "optimize" /\ i' = i + 1
                 /\ \/ MergesAt(i) /\ cmds' = Merged(i)
                    \/ /\ i \in 3..Len(cmds) /\ FoldsAt(i) /\ cmds' = Folded(i)
                       /\ cmds[i].name \in ArithOps
                       /\ cmds[i - 1].value \in Number /\ cmds[i - 2].value \in Number
                    \/ cmds' = cmds
<1>1. Len(cmds) \in Nat
  BY CmdsAre DEF IrTypeOK
<1>2. i \in 1..Len(cmds) - 1 /\ phase = "optimize" /\ program' = program
  BY <1>1 DEF IrTypeOK, OptimizeStep
<1>3. CASE ReadsBeforeArray(i)
  BY <1>2, <1>3 DEF OptimizeStep
<1>4. CASE ~ReadsBeforeArray(i) /\ MergesAt(i)
  BY <1>2, <1>4 DEF OptimizeStep
<1>5. CASE ~ReadsBeforeArray(i) /\ ~MergesAt(i) /\ i > 2 /\ FoldsAt(i)
  <2>1. /\ cmds[i].name \in ArithOps /\ i \in 3..Len(cmds)
        /\ cmds[i - 1].value \in Number /\ cmds[i - 2].value \in Number
    BY <1>1, <1>2, <1>5 DEF FoldsAt, IrTypeOK
  <2> QED
    BY <1>2, <1>5, <2>1 DEF OptimizeStep
<1>6. CASE ~ReadsBeforeArray(i) /\ ~MergesAt(i) /\ ~(i > 2 /\ FoldsAt(i))
  BY <1>2, <1>6 DEF OptimizeStep
<1> QED
  BY <1>3, <1>4, <1>5, <1>6

(***************************************************************************)
(* What OptimizeCmdFlow still has before it is as it was parsed.           *)
(***************************************************************************)
\* The members of an operation about to be folded are kept pushes of the program.
LEMMA FoldsKept ==
    ASSUME IrTypeOK, Ahead, NoRefold(program), phase = "optimize",
           i \in 3..Len(cmds), FoldsAt(i)
    PROVE  /\ Kept(i) /\ Kept(i - 1) /\ Kept(i - 2)
           /\ IsArith(program, i) /\ IsImm(program, i - 1) /\ IsConst(program, i - 2)
<1> USE DEF Ahead
<1>0. Len(cmds) \in Nat /\ Len(program) \in Nat /\ Len(cmds) <= Len(program)
  BY CmdsAre, LenProperties DEF IrTypeOK, Assembled
<1>1. cmds[i].name \in ArithOps /\ cmds[i - 1].mode = "imm" /\ cmds[i - 2].mode = "imm"
  BY DEF FoldsAt
<1>2. cmds[i].name # "mov"
  BY <1>1 DEF ArithOps
<1>3. Kept(i) /\ IsArith(program, i)
  BY <1>0, <1>1, <1>2 DEF IsArith
<1>4. Kept(i - 1)
  BY <1>0, <1>2
<1>5. IsImm(program, i - 1)
  <2>1. SUFFICES ASSUME /\ i - 1 > 2 /\ IsArith(program, i - 1)
                        /\ IsImm(program, i - 2) /\ IsConst(program, i - 3)
                 PROVE  FALSE
    <3>1. i - 1 \in 1..Len(cmds) /\ (i - 1) - 1 = i - 2 /\ (i - 1) - 2 = i - 3
      BY <1>0
    <3> QED
      BY <1>1, <2>1, <3>1
  <2>2. i \in 4..Len(program)
    BY <1>0, <2>1
  <2> QED
    BY <1>3, <2>1, <2>2 DEF NoRefold
<1>6. IsConst(program, i - 2)
  BY <1>0, <1>1 DEF IsConst
<1>7. ~IsArith(program, i - 1)
  BY <1>5 DEF IsImm, IsArith, ArithOps
<1>8. Kept(i - 2)
  BY <1>0, <1>1, <1>7
<1> QED
  BY <1>3, <1>4, <1>5, <1>6, <1>8

LEMMA AheadStep ==
    ASSUME IrTypeOK, Ahead, NoRefold(program), AllTranslated(program), [Next]_vars
    PROVE  Ahead'
<1>0. /\ Len(cmds) \in Nat /\ Len(program) \in Nat /\ Len(cmds) <= Len(program)
      /\ i \in Nat \ {0}
  BY CmdsAre, LenProperties DEF IrTypeOK, Assembled
<1>1. CASE ParseOnStructs
  <2>1. /\ cmds' \in Seq(IrCommand) /\ Len(cmds') <= Len(program) /\ Len(cmds') \in Nat
        /\ \A k \in 1..Len(cmds') : cmds'[k] = Parsed(program[k]) /\ program[k] \in Command
    BY <1>1, ParseProps, LenProperties DEF IrTypeOK
  <2>2. \A k \in 1..Len(cmds') :
           /\ cmds'[k].is_skip = FALSE
           /\ cmds'[k].mode = program[k].mode /\ cmds'[k].name = program[k].op
    <3> TAKE k \in 1..Len(cmds')
    <3>1. cmds'[k] = Parsed(program[k])
      BY <2>1
    <3> QED
      BY <3>1 DEF Parsed
  <2>3. \A k \in 1..Len(cmds') : program[k].op # "mov"
    BY <1>0, <2>1 DEF AllTranslated, TranslatedOps, ArithOps, JumpOps, CondOps, PlainOps
  <2>4. \A k \in 1..Len(cmds') : program[k].mode = "imm" => IsImm(program, k)
    BY <1>0, <2>1 DEF AllTranslated, IsImm, IrTypeOK, Assembled
  <2>5. phase' = "optimize" /\ i' = 1 /\ program' = program
    BY <1>1 DEF ParseOnStructs, Begin
  <2> QED
    BY <2>1, <2>2, <2>3, <2>4, <2>5 DEF Ahead, Kept
<1>2. CASE OptimizeStep
  <2>1. /\ i \in 1..Len(cmds) - 1 /\ phase = "optimize" /\ program' = program
    BY <1>2, OptimizeCases
  <2>2. /\ \A k \in i .. Len(cmds) :
              /\ Kept(k)
              /\ cmds[k].mode = program[k].mode
              /\ cmds[k].name = program[k].op \/ (k = i /\ cmds[k].name = "mov")
        /\ \A k \in 1..Len(cmds) :
              /\ cmds[k].name = "mov" => cmds[k].mode = "reg"
              /\ cmds[k].mode = "imm" =>
                    \/ IsImm(program, k)
                    \/ /\ k > 2 /\ IsArith(program, k)
                       /\ IsImm(program, k - 1) /\ IsConst(program, k - 2)
        /\ (i > 1 /\ ~Kept(i - 1)) => cmds[i].name = "mov"
    BY <2>1 DEF Ahead
  <2>3. CASE phase' = "crashed"
    BY <2>3 DEF Ahead
  <2>4. CASE phase' = "optimize" /\ i' = i + 1 /\ MergesAt(i) /\ cmds' = Merged(i)
    <3>1. /\ Len(cmds') = Len(cmds)
          /\ \A m \in 1..Len(cmds) : m # i /\ m # i + 1 => cmds'[m] = cmds[m]
          /\ cmds'[i].is_skip = TRUE
          /\ cmds'[i].name = cmds[i].name /\ cmds'[i].mode = cmds[i].mode
          /\ cmds'[i + 1].is_skip = cmds[i + 1].is_skip
          /\ cmds'[i + 1].name = "mov" /\ cmds'[i + 1].mode = cmds[i + 1].mode
      BY <2>1, <2>4, MergeFields DEF IrTypeOK
    <3>2. cmds[i].name = "push" /\ cmds[i + 1].mode = "reg"
      BY <2>4 DEF MergesAt, IsPushImm
    <3>3. i > 1 => Kept(i - 1)
      BY <2>2, <3>2
    <3>4. \A k \in i + 1 .. Len(cmds) :
              /\ cmds'[k].is_skip = FALSE
              /\ cmds'[k].mode = program[k].mode
              /\ cmds'[k].name = program[k].op \/ (k = i + 1 /\ cmds'[k].name = "mov")
      BY <1>0, <2>1, <2>2, <3>1 DEF Kept, IrTypeOK
    <3>5. \A k \in 1..Len(cmds) :
              /\ cmds'[k].name = "mov" => cmds'[k].mode = "reg"
              /\ cmds'[k].mode = "imm" => cmds[k].mode = "imm"
      BY <1>0, <2>1, <2>2, <3>1, <3>2
    <3>6. i > 1 => ~cmds'[i - 1].is_skip
      BY <1>0, <2>1, <3>1, <3>3 DEF Kept
    <3> QED
      BY <1>0, <2>1, <2>2, <2>4, <3>1, <3>4, <3>5, <3>6 DEF Ahead, Kept
  <2>5. CASE /\ phase' = "optimize" /\ i' = i + 1
             /\ i \in 3..Len(cmds) /\ FoldsAt(i) /\ cmds' = Folded(i)
             /\ cmds[i].name \in ArithOps
             /\ cmds[i - 1].value \in Number /\ cmds[i - 2].value \in Number
    <3>1. /\ Len(cmds') = Len(cmds)
          /\ \A m \in 1..Len(cmds) : m # i /\ m # i - 1 /\ m # i - 2 => cmds'[m] = cmds[m]
          /\ \A m \in {i - 1, i - 2} : cmds'[m].name = cmds[m].name /\ cmds'[m].mode = cmds[m].mode
          /\ cmds'[i].is_skip = cmds[i].is_skip
          /\ cmds'[i].name = "push" /\ cmds'[i].mode = "imm"
      BY <2>1, <2>5, FoldFields DEF IrTypeOK
    <3>2. IsArith(program, i) /\ IsImm(program, i - 1) /\ IsConst(program, i - 2)
      BY <2>1, <2>5, FoldsKept
    <3>3. ~cmds'[i].is_skip
      BY <2>1, <2>2, <3>1 DEF Kept
    <3>4. \A k \in i + 1 .. Len(cmds) :
              /\ Kept(k)'
              /\ cmds'[k].mode = program[k].mode
              /\ cmds'[k].name = program[k].op
      BY <1>0, <2>1, <2>2, <3>1 DEF Kept
    <3>5. \A k \in 1..Len(cmds) :
              /\ cmds'[k].name = "mov" => cmds'[k].mode = "reg"
              /\ k # i /\ cmds'[k].mode = "imm" => cmds[k].mode = "imm"
      <4>1. \A k \in 1..Len(cmds) : k = i \/ (cmds'[k].name = cmds[k].name /\ cmds'[k].mode = cmds[k].mode)
        BY <3>1
      <4>2. \A k \in 1..Len(cmds) : cmds[k].name = "mov" => cmds[k].mode = "reg"
        BY <2>2
      <4> QED
        BY <3>1, <4>1, <4>2
    <3> QED
      BY <1>0, <2>1, <2>2, <2>5, <3>1, <3>2, <3>3, <3>4, <3>5 DEF Ahead, Kept
  <2>6. CASE phase' = "optimize" /\ i' = i + 1 /\ cmds' = cmds
    <3>1. i + 1 > 2 /\ ~Kept(i - 1) => cmds[i].mode = "reg"
      BY <1>0, <2>1, <2>2
    <3> QED
      BY <1>0, <2>1, <2>2, <2>6, <3>1 DEF Ahead, Kept
  <2> QED
    BY <1>2, <2>3, <2>4, <2>5, <2>6, OptimizeCases
<1>3. CASE UNCHANGED vars
  BY <1>3 DEF vars, Ahead, Kept
<1>4. CASE OptimizeEnd \/ Place \/ PlaceEnd \/ FillJumpLables \/ Emit \/ EmitEnd \/ RunCommand
  <2>1. phase' # "optimize"
    BY <1>4 DEF OptimizeEnd, Place, PlaceEnd, FillJumpLables, Emit, EmitEnd, RunCommand, Begin
  <2> QED
    BY <2>1 DEF Ahead
<1> QED
  BY <1>1, <1>2, <1>3, <1>4 DEF Next

(***************************************************************************)
(* Gaps: the last kept command before k is one only.                       *)
(***************************************************************************)
LEMMA GapUnique ==
    ASSUME NEW k \in Nat, NEW j \in 0..k - 1, NEW m \in 0..k - 1, Gap(j, k), Gap(m, k)
    PROVE  j = m
<1>1. ~(j < m)
  BY DEF Gap, Kept
<1>2. ~(m < j)
  BY DEF Gap, Kept
<1> QED
  BY <1>1, <1>2

LEMMA GapOfKept ==
    ASSUME NEW k \in Nat \ {0}, Kept(k), NEW j \in 0..k, Gap(j, k + 1)
    PROVE  j = k
  BY DEF Gap, Kept

LEMMA GapSame ==
    ASSUME NEW k \in Nat, NEW j \in 0..k - 1, Gap(j, k),
           \A m \in 1..k - 1 : m >= j => cmds'[m].is_skip = cmds[m].is_skip
    PROVE  Gap(j, k)'
  BY DEF Gap, Kept

(***************************************************************************)
(* OptimizeCmdFlow keeps the bytes of a group together.                    *)
(***************************************************************************)
LEMMA GroupsSame ==
    ASSUME IrTypeOK, Groups, program' = program, SameShape
    PROVE  Groups'
<1>1. Len(cmds) \in Nat
  BY CmdsAre DEF IrTypeOK
<1> SUFFICES ASSUME NEW k \in 1..Len(cmds), Kept(k)'
             PROVE  \E j \in 0..k - 1 : Gap(j, k)' /\ cmds'[k].native_size = EndAt(k)' - EndAt(j)'
  BY DEF Groups, SameShape
<1>2. Kept(k)
  BY DEF Kept, SameShape
<1>3. PICK j \in 0..k - 1 : Gap(j, k) /\ cmds[k].native_size = EndAt(k) - EndAt(j)
  BY <1>2 DEF Groups
<1>4. Gap(j, k)'
  <2>1. k \in Nat /\ \A m \in 1..k - 1 : cmds'[m].is_skip = cmds[m].is_skip
    BY <1>1 DEF SameShape
  <2> QED
    BY <1>3, <2>1, GapSame
<1>5. EndAt(k)' = EndAt(k) /\ EndAt(j)' = EndAt(j)
  BY DEF EndAt
<1> QED
  BY <1>3, <1>4, <1>5 DEF SameShape

LEMMA GroupsParse ==
    ASSUME IrTypeOK, ParseOnStructs
    PROVE  Groups'
<1>1. /\ cmds' \in Seq(IrCommand) /\ Len(cmds') <= Len(program) /\ Len(cmds') \in Nat
      /\ \A k \in 1..Len(cmds') : cmds'[k] = Parsed(program[k])
      /\ Len(program) \in Nat /\ program' = program /\ Assembled(program)
  BY ParseProps, LenProperties DEF IrTypeOK, ParseOnStructs, Assembled
<1>2. \A k \in 1..Len(cmds') : cmds'[k].is_skip = FALSE /\ cmds'[k].native_size = Size(program[k].op)
  <2> TAKE k \in 1..Len(cmds')
  <2>1. cmds'[k] = Parsed(program[k])
    BY <1>1
  <2> QED
    BY <2>1 DEF Parsed
<1> SUFFICES ASSUME NEW k \in 1..Len(cmds')
             PROVE  \E j \in 0..k - 1 : Gap(j, k)' /\ cmds'[k].native_size = EndAt(k)' - EndAt(j)'
  BY DEF Groups
<1>3. Gap(k - 1, k)'
  BY <1>1, <1>2 DEF Gap, Kept
<1>4. EndAt(k)' = EndAt(k) /\ EndAt(k - 1)' = EndAt(k - 1)
  BY <1>1 DEF EndAt
<1>5. cmds'[k].native_size = EndAt(k) - EndAt(k - 1)
  <2>1. k \in 1..Len(program) /\ k - 1 \in 0..Len(program)
    BY <1>1
  <2>2. EndAt(k) = EndAt(k - 1) + Size(program[k].op) /\ EndAt(k - 1) \in Nat
    BY <1>1, <2>1, EndAtNext, EndAtNat
  <2> QED
    BY <1>2, <2>2, SizeNat
<1> QED
  BY <1>3, <1>4, <1>5

LEMMA GroupsMerge ==
    ASSUME IrTypeOK, Ahead, Groups, phase = "optimize", i \in 1..Len(cmds) - 1,
           cmds' = Merged(i), program' = program
    PROVE  Groups'
<1>0. /\ Len(cmds) \in Nat /\ Len(program) \in Nat /\ Len(cmds) <= Len(program)
      /\ \A j \in 0..Len(cmds) : EndAt(j) \in Nat /\ EndAt(j)' = EndAt(j)
  <2>1. Len(cmds) \in Nat /\ Len(program) \in Nat /\ Len(cmds) <= Len(program) /\ Assembled(program)
    BY CmdsAre, LenProperties DEF IrTypeOK, Assembled
  <2> QED
    BY <2>1, EndAtNat DEF EndAt
<1>1. /\ Len(cmds') = Len(cmds)
      /\ \A m \in 1..Len(cmds) : m # i /\ m # i + 1 => cmds'[m] = cmds[m]
      /\ cmds'[i].is_skip = TRUE
      /\ cmds'[i + 1].is_skip = cmds[i + 1].is_skip
      /\ cmds'[i + 1].native_size = cmds[i + 1].native_size + cmds[i].native_size
  BY MergeFields DEF IrTypeOK
<1>2. Kept(i) /\ Kept(i + 1)
  BY <1>0 DEF Ahead
<1> SUFFICES ASSUME NEW k \in 1..Len(cmds), Kept(k)'
             PROVE  \E j \in 0..k - 1 : Gap(j, k)' /\ cmds'[k].native_size = EndAt(k)' - EndAt(j)'
  BY <1>1 DEF Groups
<1>a. /\ \A m \in 1..Len(cmds) : m # i => cmds'[m].is_skip = cmds[m].is_skip
      /\ \A m \in 1..Len(cmds) : m # i /\ m # i + 1 => cmds'[m].native_size = cmds[m].native_size
  BY <1>0, <1>1
<1>4. k # i
  BY <1>1 DEF Kept
<1>5. CASE k = i + 1
  <2>1. PICK j \in 0..i - 1 : Gap(j, i) /\ cmds[i].native_size = EndAt(i) - EndAt(j)
    BY <1>0, <1>2 DEF Groups
  <2>2. PICK m \in 0..i : Gap(m, i + 1) /\ cmds[i + 1].native_size = EndAt(i + 1) - EndAt(m)
    <3>1. i + 1 \in 1..Len(cmds) /\ (i + 1) - 1 = i
      BY <1>0
    <3> QED
      BY <1>2, <3>1 DEF Groups
  <2>3. m = i
    <3>1. i \in Nat \ {0}
      BY <1>0
    <3> QED
      BY <1>2, <2>2, <3>1, GapOfKept
  <2>4. Gap(j, k)'
    <3>1. PICK n \in Nat : n = i
      BY <1>0
    <3>2. \A q \in 1..n - 1 : q >= j => cmds'[q].is_skip = cmds[q].is_skip
      BY <1>0, <1>a, <3>1
    <3>3. Gap(j, n)'
      BY <2>1, <3>1, <3>2, GapSame
    <3> QED
      BY <1>0, <1>1, <1>5, <3>1, <3>3 DEF Gap
  <2>5. cmds'[k].native_size = EndAt(k) - EndAt(j)
    BY <1>0, <1>1, <1>5, <2>1, <2>2, <2>3
  <2> QED
    BY <1>0, <1>5, <2>4, <2>5
<1>6. CASE k # i + 1
  <2>0. Kept(k)
    BY <1>a, <1>4 DEF Kept
  <2>1. PICK j \in 0..k - 1 : Gap(j, k) /\ cmds[k].native_size = EndAt(k) - EndAt(j)
    BY <2>0 DEF Groups
  <2>2. k > i => j > i
    <3>1. SUFFICES ASSUME k > i, j <= i PROVE FALSE
      BY <1>0
    <3>2. i + 1 \in j + 1 .. k - 1
      BY <1>0, <1>6, <3>1
    <3> QED
      BY <1>2, <2>1, <3>2 DEF Gap, Kept
  <2>3. \A m \in 1..k - 1 : m >= j => cmds'[m].is_skip = cmds[m].is_skip
    BY <1>0, <1>a, <1>4, <2>2
  <2>4. Gap(j, k)'
    <3>1. k \in Nat
      BY <1>0
    <3> QED
      BY <2>1, <2>3, <3>1, GapSame
  <2>5. cmds'[k].native_size = EndAt(k) - EndAt(j)
    BY <1>a, <1>4, <1>6, <2>1
  <2>6. EndAt(j)' = EndAt(j) /\ EndAt(k)' = EndAt(k)
    BY <1>0
  <2> QED
    BY <2>1, <2>4, <2>5, <2>6
<1> QED
  BY <1>5, <1>6

LEMMA GroupsFold ==
    ASSUME IrTypeOK, Ahead, Groups, NoRefold(program), phase = "optimize",
           i \in 3..Len(cmds), FoldsAt(i), cmds' = Folded(i), program' = program,
           cmds[i].name \in ArithOps,
           cmds[i - 1].value \in Number, cmds[i - 2].value \in Number
    PROVE  Groups'
<1>0. /\ Len(cmds) \in Nat /\ Len(program) \in Nat /\ Len(cmds) <= Len(program)
      /\ \A j \in 0..Len(cmds) : EndAt(j) \in Nat /\ EndAt(j)' = EndAt(j)
  <2>1. Len(cmds) \in Nat /\ Len(program) \in Nat /\ Len(cmds) <= Len(program) /\ Assembled(program)
    BY CmdsAre, LenProperties DEF IrTypeOK, Assembled
  <2> QED
    BY <2>1, EndAtNat DEF EndAt
<1>1. /\ Len(cmds') = Len(cmds)
      /\ \A m \in 1..Len(cmds) : m # i /\ m # i - 1 /\ m # i - 2 => cmds'[m] = cmds[m]
      /\ cmds'[i - 1].is_skip = TRUE /\ cmds'[i - 2].is_skip = TRUE
      /\ cmds'[i].is_skip = cmds[i].is_skip
      /\ cmds'[i].native_size = cmds[i].native_size + cmds[i - 1].native_size
                                                   + cmds[i - 2].native_size
  BY FoldFields DEF IrTypeOK
<1>2. Kept(i) /\ Kept(i - 1) /\ Kept(i - 2)
  BY FoldsKept
<1> SUFFICES ASSUME NEW k \in 1..Len(cmds), Kept(k)'
             PROVE  \E j \in 0..k - 1 : Gap(j, k)' /\ cmds'[k].native_size = EndAt(k)' - EndAt(j)'
  BY <1>1 DEF Groups
<1>a. /\ \A m \in 1..Len(cmds) : m # i - 1 /\ m # i - 2 => cmds'[m].is_skip = cmds[m].is_skip
      /\ \A m \in 1..Len(cmds) : m # i /\ m # i - 1 /\ m # i - 2 =>
             cmds'[m].native_size = cmds[m].native_size
  BY <1>0, <1>1
<1>4. k # i - 1 /\ k # i - 2
  BY <1>1 DEF Kept
<1>5. CASE k = i
  <2>1. PICK j \in 0..i - 3 : Gap(j, i - 2) /\ cmds[i - 2].native_size = EndAt(i - 2) - EndAt(j)
    <3>1. i - 2 \in 1..Len(cmds) /\ (i - 2) - 1 = i - 3
      BY <1>0
    <3> QED
      BY <1>2, <3>1 DEF Groups
  <2>2. PICK m \in 0..i - 2 : Gap(m, i - 1) /\ cmds[i - 1].native_size = EndAt(i - 1) - EndAt(m)
    <3>1. i - 1 \in 1..Len(cmds) /\ (i - 1) - 1 = i - 2
      BY <1>0
    <3> QED
      BY <1>2, <3>1 DEF Groups
  <2>3. PICK n \in 0..i - 1 : Gap(n, i) /\ cmds[i].native_size = EndAt(i) - EndAt(n)
    <3>1. i \in 1..Len(cmds)
      BY <1>5
    <3> QED
      BY <1>2, <3>1 DEF Groups
  <2>4. m = i - 2
    <3>1. i - 2 \in Nat \ {0} /\ (i - 2) + 1 = i - 1
      BY <1>0
    <3> QED
      BY <1>2, <2>2, <3>1, GapOfKept
  <2>5. n = i - 1
    <3>1. i - 1 \in Nat \ {0} /\ (i - 1) + 1 = i
      BY <1>0
    <3> QED
      BY <1>2, <2>3, <3>1, GapOfKept
  <2>6. Gap(j, k)'
    <3> PICK h \in Nat : h = i - 2
      BY <1>0
    <3>1. Gap(j, h)'
      <4>1. j \in 0..h - 1
        BY <1>0
      <4>2. \A q \in 1..h - 1 : q >= j => cmds'[q].is_skip = cmds[q].is_skip
        BY <1>0, <1>a
      <4> QED
        BY <2>1, <4>1, <4>2, GapSame
    <3>2. (j = 0 \/ Kept(j))' /\ \A q \in j + 1 .. h - 1 : cmds'[q].is_skip
      BY <3>1 DEF Gap
    <3>3. \A q \in j + 1 .. i - 1 : q \in j + 1 .. h - 1 \/ q = i - 1 \/ q = i - 2
      BY <1>0
    <3>4. \A q \in j + 1 .. i - 1 : cmds'[q].is_skip
      BY <1>1, <3>2, <3>3
    <3> QED
      BY <1>5, <3>2, <3>4 DEF Gap
  <2>7. cmds'[k].native_size = EndAt(k) - EndAt(j)
    <3>1. /\ EndAt(i) \in Nat /\ EndAt(i - 1) \in Nat /\ EndAt(i - 2) \in Nat /\ EndAt(j) \in Nat
      <4>1. {i, i - 1, i - 2, j} \subseteq 0..Len(cmds)
        BY <1>0
      <4> QED
        BY <1>0, <4>1
    <3> QED
      <4>1. /\ cmds[i - 2].native_size = EndAt(i - 2) - EndAt(j)
            /\ cmds[i - 1].native_size = EndAt(i - 1) - EndAt(i - 2)
            /\ cmds[i].native_size = EndAt(i) - EndAt(i - 1)
        BY <2>1, <2>2, <2>3, <2>4, <2>5
      <4> QED
        BY <1>1, <1>5, <3>1, <4>1
  <2>8. j \in 0..k - 1 /\ EndAt(j)' = EndAt(j) /\ EndAt(k)' = EndAt(k)
    BY <1>0, <1>5
  <2> QED
    BY <2>6, <2>7, <2>8
<1>6. CASE k # i
  <2>0. Kept(k)
    BY <1>a, <1>4 DEF Kept
  <2>1. PICK j \in 0..k - 1 : Gap(j, k) /\ cmds[k].native_size = EndAt(k) - EndAt(j)
    BY <2>0 DEF Groups
  <2>2. k > i => j >= i
    <3>1. SUFFICES ASSUME k > i, j < i PROVE FALSE
      BY <1>0
    <3>2. i \in j + 1 .. k - 1
      BY <1>0, <3>1
    <3> QED
      BY <1>2, <2>1, <3>2 DEF Gap, Kept
  <2>3. \A m \in 1..k - 1 : m >= j => cmds'[m].is_skip = cmds[m].is_skip
    BY <1>0, <1>a, <1>4, <1>6, <2>2
  <2>4. Gap(j, k)'
    BY <1>0, <2>1, <2>3, GapSame
  <2>5. cmds'[k].native_size = EndAt(k) - EndAt(j)
    BY <1>a, <1>4, <1>6, <2>1
  <2>6. EndAt(j)' = EndAt(j) /\ EndAt(k)' = EndAt(k)
    BY <1>0
  <2> QED
    BY <2>1, <2>4, <2>5, <2>6
<1> QED
  BY <1>5, <1>6

LEMMA GroupsStep ==
    ASSUME IrTypeOK, Ahead, Groups, NoRefold(program), [Next]_vars
    PROVE  Groups'
<1>1. CASE ParseOnStructs
  BY <1>1, GroupsParse
<1>2. CASE OptimizeStep
  <2>1. CASE cmds' = cmds
    BY <1>2, <2>1, GroupsSame, OptimizeCases DEF SameShape
  <2> QED
    BY <1>2, <2>1, GroupsMerge, GroupsFold, OptimizeCases
<1>3. CASE Place
  <2>1. SameShape /\ program' = program
    BY <1>3, PlaceProps DEF Place
  <2> QED
    BY <2>1, GroupsSame
<1>4. CASE FillJumpLables
  <2>1. SameShape /\ program' = program
    BY <1>4, LinkProps DEF FillJumpLables
  <2> QED
    BY <2>1, GroupsSame
<1>5. CASE Emit
  <2>1. SameShape /\ program' = program
    BY <1>5, EmitProps DEF Emit
  <2> QED
    BY <2>1, GroupsSame
<1>6. CASE OptimizeEnd \/ PlaceEnd \/ EmitEnd \/ RunCommand \/ UNCHANGED vars
  <2>1. cmds' = cmds /\ program' = program
    BY <1>6 DEF OptimizeEnd, PlaceEnd, EmitEnd, RunCommand, vars
  <2> QED
    BY <2>1, GroupsSame DEF SameShape
<1> QED
  BY <1>1, <1>2, <1>3, <1>4, <1>5, <1>6 DEF Next

(***************************************************************************)
(* FillCmdIp: the counter stands at the end of the last kept command.      *)
(***************************************************************************)
LEMMA LabelsPlace ==
    ASSUME IrTypeOK, Groups, Labels, Place
    PROVE  Labels'
<1>0. /\ Len(cmds) \in Nat /\ i \in 1..Len(cmds) /\ phase = "place" /\ phase' = "place"
      /\ i' = i + 1 /\ program' = program /\ Assembled(program) /\ Len(program) \in Nat
      /\ Len(cmds) <= Len(program)
  BY CmdsAre, LenProperties DEF IrTypeOK, Place, Assembled
<1>1. /\ Len(cmds') = Len(cmds)
      /\ \A k \in 1..Len(cmds) : /\ cmds'[k].is_skip = cmds[k].is_skip
                                 /\ cmds'[k].native_size = cmds[k].native_size
      /\ \A k \in 1..Len(cmds) : k # i => cmds'[k] = cmds[k]
  BY PlaceProps DEF SameShape
<1>2. PICK j \in 0..i - 1 : Gap(j, i) /\ native_ip = EndAt(j)
  BY <1>0 DEF Labels
<1> PICK n \in Nat : n = i
  BY <1>0
<1>3. \A m \in 0..Len(cmds) : EndAt(m) \in Nat /\ EndAt(m)' = EndAt(m)
  BY <1>0, EndAtNat DEF EndAt
<1>4. CASE ~Kept(i)
  <2>1. native_ip' = native_ip /\ cmds' = cmds
    BY <1>4, PlaceProps DEF Place, Kept
  <2>2. Gap(j, n + 1)'
    BY <1>0, <1>2, <1>4, <2>1 DEF Gap, Kept
  <2>3. \E m \in 0..i' - 1 : (Gap(m, i) /\ native_ip = EndAt(m))'
    BY <1>0, <1>2, <1>3, <2>1, <2>2
  <2>4. LabelsAgree'
    BY <1>0, <1>4, <2>1 DEF Labels, LabelsAgree, Done, Kept
  <2> QED
    BY <2>3, <2>4 DEF Labels
<1>5. CASE Kept(i)
  <2>1. native_ip' = native_ip + cmds[i].native_size /\ cmds'[i].native_ip = native_ip
    BY <1>5, PlaceProps DEF Place, Kept
  <2>2. PICK m \in 0..i - 1 : Gap(m, i) /\ cmds[i].native_size = EndAt(i) - EndAt(m)
    BY <1>0, <1>5 DEF Groups
  <2>3. j = m
    BY <1>0, <1>2, <2>2, GapUnique
  <2>4. native_ip + cmds[i].native_size = EndAt(i)
    BY <1>0, <1>2, <1>3, <2>2, <2>3
  <2>5. Gap(n, n + 1)'
    BY <1>0, <1>1, <1>5 DEF Gap, Kept
  <2>6. \E q \in 0..i' - 1 : (Gap(q, i) /\ native_ip = EndAt(q))'
    BY <1>0, <1>3, <2>1, <2>4, <2>5
  <2>7. LabelsAgree'
    <3> SUFFICES ASSUME NEW k \in 1..Len(cmds), ~cmds[k].is_skip, k < i + 1
                 PROVE  cmds'[k].native_ip + cmds'[k].native_size = program[k].at + Size(program[k].op)
      BY <1>0, <1>1 DEF LabelsAgree, Done
    <3>1. CASE k = i
      <4>1. EndAt(k) = program[k].at + Size(program[k].op)
        BY DEF EndAt
      <4> QED
        BY <1>1, <2>1, <2>4, <3>1, <4>1
    <3>2. CASE k < i
      <4>1. cmds[k].native_ip + cmds[k].native_size = program[k].at + Size(program[k].op)
        BY <1>0, <3>2 DEF Labels, LabelsAgree, Done
      <4> QED
        BY <1>1, <3>2, <4>1
    <3> QED
      BY <1>0, <3>1, <3>2
  <2> QED
    BY <2>6, <2>7 DEF Labels
<1> QED
  BY <1>4, <1>5

LEMMA LabelsStep ==
    ASSUME IrTypeOK, Groups, Labels, [Next]_vars
    PROVE  Labels'
<1>0. Len(cmds) \in Nat /\ i \in Nat \ {0} /\ program' = program
  BY CmdsAre, IrTypeStep DEF IrTypeOK
<1>1. CASE ParseOnStructs
  BY <1>1 DEF ParseOnStructs, Begin, Labels, LabelsAgree, Done
<1>2. CASE OptimizeStep
  <2>1. phase' \in {"optimize", "crashed"}
    BY <1>2 DEF OptimizeStep
  <2> QED
    BY <2>1 DEF Labels, LabelsAgree, Done
<1>3. CASE OptimizeEnd
  <2>1. phase' = "place" /\ i' = 1 /\ native_ip' = ServiceDataLen /\ cmds' = cmds
    BY <1>3 DEF OptimizeEnd, Begin
  <2>2. Gap(0, 1)' /\ EndAt(0)' = ServiceDataLen
    BY DEF Gap, EndAt
  <2>3. \E j \in 0..i' - 1 : (Gap(j, i) /\ native_ip = EndAt(j))'
    BY <2>1, <2>2
  <2> QED
    BY <1>0, <2>1, <2>3 DEF Labels, LabelsAgree, Done
<1>4. CASE Place
  BY <1>4, LabelsPlace
<1>5. CASE PlaceEnd
  <2>1. /\ phase = "place" /\ i > Len(cmds) /\ phase' = "link" /\ cmds' = cmds
    BY <1>5 DEF PlaceEnd, Begin
  <2> QED
    <3>1. \A k \in 1..Len(cmds) : Done("place", {"link", "emit", "run"}, k)' => Done("place", {"link", "emit", "run"}, k)
      BY <1>0, <2>1 DEF Done
    <3>2. LabelsAgree'
      BY <1>0, <2>1, <3>1 DEF Labels, LabelsAgree
    <3> QED
      BY <2>1, <3>2 DEF Labels
<1>6. CASE FillJumpLables
  <2>1. phase = "link" /\ phase' = "emit"
    BY <1>6 DEF FillJumpLables, Begin
  <2>2. /\ Len(cmds') = Len(cmds)
        /\ \A k \in 1..Len(cmds) : /\ cmds'[k].is_skip = cmds[k].is_skip
                                   /\ cmds'[k].native_size = cmds[k].native_size
                                   /\ cmds'[k].native_ip = cmds[k].native_ip
    BY <1>6, LinkProps DEF SameShape
  <2> QED
    BY <1>0, <2>1, <2>2 DEF Labels, LabelsAgree, Done
<1>7. CASE Emit
  <2>1. phase = "emit" /\ phase' = "emit"
    BY <1>7 DEF Emit
  <2>2. /\ Len(cmds') = Len(cmds)
        /\ \A k \in 1..Len(cmds) : /\ cmds'[k].is_skip = cmds[k].is_skip
                                   /\ cmds'[k].native_size = cmds[k].native_size
                                   /\ cmds'[k].native_ip = cmds[k].native_ip
    BY <1>7, EmitProps DEF SameShape
  <2> QED
    BY <1>0, <2>1, <2>2 DEF Labels, LabelsAgree, Done
<1>8. CASE EmitEnd \/ RunCommand
  <2>1. phase \in {"emit", "run"} /\ phase' = "run" /\ cmds' = cmds
    BY <1>8 DEF EmitEnd, RunCommand, Begin
  <2> QED
    BY <1>0, <2>1 DEF Labels, LabelsAgree, Done
<1>9. CASE UNCHANGED vars
  BY <1>9 DEF vars, Labels, LabelsAgree, Done, Gap, Kept, EndAt
<1> QED
  BY <1>1, <1>2, <1>3, <1>4, <1>5, <1>6, <1>7, <1>8, <1>9 DEF Next

(* FillCmdIp gives every kept command the guest address its group ends at: *)
(* for every assembled program whose folds do not overlap, whatever        *)
(* OptimizeCmdFlow folds and merges.                                       *)
THEOREM LabelsCorrect ==
    Spec /\ Assembled(program) /\ NoRefold(program) /\ AllTranslated(program) => []LabelsAgree
<1> DEFINE Inv == LabelsInv /\ NoRefold(program) /\ AllTranslated(program)
<1>1. Init /\ Assembled(program) /\ NoRefold(program) /\ AllTranslated(program) => Inv
  <2> SUFFICES ASSUME Init, Assembled(program), NoRefold(program), AllTranslated(program)
               PROVE  LabelsInv
    OBVIOUS
  <2>1. IrTypeOK /\ phase = "parse" /\ Len(cmds) = 0
    BY IrTypeInit, EmptySeq DEF Init
  <2> QED
    BY <2>1 DEF LabelsInv, Ahead, Groups, Labels, LabelsAgree, Done
<1>2. Inv /\ [Next]_vars => Inv'
  <2> SUFFICES ASSUME Inv, [Next]_vars
               PROVE  Inv'
    OBVIOUS
  <2>1. IrTypeOK' /\ program' = program
    BY IrTypeStep DEF LabelsInv
  <2>2. Ahead' /\ Groups' /\ Labels'
    BY AheadStep, GroupsStep, LabelsStep DEF LabelsInv
  <2>3. NoRefold(program)' /\ AllTranslated(program)'
    BY <2>1 DEF NoRefold, AllTranslated, IsArith, IsImm, IsConst
  <2> QED
    BY <2>1, <2>2, <2>3 DEF LabelsInv
<1>3. Inv => LabelsAgree
  BY DEF LabelsInv, Labels
<1> QED
  BY <1>1, <1>2, <1>3, PTL DEF Spec

-----------------------------------------------------------------------------
(***************************************************************************)
(* The table of parser.h agrees with what the translation units write.     *)
(***************************************************************************)
LEMMA EmittedSame ==
    ASSUME NEW c, NEW d, c.name = d.name, c.mode = d.mode
    PROVE  Emitted(c) = Emitted(d)
  BY DEF Emitted, EmittedPushPop

LEMMA TableAgrees ==
    ASSUME NEW c \in Command, c.op \in TranslatedOps, c.op = "pop" => c.mode # "imm"
    PROVE  Parsed(c).x86_size = Emitted(Parsed(c))
<1>1. /\ Parsed(c).name = c.op /\ Parsed(c).mode = c.mode /\ Parsed(c).x86_size = X86Size(c)
  BY DEF Parsed
<1> SUFFICES ASSUME NEW d, d.name = c.op, d.mode = c.mode
             PROVE  X86Size(c) = Emitted(d)
  BY <1>1
<1> USE DEF LoadXmm0, StoreXmm0, AddRsp, Ptr, RegToRsi, PushImmSize,
            ArithOps, CondOps, JumpOps, PlainOps, TranslatedOps
<1>2. CASE c.op \in {"push", "pop"}
  <2>1. Emitted(d) = EmittedPushPop(d)
    BY <1>2 DEF Emitted
  <2>2. c.mode \in Modes
    BY DEF Command
  <2>3. CASE c.mode = "imm"
    <3>1. c.op = "push"
      BY <1>2, <2>3
    <3>2. X86Size(c) = 11
      BY <2>3, <3>1 DEF X86Size
    <3>3. EmittedPushPop(d) = 11
      BY <2>3 DEF EmittedPushPop
    <3> QED
      BY <2>1, <3>2, <3>3
  <2>4. CASE c.mode = "reg"
    BY <1>2, <2>1, <2>4 DEF X86Size, EmittedPushPop
  <2>5. CASE c.mode = "imm_ram"
    BY <1>2, <2>1, <2>5 DEF X86Size, EmittedPushPop
  <2>6. CASE c.mode \in {"reg_ram", "imm_reg_ram"}
    BY <1>2, <2>1, <2>6 DEF X86Size, EmittedPushPop
  <2>7. CASE c.mode \in {"none", "imm_reg"}
    BY <1>2, <2>1, <2>7 DEF X86Size, EmittedPushPop
  <2> QED
    BY <2>2, <2>3, <2>4, <2>5, <2>6, <2>7 DEF Modes
<1>3. CASE c.op \in ArithOps
  BY <1>3 DEF X86Size, Emitted
<1>4. CASE c.op \in CondOps
  BY <1>4 DEF X86Size, Emitted
<1>5. CASE c.op \in {"jmp", "call", "hlt", "out", "in", "ret", "sqr"}
  BY <1>5 DEF X86Size, Emitted
<1> QED
  BY <1>2, <1>3, <1>4, <1>5

LEMMA SizesSame ==
    ASSUME Sizes, SameShape
    PROVE  Sizes'
<1> SUFFICES ASSUME NEW k \in 1..Len(cmds)
             PROVE  cmds'[k].x86_size = Emitted(cmds'[k])
  BY DEF Sizes, SameShape
<1>1. cmds[k].x86_size = Emitted(cmds[k])
  BY DEF Sizes
<1>2. /\ cmds'[k].name = cmds[k].name /\ cmds'[k].mode = cmds[k].mode
      /\ cmds'[k].x86_size = cmds[k].x86_size
  BY DEF SameShape
<1> QED
  BY <1>1, <1>2, EmittedSame

LEMMA SizesStep ==
    ASSUME IrTypeOK, AllTranslated(program), Sizes, [Next]_vars
    PROVE  Sizes'
<1>0. Len(cmds) \in Nat /\ Len(program) \in Nat
  BY CmdsAre, LenProperties DEF IrTypeOK, Assembled
<1>1. CASE ParseOnStructs
  <2>1. /\ Len(cmds') <= Len(program) /\ Len(cmds') \in Nat
        /\ \A k \in 1..Len(cmds') : cmds'[k] = Parsed(program[k]) /\ program[k] \in Command
    BY <1>1, ParseProps, LenProperties DEF IrTypeOK
  <2> SUFFICES ASSUME NEW k \in 1..Len(cmds')
               PROVE  cmds'[k].x86_size = Emitted(cmds'[k])
    BY DEF Sizes
  <2>2. k \in 1..Len(program)
    BY <1>0, <2>1
  <2>3. program[k].op \in TranslatedOps /\ (program[k].op = "pop" => program[k].mode # "imm")
    BY <2>2 DEF AllTranslated
  <2> QED
    BY <2>1, <2>3, TableAgrees
<1>2. CASE OptimizeStep
  <2>1. i \in 1..Len(cmds) - 1
    BY <1>2, OptimizeCases
  <2>2. CASE cmds' = cmds
    BY <2>2 DEF Sizes
  <2>3. CASE MergesAt(i) /\ cmds' = Merged(i)
    <3>1. /\ Len(cmds') = Len(cmds)
          /\ \A m \in 1..Len(cmds) : m # i /\ m # i + 1 => cmds'[m] = cmds[m]
          /\ cmds'[i].name = cmds[i].name /\ cmds'[i].mode = cmds[i].mode
          /\ cmds'[i].x86_size = cmds[i].x86_size
          /\ cmds'[i + 1].name = "mov" /\ cmds'[i + 1].x86_size = MovRegNumSize
      BY <2>1, <2>3, MergeFields DEF IrTypeOK
    <3> SUFFICES ASSUME NEW k \in 1..Len(cmds)
                 PROVE  cmds'[k].x86_size = Emitted(cmds'[k])
      BY <3>1 DEF Sizes
    <3>2. CASE k # i /\ k # i + 1
      BY <3>1, <3>2 DEF Sizes
    <3>3. CASE k = i
      BY <3>1, <3>3, EmittedSame DEF Sizes
    <3>4. CASE k = i + 1
      <4>1. \A c : c.name = "mov" => Emitted(c) = 10
        BY DEF Emitted, ArithOps, CondOps
      <4> QED
        BY <3>1, <3>4, <4>1 DEF MovRegNumSize
    <3> QED
      BY <3>2, <3>3, <3>4
  <2>4. CASE /\ i \in 3..Len(cmds) /\ FoldsAt(i) /\ cmds' = Folded(i)
             /\ cmds[i].name \in ArithOps
             /\ cmds[i - 1].value \in Number /\ cmds[i - 2].value \in Number
    <3>1. /\ Len(cmds') = Len(cmds)
          /\ \A m \in 1..Len(cmds) : m # i /\ m # i - 1 /\ m # i - 2 => cmds'[m] = cmds[m]
          /\ \A m \in {i - 1, i - 2} : /\ cmds'[m].name = cmds[m].name
                                       /\ cmds'[m].mode = cmds[m].mode
                                       /\ cmds'[m].x86_size = cmds[m].x86_size
          /\ cmds'[i].name = "push" /\ cmds'[i].mode = "imm"
          /\ cmds'[i].x86_size = PushImmSize
      BY <2>4, FoldFields DEF IrTypeOK
    <3> SUFFICES ASSUME NEW k \in 1..Len(cmds)
                 PROVE  cmds'[k].x86_size = Emitted(cmds'[k])
      BY <3>1 DEF Sizes
    <3>2. CASE k # i /\ k # i - 1 /\ k # i - 2
      BY <3>1, <3>2 DEF Sizes
    <3>3. CASE k \in {i - 1, i - 2}
      BY <3>1, <3>3, EmittedSame DEF Sizes
    <3>4. CASE k = i
      <4>1. \A c : c.name = "push" /\ c.mode = "imm" => Emitted(c) = 11
        BY DEF Emitted, EmittedPushPop, ArithOps, CondOps
      <4> QED
        BY <3>1, <3>4, <4>1 DEF PushImmSize
    <3> QED
      BY <3>2, <3>3, <3>4
  <2> QED
    BY <1>2, <2>2, <2>3, <2>4, OptimizeCases
<1>3. CASE Place
  BY <1>3, PlaceProps, SizesSame
<1>4. CASE FillJumpLables
  BY <1>4, LinkProps, SizesSame
<1>5. CASE Emit
  BY <1>5, EmitProps, SizesSame
<1>6. CASE OptimizeEnd \/ PlaceEnd \/ EmitEnd \/ RunCommand \/ UNCHANGED vars
  BY <1>6 DEF OptimizeEnd, PlaceEnd, EmitEnd, RunCommand, vars, Sizes
<1> QED
  BY <1>1, <1>2, <1>3, <1>4, <1>5, <1>6 DEF Next

(***************************************************************************)
(* FillCmdIp's account of the code, and StartTranslation following it.     *)
(***************************************************************************)
LEMMA CodeEndSame ==
    ASSUME NEW j \in 0..Len(cmds), SameShape, j > 0 => cmds'[j].x86_ip = cmds[j].x86_ip
    PROVE  CodeEnd(j)' = CodeEnd(j)
  BY DEF CodeEnd, SameShape

LEMMA CodePlace ==
    ASSUME IrTypeOK, Chain, Counted, Place
    PROVE  Chain' /\ Counted'
<1>0. /\ Len(cmds) \in Nat /\ i \in 1..Len(cmds) /\ phase = "place" /\ phase' = "place"
      /\ i' = i + 1
  BY CmdsAre DEF IrTypeOK, Place
<1>1. /\ SameShape /\ Len(cmds') = Len(cmds)
      /\ \A k \in 1..Len(cmds) : cmds'[k].is_skip = cmds[k].is_skip
      /\ \A k \in 1..Len(cmds) : k # i => cmds'[k].x86_ip = cmds[k].x86_ip
  BY PlaceProps DEF SameShape
<1>2. PICK j \in 0..i - 1 : Gap(j, i) /\ x86_ip = CodeEnd(j)
  BY <1>0 DEF Counted
<1> PICK n \in Nat : n = i
  BY <1>0
<1>3. \A m \in 0..i - 1 : CodeEnd(m)' = CodeEnd(m)
  BY <1>0, <1>1, CodeEndSame
<1>4. \A k \in 1..Len(cmds) : \A m \in 0..k - 1 : Gap(m, k) => Gap(m, k)'
  <2> TAKE k \in 1..Len(cmds)
  <2> TAKE m \in 0..k - 1
  <2> HAVE Gap(m, k)
  <2>1. k \in Nat /\ \A q \in 1..k - 1 : q >= m => cmds'[q].is_skip = cmds[q].is_skip
    BY <1>0, <1>1
  <2> QED
    BY <2>1, GapSame
<1>5. ASSUME NEW k \in 1..Len(cmds), Kept(k)', k < i
      PROVE  \E m \in 0..k - 1 : Gap(m, k)' /\ cmds'[k].x86_ip = CodeEnd(m)'
  <2>1. PICK m \in 0..k - 1 : Gap(m, k) /\ cmds[k].x86_ip = CodeEnd(m)
    BY <1>0, <1>1, <1>5 DEF Chain, Done, Kept
  <2> QED
    BY <1>0, <1>1, <1>3, <1>4, <1>5, <2>1
<1>6. CASE ~Kept(i)
  <2>1. x86_ip' = x86_ip /\ cmds' = cmds
    BY <1>6, PlaceProps DEF Place, Kept
  <2>2. Gap(j, n + 1)'
    BY <1>0, <1>2, <1>6, <2>1 DEF Gap, Kept
  <2>3. \E m \in 0..i' - 1 : (Gap(m, i) /\ x86_ip = CodeEnd(m))'
    BY <1>0, <1>2, <1>3, <2>1, <2>2
  <2>4. Chain'
    BY <1>0, <1>1, <1>5, <1>6, <2>1 DEF Chain, Done, Kept
  <2> QED
    BY <1>0, <2>3, <2>4 DEF Counted
<1>7. CASE Kept(i)
  <2>1. x86_ip' = x86_ip + cmds[i].x86_size /\ cmds'[i].x86_ip = x86_ip
    BY <1>7, PlaceProps DEF Place, Kept
  <2>2. Gap(n, n + 1)'
    BY <1>0, <1>1, <1>7 DEF Gap, Kept
  <2>3. CodeEnd(n)' = x86_ip'
    BY <1>0, <1>1, <2>1 DEF CodeEnd, SameShape
  <2>4. \E m \in 0..i' - 1 : (Gap(m, i) /\ x86_ip = CodeEnd(m))'
    BY <1>0, <2>2, <2>3
  <2>5. \E m \in 0..n - 1 : Gap(m, n)' /\ cmds'[n].x86_ip = CodeEnd(m)'
    BY <1>0, <1>2, <1>3, <1>4, <2>1
  <2>6. Chain'
    <3> SUFFICES ASSUME NEW k \in 1..Len(cmds), Kept(k)', k < i + 1
                 PROVE  \E m \in 0..k - 1 : Gap(m, k)' /\ cmds'[k].x86_ip = CodeEnd(m)'
      BY <1>0, <1>1 DEF Chain, Done
    <3>1. CASE k = n
      BY <2>5, <3>1
    <3>2. CASE k < i
      BY <1>5, <3>2
    <3> QED
      BY <1>0, <3>1, <3>2
  <2> QED
    BY <1>0, <2>4, <2>6 DEF Counted
<1> QED
  BY <1>6, <1>7

\* Once placed, nothing moves any more.
LEMMA CodeSame ==
    ASSUME IrTypeOK, Chain, Counted, SameShape, x86_ip' = x86_ip,
           \A k \in 1..Len(cmds) : cmds'[k].x86_ip = cmds[k].x86_ip,
           phase \in {"link", "emit", "run"}, phase' \in {"link", "emit", "run"}
    PROVE  /\ Chain' /\ Counted'
           /\ \A k \in 1..Len(cmds) + 1, j \in 0..Len(cmds) : j < k /\ Gap(j, k) => Gap(j, k)'
           /\ \A j \in 0..Len(cmds) : CodeEnd(j)' = CodeEnd(j)
<1>0. Len(cmds) \in Nat /\ Len(cmds') = Len(cmds)
  BY CmdsAre DEF IrTypeOK, SameShape
<1>1. \A j \in 0..Len(cmds) : CodeEnd(j)' = CodeEnd(j)
  BY <1>0, CodeEndSame
<1>2. ASSUME NEW k \in 1..Len(cmds) + 1, NEW j \in 0..Len(cmds), j < k, Gap(j, k)
      PROVE  Gap(j, k)'
  <2>1. \A m \in 1..k - 1 : cmds'[m].is_skip = cmds[m].is_skip
    BY <1>0 DEF SameShape
  <2>2. k \in Nat /\ j \in 0..k - 1
    BY <1>0, <1>2
  <2> QED
    BY <1>2, <2>1, <2>2, GapSame
<1>3. Chain'
  <2> SUFFICES ASSUME NEW k \in 1..Len(cmds), Kept(k)'
               PROVE  \E m \in 0..k - 1 : Gap(m, k)' /\ cmds'[k].x86_ip = CodeEnd(m)'
    BY <1>0 DEF Chain
  <2>1. Kept(k)
    BY DEF Kept, SameShape
  <2>2. PICK m \in 0..k - 1 : Gap(m, k) /\ cmds[k].x86_ip = CodeEnd(m)
    BY <2>1 DEF Chain, Done
  <2> QED
    BY <1>0, <1>1, <1>2, <2>2
<1>4. Counted'
  <2> PICK n \in Nat : n = Len(cmds)
    BY <1>0
  <2>1. PICK j \in 0..Len(cmds) : Gap(j, n + 1) /\ x86_ip = CodeEnd(j)
    BY DEF Counted
  <2>2. Gap(j, n + 1)' /\ x86_ip' = CodeEnd(j)'
    BY <1>0, <1>1, <1>2, <2>1
  <2> QED
    BY <1>0, <2>2 DEF Counted
<1> QED
  BY <1>1, <1>2, <1>3, <1>4

LEMMA WrittenEmit ==
    ASSUME IrTypeOK, Sizes, Chain, Counted, Written, Emit
    PROVE  Chain' /\ Counted' /\ Written'
<1>0. /\ Len(cmds) \in Nat /\ i \in 1..Len(cmds) /\ phase = "emit" /\ phase' = "emit"
      /\ i' = i + 1 /\ x86_ip' = x86_ip
  BY CmdsAre DEF IrTypeOK, Emit
<1>1. /\ SameShape /\ Len(cmds') = Len(cmds)
      /\ \A k \in 1..Len(cmds) : cmds'[k].is_skip = cmds[k].is_skip
      /\ \A k \in 1..Len(cmds) : cmds'[k].x86_ip = cmds[k].x86_ip
      /\ \A k \in 1..Len(cmds) : k # i => cmds'[k].pos = cmds[k].pos
  BY EmitProps DEF SameShape
<1>2. /\ Chain' /\ Counted'
      /\ \A k \in 1..Len(cmds) + 1, j \in 0..Len(cmds) : j < k /\ Gap(j, k) => Gap(j, k)'
      /\ \A j \in 0..Len(cmds) : CodeEnd(j)' = CodeEnd(j)
  BY <1>0, <1>1, CodeSame
<1>3. PICK j \in 0..i - 1 : Gap(j, i) /\ len = CodeEnd(j)
  BY <1>0 DEF Written
<1> PICK n \in Nat : n = i
  BY <1>0
<1>4. \A k \in 1..Len(cmds) : Kept(k) /\ k < i => cmds'[k].pos = cmds'[k].x86_ip
  BY <1>0, <1>1 DEF Written, CodeAgrees, Done, Kept
<1>5. CASE ~Kept(i)
  <2>1. len' = len /\ cmds' = cmds
    BY <1>5, EmitProps DEF Emit, Kept
  <2>2. Gap(j, n + 1)'
    BY <1>0, <1>3, <1>5, <2>1 DEF Gap, Kept
  <2>3. \E m \in 0..i' - 1 : (Gap(m, i) /\ len = CodeEnd(m))'
    BY <1>0, <1>2, <1>3, <2>1, <2>2
  <2>4. CodeAgrees'
    <3> SUFFICES ASSUME NEW k \in 1..Len(cmds), Kept(k), k < i + 1
                 PROVE  cmds'[k].pos = cmds'[k].x86_ip
      BY <1>0, <1>1 DEF CodeAgrees, Done, Kept
    <3>1. k < i
      BY <1>0, <1>5
    <3> QED
      BY <1>4, <3>1
  <2> QED
    BY <1>0, <1>2, <2>3, <2>4 DEF Written
<1>6. CASE Kept(i)
  <2>1. len' = len + Emitted(cmds[i]) /\ cmds'[i].pos = len
    BY <1>6, EmitProps DEF Emit, Kept
  <2>2. PICK m \in 0..i - 1 : Gap(m, i) /\ cmds[i].x86_ip = CodeEnd(m)
    BY <1>0, <1>6 DEF Chain, Done
  <2>3. j = m
    BY <1>0, <1>3, <2>2, GapUnique
  <2>4. cmds'[i].pos = cmds'[i].x86_ip
    BY <1>0, <1>1, <1>3, <2>1, <2>2, <2>3
  <2>5. CodeEnd(n) = len'
    BY <1>0, <1>3, <2>1, <2>2, <2>3 DEF CodeEnd, Sizes
  <2>6. Gap(n, n + 1)'
    BY <1>0, <1>1, <1>6 DEF Gap, Kept
  <2>7. \E q \in 0..i' - 1 : (Gap(q, i) /\ len = CodeEnd(q))'
    BY <1>0, <1>2, <2>5, <2>6
  <2>8. CodeAgrees'
    BY <1>0, <1>1, <1>4, <2>4 DEF CodeAgrees, Done, Kept
  <2> QED
    BY <1>0, <1>2, <2>7, <2>8 DEF Written
<1> QED
  BY <1>5, <1>6

LEMMA CodeStep ==
    ASSUME IrTypeOK, Sizes, Chain, Counted, Written, [Next]_vars
    PROVE  Chain' /\ Counted' /\ Written'
<1>0. Len(cmds) \in Nat /\ i \in Nat \ {0}
  BY CmdsAre DEF IrTypeOK
<1>1. CASE ParseOnStructs \/ OptimizeStep
  <2>1. phase' \in {"optimize", "crashed"}
    BY <1>1 DEF ParseOnStructs, OptimizeStep, Begin
  <2> QED
    BY <2>1 DEF Chain, Counted, Written, CodeAgrees, Done
<1>2. CASE OptimizeEnd
  <2>1. /\ phase' = "place" /\ i' = 1 /\ x86_ip' = 0 /\ cmds' = cmds
    BY <1>2 DEF OptimizeEnd, Begin, IrTypeOK
  <2>2. Gap(0, 1)' /\ CodeEnd(0)' = 0
    BY DEF Gap, CodeEnd
  <2>3. \E j \in 0..i' - 1 : (Gap(j, i) /\ x86_ip = CodeEnd(j))'
    BY <2>1, <2>2
  <2> QED
    BY <1>0, <2>1, <2>3 DEF Chain, Counted, Written, CodeAgrees, Done
<1>3. CASE Place
  <2>1. Chain' /\ Counted'
    BY <1>3, CodePlace
  <2>2. phase' = "place"
    BY <1>3 DEF Place
  <2> QED
    BY <2>1, <2>2 DEF Written, CodeAgrees, Done
<1>4. CASE PlaceEnd
  <2>1. /\ phase = "place" /\ phase' = "link" /\ cmds' = cmds /\ x86_ip' = x86_ip
        /\ i = Len(cmds) + 1
    BY <1>0, <1>4 DEF PlaceEnd, Begin, IrTypeOK
  <2> PICK n \in Nat : n = Len(cmds)
    BY <1>0
  <2>2. PICK j \in 0..n : Gap(j, n + 1) /\ x86_ip = CodeEnd(j)
    BY <1>0, <2>1 DEF Counted
  <2>3. Gap(j, n + 1)' /\ CodeEnd(j)' = CodeEnd(j)
    BY <2>1, <2>2 DEF Gap, Kept, CodeEnd
  <2>4. Counted'
    BY <2>1, <2>2, <2>3 DEF Counted
  <2>5. Chain'
    <3> SUFFICES ASSUME NEW k \in 1..Len(cmds), Kept(k)
                 PROVE  \E m \in 0..k - 1 : Gap(m, k)' /\ cmds'[k].x86_ip = CodeEnd(m)'
      BY <2>1 DEF Chain, Kept
    <3>1. PICK m \in 0..k - 1 : Gap(m, k) /\ cmds[k].x86_ip = CodeEnd(m)
      BY <1>0, <2>1 DEF Chain, Done
    <3>2. Gap(m, k)' /\ CodeEnd(m)' = CodeEnd(m)
      BY <2>1, <3>1 DEF Gap, Kept, CodeEnd
    <3> QED
      BY <2>1, <3>1, <3>2
  <2> QED
    BY <2>1, <2>4, <2>5 DEF Written, CodeAgrees, Done
<1>5. CASE FillJumpLables
  <2>1. /\ phase = "link" /\ phase' = "emit" /\ i' = 1 /\ len' = 0 /\ x86_ip' = x86_ip
    BY <1>5 DEF FillJumpLables, Begin, IrTypeOK
  <2>2. /\ SameShape /\ Len(cmds') = Len(cmds)
        /\ \A k \in 1..Len(cmds) : cmds'[k].x86_ip = cmds[k].x86_ip
    BY <1>5, LinkProps DEF SameShape
  <2>3. Chain' /\ Counted'
    BY <2>1, <2>2, CodeSame
  <2>4. Gap(0, 1)' /\ CodeEnd(0)' = 0
    BY DEF Gap, CodeEnd
  <2>5. \E j \in 0..i' - 1 : (Gap(j, i) /\ len = CodeEnd(j))'
    BY <2>1, <2>4
  <2> QED
    BY <1>0, <2>1, <2>2, <2>3, <2>5 DEF Written, CodeAgrees, Done
<1>6. CASE Emit
  BY <1>6, WrittenEmit
<1>7. CASE EmitEnd
  <2>1. /\ phase = "emit" /\ phase' = "run" /\ cmds' = cmds /\ x86_ip' = x86_ip
        /\ len' = len /\ i = Len(cmds) + 1
    BY <1>0, <1>7 DEF EmitEnd, Begin, IrTypeOK
  <2>2. Chain' /\ Counted'
    BY <2>1, CodeSame DEF SameShape
  <2> PICK n \in Nat : n = Len(cmds)
    BY <1>0
  <2>3. PICK j \in 0..n : Gap(j, n + 1) /\ x86_ip = CodeEnd(j)
    BY <2>1 DEF Counted
  <2>4. PICK m \in 0..n : Gap(m, n + 1) /\ len = CodeEnd(m)
    BY <1>0, <2>1 DEF Written
  <2>5. j = m
    <3>1. n + 1 \in Nat /\ j \in 0..(n + 1) - 1 /\ m \in 0..(n + 1) - 1
      OBVIOUS
    <3> QED
      BY <2>3, <2>4, <3>1, GapUnique
  <2>6. CodeAgrees'
    BY <1>0, <2>1, <2>3, <2>4, <2>5 DEF Written, CodeAgrees, Done
  <2> QED
    BY <2>1, <2>2, <2>6 DEF Written
<1>8. CASE RunCommand
  <2>1. /\ phase = "run" /\ phase' = "run" /\ cmds' = cmds /\ x86_ip' = x86_ip /\ len' = len
    BY <1>8 DEF RunCommand
  <2>2. Chain' /\ Counted'
    BY <2>1, CodeSame DEF SameShape
  <2> QED
    BY <2>1, <2>2 DEF Written, CodeAgrees, Done
<1>9. CASE UNCHANGED vars
  BY <1>9 DEF vars, Chain, Counted, Written, CodeAgrees, Done, Gap, Kept, CodeEnd
<1> QED
  BY <1>1, <1>2, <1>3, <1>4, <1>5, <1>6, <1>7, <1>8, <1>9 DEF Next

(* StartTranslation writes every kept command where FillCmdIp placed it,   *)
(* for every assembled program of translated commands: the two tables of   *)
(* sizes agree, and so do the two walks over the array.                    *)
THEOREM CodeCorrect ==
    Spec /\ Assembled(program) /\ AllTranslated(program) => []CodeAgrees
<1> DEFINE Inv == CodeInv /\ AllTranslated(program)
<1>1. Init /\ Assembled(program) /\ AllTranslated(program) => Inv
  <2> SUFFICES ASSUME Init, Assembled(program), AllTranslated(program)
               PROVE  CodeInv
    OBVIOUS
  <2>1. IrTypeOK /\ phase = "parse" /\ Len(cmds) = 0
    BY IrTypeInit, EmptySeq DEF Init
  <2> QED
    BY <2>1 DEF CodeInv, Sizes, Chain, Counted, Written, CodeAgrees, Done
<1>2. Inv /\ [Next]_vars => Inv'
  <2> SUFFICES ASSUME Inv, [Next]_vars
               PROVE  Inv'
    OBVIOUS
  <2>1. IrTypeOK' /\ program' = program
    BY IrTypeStep DEF CodeInv
  <2>2. Sizes' /\ Chain' /\ Counted' /\ Written'
    BY SizesStep, CodeStep DEF CodeInv
  <2>3. AllTranslated(program)'
    BY <2>1 DEF AllTranslated
  <2> QED
    BY <2>1, <2>2, <2>3 DEF CodeInv
<1>3. Inv => CodeAgrees
  BY DEF CodeInv, Written
<1> QED
  BY <1>1, <1>2, <1>3, PTL DEF Spec

Loop == INSTANCE FoldInduction WITH op <- After

(***************************************************************************)
(* The processor after n commands.                                         *)
(***************************************************************************)
IsRun(f, p, s, n) == f = [k \in 0..n |-> IF k = 0 THEN s ELSE After(p, f[k - 1])]

\* Every number of commands can be executed.
LEMMA RunExists == \A p, s : \A n \in Nat : \E f : IsRun(f, p, s, n)
<1> SUFFICES ASSUME NEW p, NEW s, NEW n \in Nat PROVE \E f : IsRun(f, p, s, n)
  OBVIOUS
<1> DEFINE S == {m \in 0..n : \E f : IsRun(f, p, s, m)}
<1>1. 0 \in S
  <2> DEFINE f == [k \in 0..0 |-> s]
  <2>1. f = [k \in 0..0 |-> IF k = 0 THEN s ELSE After(p, f[k - 1])]
    OBVIOUS
  <2>2. IsRun(f, p, s, 0)
    BY <2>1 DEF IsRun
  <2> QED
    BY <2>2
<1>2. ASSUME NEW m \in 1..n, m - 1 \in S PROVE m \in S
  <2>1. PICK f : IsRun(f, p, s, m - 1)
    BY <1>2
  <2> DEFINE h == [k \in 0..m |-> IF k = m THEN After(p, f[m - 1]) ELSE f[k]]
  <2>2. ASSUME NEW k \in 0..m PROVE h[k] = IF k = 0 THEN s ELSE After(p, h[k - 1])
    <3>1. CASE k = 0
      BY <2>1, <3>1 DEF IsRun
    <3>2. CASE k = m
      <4>1. h[k - 1] = f[m - 1] /\ h[k] = After(p, f[m - 1])
        BY <3>2
      <4> QED
        BY <3>2, <4>1
    <3>3. CASE k # 0 /\ k # m
      <4>1. k \in 1..(m - 1) /\ k - 1 \in 0..(m - 1) /\ k - 1 # m
        BY <3>3
      <4>2. h[k] = f[k] /\ h[k - 1] = f[k - 1]
        BY <3>3, <4>1
      <4>3. f[k] = After(p, f[k - 1])
        BY <2>1, <4>1 DEF IsRun
      <4> QED
        BY <3>3, <4>2, <4>3
    <3> QED
      BY <3>1, <3>2, <3>3
  <2>3. IsRun(h, p, s, m)
    <3> DEFINE r == [k \in 0..m |-> IF k = 0 THEN s ELSE After(p, h[k - 1])]
    <3>1. h = r
      BY <2>2
    <3> HIDE DEF h
    <3> QED
      BY <3>1 DEF IsRun
  <2> HIDE DEF h
  <2> QED
    BY <2>3
<1>3. 0..n \subseteq S
  <2> HIDE DEF S
  <2> QED
    BY <1>1, <1>2, Loop!PlacesInduction
<1> QED
  BY <1>3

\* There is one way to execute them.
LEMMA RunUnique ==
    ASSUME NEW p, NEW s, NEW m \in Nat, NEW n \in Nat, NEW f, NEW g, IsRun(f, p, s, m), IsRun(g, p, s, n), m <= n
    PROVE  f[m] = g[m]
<1> DEFINE S == {k \in 0..m : f[k] = g[k]}
<1>1. 0 \in S
  BY DEF IsRun
<1>2. ASSUME NEW k \in 1..m, k - 1 \in S PROVE k \in S
  <2>1. f[k] = After(p, f[k - 1])
    BY DEF IsRun
  <2>2. g[k] = After(p, g[k - 1])
    BY DEF IsRun
  <2> QED
    BY <1>2, <2>1, <2>2
<1>3. 0..m \subseteq S
  <2> HIDE DEF S
  <2> QED
    BY <1>1, <1>2, Loop!PlacesInduction
<1> QED
  BY <1>3

\* A command more is executed after the others.
LEMMA RunSteps ==
    \A p, s : Run(p, s, 0) = s /\ \A n \in Nat : Run(p, s, n + 1) = After(p, Run(p, s, n))
<1> TAKE p, s
<1> DEFINE F(n) == CHOOSE f : IsRun(f, p, s, n)
<1>1. \A n \in Nat : IsRun(F(n), p, s, n)
  BY RunExists
<1>2. \A n : Run(p, s, n) = F(n)[n]
  BY DEF Run, IsRun
<1> HIDE DEF F
<1>3. Run(p, s, 0) = s
  <2>1. IsRun(F(0), p, s, 0)
    BY <1>1
  <2> QED
    BY <1>2, <2>1 DEF IsRun
<1>4. ASSUME NEW n \in Nat PROVE Run(p, s, n + 1) = After(p, Run(p, s, n))
  <2>1. IsRun(F(n), p, s, n) /\ IsRun(F(n + 1), p, s, n + 1)
    BY <1>1
  <2>2. F(n)[n] = F(n + 1)[n]
    BY <2>1, RunUnique
  <2>3. F(n + 1)[n + 1] = After(p, F(n + 1)[n])
    <3>1. n + 1 \in 0..(n + 1) /\ n + 1 # 0 /\ (n + 1) - 1 = n
      OBVIOUS
    <3> QED
      BY <2>1, <3>1 DEF IsRun
  <2> QED
    BY <1>2, <2>2, <2>3
<1> QED
  BY <1>3, <1>4

\* m commands and n more are m + n.
LEMMA RunAdds == \A p, s : \A m, n \in Nat : Run(p, Run(p, s, m), n) = Run(p, s, m + n)
<1> SUFFICES ASSUME NEW p, NEW s, NEW m \in Nat, NEW n \in Nat
             PROVE  Run(p, Run(p, s, m), n) = Run(p, s, m + n)
  OBVIOUS
<1> DEFINE t == Run(p, s, m)
           S == {k \in 0..n : Run(p, t, k) = Run(p, s, m + k)}
<1>1. 0 \in S
  <2>1. m + 0 = m
    OBVIOUS
  <2> QED
    BY <2>1, RunSteps
<1>2. ASSUME NEW k \in 1..n, k - 1 \in S PROVE k \in S
  <2>1. k - 1 \in Nat /\ (k - 1) + 1 = k /\ m + (k - 1) \in Nat /\ (m + (k - 1)) + 1 = m + k
    OBVIOUS
  <2>2. Run(p, t, (k - 1) + 1) = After(p, Run(p, t, k - 1))
    BY <2>1, RunSteps
  <2>3. Run(p, s, (m + (k - 1)) + 1) = After(p, Run(p, s, m + (k - 1)))
    BY <2>1, RunSteps
  <2> QED
    BY <1>2, <2>1, <2>2, <2>3
<1>3. 0..n \subseteq S
  <2> HIDE DEF S
  <2> QED
    BY <1>1, <1>2, Loop!PlacesInduction
<1> QED
  BY <1>3

LEMMA RunOne == \A p, s : Run(p, s, 1) = After(p, s)
<1> TAKE p, s
<1>1. 0 + 1 = 1
  OBVIOUS
<1> QED
  BY <1>1, RunSteps

(***************************************************************************)
(* The commands of the guest program, by their addresses.                  *)
(***************************************************************************)
LEMMA EndAtRises ==
    ASSUME Assembled(program)
    PROVE  \A k \in 0..Len(program) : \A j \in 0..(k - 1) : EndAt(j) < EndAt(k)
<1>0. Len(program) \in Nat
  BY LenProperties DEF Assembled
<1> DEFINE S == {k \in 0..Len(program) : \A j \in 0..(k - 1) : EndAt(j) < EndAt(k)}
<1>1. 0 \in S
  BY <1>0
<1>2. ASSUME NEW k \in 1..Len(program), k - 1 \in S PROVE k \in S
  <2>1. EndAt(k) = EndAt(k - 1) + Size(program[k].op) /\ EndAt(k - 1) \in Nat
    <3>1. k - 1 \in 0..Len(program)
      BY <1>0
    <3> QED
      BY <3>1, EndAtNext, EndAtNat
  <2>2. Size(program[k].op) \in Nat /\ Size(program[k].op) > 0
    BY SizeNat
  <2>3. EndAt(k - 1) < EndAt(k)
    BY <2>1, <2>2
  <2>4. ASSUME NEW j \in 0..(k - 1) PROVE EndAt(j) < EndAt(k)
    <3>1. CASE j = k - 1
      BY <2>3, <3>1
    <3>2. CASE j # k - 1
      <4>1. j \in 0..((k - 1) - 1) /\ j \in 0..Len(program) /\ k \in 0..Len(program)
        BY <1>0, <3>2
      <4>2. EndAt(j) < EndAt(k - 1)
        BY <1>2, <4>1
      <4>3. EndAt(j) \in Nat /\ EndAt(k) \in Nat
        BY <4>1, EndAtNat
      <4> QED
        BY <2>1, <2>3, <4>2, <4>3
    <3> QED
      BY <3>1, <3>2
  <2> QED
    BY <1>0, <2>4
<1>3. 0..Len(program) \subseteq S
  <2> HIDE DEF S
  <2> QED
    BY <1>0, <1>1, <1>2, Loop!PlacesInduction
<1> QED
  BY <1>3

LEMMA EndAtOnce ==
    ASSUME Assembled(program), NEW j \in 0..Len(program), NEW k \in 0..Len(program), EndAt(j) = EndAt(k)
    PROVE  j = k
<1>1. Len(program) \in Nat /\ EndAt(j) \in Nat /\ EndAt(k) \in Nat
  BY LenProperties, EndAtNat DEF Assembled
<1>2. ~(j < k)
  <2>1. j < k => j \in 0..(k - 1)
    BY <1>1
  <2> QED
    BY <1>1, <2>1, EndAtRises
<1>3. ~(k < j)
  <2>1. k < j => k \in 0..(j - 1)
    BY <1>1
  <2> QED
    BY <1>1, <2>1, EndAtRises
<1> QED
  BY <1>1, <1>2, <1>3

\* A command begins where the one before it ends.
LEMMA BeginsAt ==
    ASSUME Assembled(program), NEW k \in 1..Len(program)
    PROVE  program[k].at = EndAt(k - 1)
  BY DEF Assembled, EndAt

LEMMA CommandsAt ==
    ASSUME Assembled(program), NEW k \in 1..Len(program)
    PROVE  At(program, EndAt(k - 1)) = {k}
<1>0. Len(program) \in Nat
  BY LenProperties DEF Assembled
<1>1. program[k].at = EndAt(k - 1)
  BY BeginsAt
<1>2. ASSUME NEW m \in 1..Len(program), program[m].at = EndAt(k - 1) PROVE m = k
  <2>1. EndAt(m - 1) = EndAt(k - 1)
    BY <1>2, BeginsAt
  <2>2. m - 1 \in 0..Len(program) /\ k - 1 \in 0..Len(program)
    BY <1>0
  <2>3. m - 1 = k - 1
    BY <2>1, <2>2, EndAtOnce
  <2> QED
    BY <1>0, <2>3
<1> QED
  BY <1>1, <1>2 DEF At

LEMMA EndIs ==
    ASSUME Assembled(program), program # <<>>
    PROVE  Len(program) \in Nat \ {0} /\ EndOf(program) = EndAt(Len(program))
<1>1. Len(program) \in Nat \ {0}
  BY LenProperties, EmptySeq DEF Assembled
<1> QED
  BY <1>1 DEF EndOf, EndAt

\* What the processor does at the end of command k - 1.
Executed(c, s) ==
    IF ~Defined(c, s) THEN Stop(s, "wild")
    ELSE IF Halts(c, s) THEN Stop(s, "halted")
    ELSE [Effect(c, s) EXCEPT !.ip = NextIp(c, s)]

LEMMA AfterIs ==
    ASSUME Assembled(program), NEW k \in 1..Len(program), NEW s, s.status = "running", s.ip = EndAt(k - 1)
    PROVE  After(program, s) = Executed(program[k], s)
<1>1. At(program, s.ip) = {k}
  BY CommandsAt
<1>2. (CHOOSE m \in At(program, s.ip) : TRUE) = k
  BY <1>1
<1>3. ~(s.ip >= EndOf(program))
  <2>1. program # <<>> /\ Len(program) \in Nat
    BY LenProperties, EmptySeq DEF Assembled
  <2>2. EndOf(program) = EndAt(Len(program))
    BY <2>1, EndIs
  <2>3. k - 1 \in 0..(Len(program) - 1) /\ Len(program) \in 0..Len(program) /\ k - 1 \in 0..Len(program)
    BY <2>1
  <2>4. EndAt(k - 1) < EndAt(Len(program))
    BY <2>3, EndAtRises
  <2>5. EndAt(k - 1) \in Nat /\ EndAt(Len(program)) \in Nat
    BY <2>3, EndAtNat
  <2> QED
    BY <2>2, <2>4, <2>5
<1> QED
  BY <1>1, <1>2, <1>3 DEF After, Executed

(***************************************************************************)
(* Stacks.                                                                 *)
(***************************************************************************)
IsSeq(q) == \E S : q \in Seq(S)

LEMMA IsFunction == \A q : IsSeq(q) => Len(q) \in Nat /\ DOMAIN q = 1..Len(q) /\ q = [n \in 1..Len(q) |-> q[n]]
<1> TAKE q
<1> HAVE IsSeq(q)
<1>1. PICK S : q \in Seq(S)
  BY DEF IsSeq
<1> QED
  BY <1>1, LenProperties

LEMMA SameSeq ==
    ASSUME NEW p, NEW q, IsSeq(p), IsSeq(q), Len(p) = Len(q), \A n \in 1..Len(p) : p[n] = q[n]
    PROVE  p = q
<1>1. p = [n \in 1..Len(p) |-> p[n]] /\ q = [n \in 1..Len(q) |-> q[n]]
  BY IsFunction
<1> QED
  BY <1>1

LEMMA IsSeqFunction ==
    ASSUME NEW m \in Nat, NEW q, DOMAIN q = 1..m, q = [n \in 1..m |-> q[n]]
    PROVE  IsSeq(q) /\ Len(q) = m
<1> DEFINE S == {q[n] : n \in 1..m}
<1>1. q \in [1..m -> S]
  OBVIOUS
<1> HIDE DEF S
<1>2. q \in Seq(S)
  BY <1>1, SeqDef
<1>3. Len(q) = m
  BY <1>2, LenProperties
<1> QED
  BY <1>2, <1>3 DEF IsSeq

\* A value goes on top.
LEMMA Appended ==
    ASSUME NEW q, NEW v, IsSeq(q)
    PROVE  /\ IsSeq(Append(q, v)) /\ Len(q) \in Nat /\ Len(Append(q, v)) = Len(q) + 1
           /\ (\A n \in 1..Len(q) : Append(q, v)[n] = q[n]) /\ Append(q, v)[Len(q) + 1] = v
<1>1. PICK S : q \in Seq(S)
  BY DEF IsSeq
<1> DEFINE T == S \cup {v}
<1>2. q \in Seq(T) /\ v \in T
  BY <1>1, SeqMonotonic
<1> HIDE DEF T
<1>3. Append(q, v) \in Seq(T) /\ Len(q) \in Nat
  BY <1>2, LenProperties, AppendProperties
<1> QED
  BY <1>2, <1>3, AppendProperties DEF IsSeq

\* Some values are taken off.
LEMMA Dropped ==
    ASSUME NEW q, IsSeq(q), NEW m \in 0..Len(q)
    PROVE  LET u == SubSeq(q, 1, Len(q) - m) IN
           IsSeq(u) /\ Len(q) \in Nat /\ Len(u) = Len(q) - m /\ \A n \in 1..(Len(q) - m) : u[n] = q[n]
<1>1. PICK S : q \in Seq(S)
  BY DEF IsSeq
<1>2. Len(q) \in Nat
  BY <1>1, LenProperties
<1>3. \A n \in 1..(Len(q) - m) : q[n] \in S
  BY <1>1, <1>2, ElementOfSeq
<1>4. 1 \in Int /\ Len(q) - m \in Int
  BY <1>2
<1> DEFINE u == SubSeq(q, 1, Len(q) - m)
<1>5. u = [n \in 1..(Len(q) - m) |-> q[n]]
  <2>1. u = [n \in 1..((1 + (Len(q) - m)) - 1) |-> q[(n + 1) - 1]]
    BY <1>2
  <2>2. (1 + (Len(q) - m)) - 1 = Len(q) - m
    BY <1>2
  <2> QED
    BY <2>1, <2>2
<1> HIDE DEF u
<1>6. Len(q) - m \in Nat /\ DOMAIN u = 1..(Len(q) - m) /\ u = [n \in 1..(Len(q) - m) |-> u[n]]
  BY <1>2, <1>5
<1>7. IsSeq(u) /\ Len(u) = Len(q) - m
  BY <1>6, IsSeqFunction
<1>8. \A n \in 1..(Len(q) - m) : u[n] = q[n]
  BY <1>5
<1> QED
  BY <1>2, <1>7, <1>8 DEF u

LEMMA DropNone ==
    ASSUME NEW s, IsSeq(s.stack)
    PROVE  Drop(s, 0) = s.stack
<1> DEFINE q == s.stack
           u == SubSeq(q, 1, Len(q) - 0)
<1>1. Len(q) \in Nat /\ 0 \in 0..Len(q) /\ Len(q) - 0 = Len(q)
  BY IsFunction
<1>2. IsSeq(u) /\ Len(u) = Len(q) - 0 /\ \A n \in 1..(Len(q) - 0) : u[n] = q[n]
  BY <1>1, Dropped
<1>3. u = q
  <2> HIDE DEF u, q
  <2> QED
    BY <1>1, <1>2, SameSeq DEF q
<1> QED
  BY <1>3 DEF Drop

\* Taking a pushed value off again.
LEMMA PushedDropped ==
    ASSUME NEW q, NEW v, IsSeq(q)
    PROVE  SubSeq(Append(q, v), 1, Len(Append(q, v)) - 1) = q
<1> DEFINE r == Append(q, v)
           u == SubSeq(r, 1, Len(r) - 1)
<1>1. IsSeq(r) /\ Len(q) \in Nat /\ Len(r) = Len(q) + 1 /\ \A n \in 1..Len(q) : r[n] = q[n]
  BY Appended
<1>2. 1 \in 0..Len(r) /\ Len(r) - 1 = Len(q)
  BY <1>1
<1>3. IsSeq(u) /\ Len(u) = Len(r) - 1 /\ \A n \in 1..(Len(r) - 1) : u[n] = r[n]
  <2> HIDE DEF r
  <2> QED
    BY <1>1, <1>2, Dropped
<1> HIDE DEF u, r
<1>4. \A n \in 1..Len(u) : u[n] = q[n]
  BY <1>1, <1>2, <1>3
<1>5. u = q
  BY <1>1, <1>2, <1>3, <1>4, SameSeq
<1> QED
  BY <1>5 DEF u, r

(***************************************************************************)
(* Both processors, field by field.                                        *)
(***************************************************************************)
State(ip, stack, regs, ram, in, out, status) ==
    [ip |-> ip, stack |-> stack, regs |-> regs, ram |-> ram, in |-> in, out |-> out, status |-> status]

LEMMA StateFields ==
    \A ip, stack, regs, ram, in, out, status :
        LET s == State(ip, stack, regs, ram, in, out, status) IN
        /\ s.ip = ip /\ s.stack = stack /\ s.regs = regs /\ s.ram = ram
        /\ s.in = in /\ s.out = out /\ s.status = status
  BY DEF State

IsRecord(s) == s = State(s.ip, s.stack, s.regs, s.ram, s.in, s.out, s.status)

IsState(s) == /\ IsRecord(s)
              /\ IsSeq(s.stack)
              /\ s.regs = [r \in Registers |-> s.regs[r]]
              /\ s.ram = [a \in Addresses |-> s.ram[a]]

\* The fields of a state, set one at a time.
SetIp(s, x) == [s EXCEPT !.ip = x]
SetStack(s, x) == [s EXCEPT !.stack = x]
SetRegs(s, x) == [s EXCEPT !.regs = x]
SetRam(s, x) == [s EXCEPT !.ram = x]
SetIn(s, x) == [s EXCEPT !.in = x]
SetOut(s, x) == [s EXCEPT !.out = x]
SetStatus(s, x) == [s EXCEPT !.status = x]

LEMMA FieldSet ==
    \A s : IsRecord(s) => \A x :
        /\ SetIp(s, x) = State(x, s.stack, s.regs, s.ram, s.in, s.out, s.status)
        /\ SetStack(s, x) = State(s.ip, x, s.regs, s.ram, s.in, s.out, s.status)
        /\ SetRegs(s, x) = State(s.ip, s.stack, x, s.ram, s.in, s.out, s.status)
        /\ SetRam(s, x) = State(s.ip, s.stack, s.regs, x, s.in, s.out, s.status)
        /\ SetIn(s, x) = State(s.ip, s.stack, s.regs, s.ram, x, s.out, s.status)
        /\ SetOut(s, x) = State(s.ip, s.stack, s.regs, s.ram, s.in, x, s.status)
        /\ SetStatus(s, x) = State(s.ip, s.stack, s.regs, s.ram, s.in, s.out, x)
<1> TAKE s
<1> HAVE IsRecord(s)
<1> TAKE x
<1> DEFINE ip == s.ip stack == s.stack regs == s.regs ram == s.ram in == s.in out == s.out status == s.status
<1>0. s = State(ip, stack, regs, ram, in, out, status)
  BY DEF IsRecord
<1> HIDE DEF ip, stack, regs, ram, in, out, status
<1>1. SetIp(s, x) = State(x, stack, regs, ram, in, out, status)
  BY <1>0 DEF State, SetIp
<1>2. SetStack(s, x) = State(ip, x, regs, ram, in, out, status)
  BY <1>0 DEF State, SetStack
<1>3. SetRegs(s, x) = State(ip, stack, x, ram, in, out, status)
  BY <1>0 DEF State, SetRegs
<1>4. SetRam(s, x) = State(ip, stack, regs, x, in, out, status)
  BY <1>0 DEF State, SetRam
<1>5. SetIn(s, x) = State(ip, stack, regs, ram, x, out, status)
  BY <1>0 DEF State, SetIn
<1>6. SetOut(s, x) = State(ip, stack, regs, ram, in, x, status)
  BY <1>0 DEF State, SetOut
<1>7. SetStatus(s, x) = State(ip, stack, regs, ram, in, out, x)
  BY <1>0 DEF State, SetStatus
<1> QED
  BY <1>1, <1>2, <1>3, <1>4, <1>5, <1>6, <1>7 DEF ip, stack, regs, ram, in, out, status

LEMMA RecordIs ==
    \A ip, stack, regs, ram, in, out, status : IsRecord(State(ip, stack, regs, ram, in, out, status))
  BY StateFields DEF IsRecord

\* What the commands do, and where they go.
Writes(f, x, v) == [f EXCEPT ![x] = v]

LEMMA PushedIs ==
    \A s : IsRecord(s) => \A n, v :
        Pushed(s, n, v) = State(s.ip, Append(Drop(s, n), v), s.regs, s.ram, s.in, s.out, s.status)
<1>1. \A s, n, v : Pushed(s, n, v) = SetStack(s, Append(Drop(s, n), v))
  BY Zenon DEF Pushed, SetStack
<1> QED
  BY <1>1, FieldSet

DropsTo(s, n) == [s EXCEPT !.stack = Drop(s, n)]
RamSet(s, x, v, n) == [s EXCEPT !.ram[x] = v, !.stack = Drop(s, n)]
RegSet(s, x, v, n) == [s EXCEPT !.regs[x] = v, !.stack = Drop(s, n)]
Printed(s, v, n) == [s EXCEPT !.out = Append(@, v), !.stack = Drop(s, n)]
Given(s, v) == [Pushed(s, 0, v) EXCEPT !.in = Tail(@)]

LEMMA DropsIs ==
    \A s : IsRecord(s) => \A n : DropsTo(s, n) = State(s.ip, Drop(s, n), s.regs, s.ram, s.in, s.out, s.status)
<1>1. \A s, n : DropsTo(s, n) = SetStack(s, Drop(s, n))
  BY Zenon DEF DropsTo, SetStack
<1> QED
  BY <1>1, FieldSet

LEMMA RamSetIs ==
    \A s : IsRecord(s) => \A x, v, n :
        RamSet(s, x, v, n) = State(s.ip, Drop(s, n), s.regs, Writes(s.ram, x, v), s.in, s.out, s.status)
<1> TAKE s
<1> HAVE IsRecord(s)
<1> TAKE x, v, n
<1> DEFINE t == SetRam(s, Writes(s.ram, x, v))
<1>1. RamSet(s, x, v, n) = SetStack(t, Drop(s, n))
  BY Zenon DEF RamSet, SetRam, SetStack, Writes
<1>2. t = State(s.ip, s.stack, s.regs, Writes(s.ram, x, v), s.in, s.out, s.status)
  BY FieldSet
<1> HIDE DEF t
<1>3. IsRecord(t)
  BY <1>2, RecordIs
<1>4. SetStack(t, Drop(s, n)) = State(t.ip, Drop(s, n), t.regs, t.ram, t.in, t.out, t.status)
  BY <1>3, FieldSet
<1> QED
  BY <1>1, <1>2, <1>4, StateFields

LEMMA RegSetIs ==
    \A s : IsRecord(s) => \A x, v, n :
        RegSet(s, x, v, n) = State(s.ip, Drop(s, n), Writes(s.regs, x, v), s.ram, s.in, s.out, s.status)
<1> TAKE s
<1> HAVE IsRecord(s)
<1> TAKE x, v, n
<1> DEFINE t == SetRegs(s, Writes(s.regs, x, v))
<1>1. RegSet(s, x, v, n) = SetStack(t, Drop(s, n))
  BY Zenon DEF RegSet, SetRegs, SetStack, Writes
<1>2. t = State(s.ip, s.stack, Writes(s.regs, x, v), s.ram, s.in, s.out, s.status)
  BY FieldSet
<1> HIDE DEF t
<1>3. IsRecord(t)
  BY <1>2, RecordIs
<1>4. SetStack(t, Drop(s, n)) = State(t.ip, Drop(s, n), t.regs, t.ram, t.in, t.out, t.status)
  BY <1>3, FieldSet
<1> QED
  BY <1>1, <1>2, <1>4, StateFields

LEMMA PrintedIs ==
    \A s : IsRecord(s) => \A v, n :
        Printed(s, v, n) = State(s.ip, Drop(s, n), s.regs, s.ram, s.in, Append(s.out, v), s.status)
<1> TAKE s
<1> HAVE IsRecord(s)
<1> TAKE v, n
<1> DEFINE t == SetOut(s, Append(s.out, v))
<1>1. Printed(s, v, n) = SetStack(t, Drop(s, n))
  BY Zenon DEF Printed, SetOut, SetStack, Writes
<1>2. t = State(s.ip, s.stack, s.regs, s.ram, s.in, Append(s.out, v), s.status)
  BY FieldSet
<1> HIDE DEF t
<1>3. IsRecord(t)
  BY <1>2, RecordIs
<1>4. SetStack(t, Drop(s, n)) = State(t.ip, Drop(s, n), t.regs, t.ram, t.in, t.out, t.status)
  BY <1>3, FieldSet
<1> QED
  BY <1>1, <1>2, <1>4, StateFields

LEMMA GivenIs ==
    \A s : IsRecord(s) => \A v :
        Given(s, v) = State(s.ip, Append(Drop(s, 0), v), s.regs, s.ram, Tail(s.in), s.out, s.status)
<1> TAKE s
<1> HAVE IsRecord(s)
<1> TAKE v
<1> DEFINE t == Pushed(s, 0, v)
<1>1. t = State(s.ip, Append(Drop(s, 0), v), s.regs, s.ram, s.in, s.out, s.status)
  BY PushedIs
<1>2. Given(s, v) = SetIn(t, Tail(t.in))
  BY Zenon DEF Given, SetIn
<1> HIDE DEF t
<1>3. IsRecord(t)
  BY <1>1, RecordIs
<1>4. SetIn(t, Tail(t.in)) = State(t.ip, t.stack, t.regs, t.ram, Tail(t.in), t.out, t.status)
  BY <1>3, FieldSet
<1> QED
  BY <1>1, <1>2, <1>4, StateFields

LEMMA EffectIs ==
    \A c, s :
        /\ c.op = "push" => Effect(c, s) = Pushed(s, 0, Arg(c, s))
        /\ c.op = "pop" /\ InRam(c) => Effect(c, s) = RamSet(s, Address(c, s), Top(s), 1)
        /\ c.op = "pop" /\ c.mode = "reg" => Effect(c, s) = RegSet(s, c.reg, Top(s), 1)
        /\ c.op \in ArithOps => Effect(c, s) = Pushed(s, 2, Num(Arith(c.op, Left(s), Right(s))))
        /\ c.op = "sqr" => Effect(c, s) = Pushed(s, 1, Num(Func("sqr", Top(s).n)))
        /\ c.op = "out" => Effect(c, s) = Printed(s, Shown(Top(s).n), 1)
        /\ c.op = "in" => Effect(c, s) = Given(s, Num(Head(s.in)))
        /\ c.op \in CondOps => Effect(c, s) = DropsTo(s, 2)
        /\ c.op = "call" => Effect(c, s) = Pushed(s, 0, Ret(s.ip + Size("call")))
        /\ c.op = "ret" => Effect(c, s) = DropsTo(s, 1)
        /\ c.op \in {"hlt", "jmp"} => Effect(c, s) = s
<1> TAKE c, s
<1>0. (InRam(c) => c.mode # "reg") /\ (c.mode = "reg" => ~InRam(c))
  BY DEF InRam
<1> USE DEF ArithOps, CondOps, FuncOps
<1>1. c.op = "push" => Effect(c, s) = Pushed(s, 0, Arg(c, s))
  BY DEF Effect
<1>2. c.op = "pop" /\ InRam(c) => Effect(c, s) = RamSet(s, Address(c, s), Top(s), 1)
  BY <1>0 DEF Effect, RamSet
<1>3. c.op = "pop" /\ c.mode = "reg" => Effect(c, s) = RegSet(s, c.reg, Top(s), 1)
  BY <1>0 DEF Effect, RegSet
<1>4. c.op \in ArithOps => Effect(c, s) = Pushed(s, 2, Num(Arith(c.op, Left(s), Right(s))))
  BY DEF Effect
<1>5. c.op = "sqr" => Effect(c, s) = Pushed(s, 1, Num(Func("sqr", Top(s).n)))
  BY DEF Effect
<1>6. c.op = "out" => Effect(c, s) = Printed(s, Shown(Top(s).n), 1)
  BY DEF Effect, Printed
<1>7. c.op = "in" => Effect(c, s) = Given(s, Num(Head(s.in)))
  BY DEF Effect, Given
<1>8. c.op \in CondOps => Effect(c, s) = DropsTo(s, 2)
  BY DEF Effect, DropsTo
<1>9. c.op = "call" => Effect(c, s) = Pushed(s, 0, Ret(s.ip + Size("call")))
  BY DEF Effect
<1>10. c.op = "ret" => Effect(c, s) = DropsTo(s, 1)
  BY DEF Effect, DropsTo
<1>11. c.op \in {"hlt", "jmp"} => Effect(c, s) = s
  BY DEF Effect
<1> QED
  BY <1>1, <1>2, <1>3, <1>4, <1>5, <1>6, <1>7, <1>8, <1>9, <1>10, <1>11

LEMMA StateIs ==
    \A ip, stack, regs, ram, in, out, status :
        IsState(State(ip, stack, regs, ram, in, out, status)) <=>
            /\ IsSeq(stack) /\ regs = [r \in Registers |-> regs[r]] /\ ram = [a \in Addresses |-> ram[a]]
  BY StateFields, RecordIs DEF IsState

(***************************************************************************)
(* Commands in a row that push a number, and what a fold replaces them by. *)
(***************************************************************************)
LEMMA RanOne ==
    ASSUME Assembled(program), NEW k \in 1..Len(program), NEW s, s.status = "running", s.ip = EndAt(k - 1),
           Defined(program[k], s), ~Halts(program[k], s)
    PROVE  Run(program, s, 1) = SetIp(Effect(program[k], s), NextIp(program[k], s))
<1>1. After(program, s) = Executed(program[k], s)
  BY AfterIs
<1>2. Executed(program[k], s) = SetIp(Effect(program[k], s), NextIp(program[k], s))
  BY Zenon DEF Executed, SetIp
<1> QED
  BY <1>1, <1>2, RunOne

LEMMA NextAfter ==
    ASSUME Assembled(program), NEW k \in 1..Len(program), NEW s, s.ip = EndAt(k - 1),
           program[k].op \notin JumpOps \cup {"ret"}
    PROVE  NextIp(program[k], s) = EndAt(k)
<1>1. NextIp(program[k], s) = s.ip + Size(program[k].op)
  BY DEF NextIp, JumpOps, CondOps
<1> QED
  BY <1>1, EndAtNext

\* From the end of command j to that of command k the processor pushes value v.
PushesTo(j, k, v) ==
    \A s : (IsState(s) /\ s.status = "running" /\ s.ip = EndAt(j)) =>
        Run(program, s, k - j) = State(EndAt(k), Append(s.stack, v), s.regs, s.ram, s.in, s.out, "running")

LEMMA ImmPushes ==
    ASSUME Assembled(program), NEW k \in 1..Len(program), IsImm(program, k)
    PROVE  PushesTo(k - 1, k, Num(program[k].value))
<1> DEFINE c == program[k]
<1>0. c.op = "push" /\ c.mode = "imm" /\ k - (k - 1) = 1
  BY DEF IsImm
<1> SUFFICES ASSUME NEW s, IsState(s), s.status = "running", s.ip = EndAt(k - 1)
             PROVE  Run(program, s, 1) = State(EndAt(k), Append(s.stack, Num(c.value)), s.regs, s.ram, s.in, s.out, "running")
  BY <1>0 DEF PushesTo
<1>1. Defined(c, s)
  <2>1. Len(s.stack) \in Nat
    BY IsFunction DEF IsState
  <2> QED
    BY <1>0, <2>1 DEF Defined, Operands, UsesReg, InRam, ArithOps, CondOps, FuncOps
<1>2. ~Halts(c, s) /\ c.op \notin JumpOps \cup {"ret"}
  BY <1>0 DEF Halts, JumpOps, CondOps
<1>3. NextIp(c, s) = EndAt(k)
  BY <1>2, NextAfter
<1>4. Arg(c, s) = Num(c.value)
  BY <1>0 DEF Arg, InRam, ArgNumber
<1>5. Drop(s, 0) = s.stack
  BY DropNone DEF IsState
<1>6. Effect(c, s) = Pushed(s, 0, Num(c.value))
  BY <1>0, <1>4, EffectIs
<1>7. Effect(c, s) = State(s.ip, Append(s.stack, Num(c.value)), s.regs, s.ram, s.in, s.out, s.status)
  <2>1. IsRecord(s)
    BY DEF IsState
  <2>2. Pushed(s, 0, Num(c.value)) = State(s.ip, Append(Drop(s, 0), Num(c.value)), s.regs, s.ram, s.in, s.out, s.status)
    BY <2>1, PushedIs
  <2> QED
    BY <1>5, <1>6, <2>2
<1> DEFINE e == Effect(c, s)
<1>8. Run(program, s, 1) = SetIp(e, EndAt(k))
  BY <1>1, <1>2, <1>3, RanOne
<1>9. IsRecord(e)
  BY <1>7, RecordIs
<1> HIDE DEF e, c
<1>10. SetIp(e, EndAt(k)) = State(EndAt(k), e.stack, e.regs, e.ram, e.in, e.out, e.status)
  BY <1>9, FieldSet
<1>11. e = State(s.ip, Append(s.stack, Num(c.value)), s.regs, s.ram, s.in, s.out, s.status)
  BY <1>7 DEF e
<1> QED
  BY <1>8, <1>10, <1>11, StateFields

LEMMA TwoDropped ==
    ASSUME NEW q, NEW v, NEW w, IsSeq(q)
    PROVE  LET r == Append(Append(q, v), w) IN
           /\ IsSeq(r) /\ Len(q) \in Nat /\ Len(r) = Len(q) + 2
           /\ r[Len(q) + 2] = w /\ r[Len(q) + 1] = v
           /\ SubSeq(r, 1, Len(r) - 2) = q
<1> DEFINE a == Append(q, v)
           r == Append(a, w)
           u == SubSeq(r, 1, Len(r) - 2)
<1>1. IsSeq(a) /\ Len(q) \in Nat /\ Len(a) = Len(q) + 1 /\ a[Len(q) + 1] = v /\ \A n \in 1..Len(q) : a[n] = q[n]
  BY Appended
<1> HIDE DEF a
<1>2. IsSeq(r) /\ Len(a) \in Nat /\ Len(r) = Len(a) + 1 /\ r[Len(a) + 1] = w /\ \A n \in 1..Len(a) : r[n] = a[n]
  BY <1>1, Appended
<1> HIDE DEF r
<1>3. 2 \in 0..Len(r) /\ Len(r) = Len(q) + 2 /\ Len(r) - 2 = Len(q)
  BY <1>1, <1>2
<1>4. IsSeq(u) /\ Len(u) = Len(r) - 2 /\ \A n \in 1..(Len(r) - 2) : u[n] = r[n]
  BY <1>2, <1>3, Dropped
<1>5. r[Len(q) + 2] = w /\ r[Len(q) + 1] = v
  BY <1>1, <1>2
<1>6. u = q
  <2>1. \A n \in 1..Len(u) : u[n] = q[n]
    BY <1>1, <1>2, <1>3, <1>4
  <2> HIDE DEF u
  <2> QED
    BY <1>1, <1>3, <1>4, <2>1, SameSeq
<1> QED
  BY <1>1, <1>2, <1>3, <1>5, <1>6 DEF r, u, a

\* A member and an operation more are computed by the next two commands.
LEMMA ArithPushes ==
    ASSUME Assembled(program), LeftFirst, NEW k \in 3..Len(program), NEW j \in 0..k - 3, NEW a,
           PushesTo(j, k - 2, Num(a)), IsImm(program, k - 1), IsArith(program, k)
    PROVE  PushesTo(j, k, Num(Arith(program[k].op, program[k - 1].value, a)))
<1> DEFINE c == program[k]
           b == program[k - 1].value
           x == Num(Arith(c.op, b, a))
<1>0. Len(program) \in Nat /\ k - 1 \in 1..Len(program) /\ k \in 1..Len(program) /\ k \in Nat /\ j \in Nat
  <2>1. Len(program) \in Nat
    BY LenProperties DEF Assembled
  <2> QED
    BY <2>1
<1> SUFFICES ASSUME NEW s, IsState(s), s.status = "running", s.ip = EndAt(j)
             PROVE  Run(program, s, k - j) = State(EndAt(k), Append(s.stack, x), s.regs, s.ram, s.in, s.out, "running")
  BY DEF PushesTo
<1> DEFINE s1 == State(EndAt(k - 2), Append(s.stack, Num(a)), s.regs, s.ram, s.in, s.out, "running")
           q2 == Append(Append(s.stack, Num(a)), Num(b))
           s2 == State(EndAt(k - 1), q2, s.regs, s.ram, s.in, s.out, "running")
<1>1. Run(program, s, (k - 2) - j) = s1
  BY DEF PushesTo
<1>2. IsState(s1) /\ s1.status = "running" /\ s1.ip = EndAt(k - 2) /\ s1.stack = Append(s.stack, Num(a))
  <2>1. IsSeq(Append(s.stack, Num(a)))
    BY Appended DEF IsState
  <2>2. s.regs = [r \in Registers |-> s.regs[r]] /\ s.ram = [n \in Addresses |-> s.ram[n]]
    BY DEF IsState
  <2> DEFINE e == EndAt(k - 2) q == Append(s.stack, Num(a)) f == s.regs g == s.ram w == s.in o == s.out
  <2> HIDE DEF e, q, f, g, w, o
  <2>3. s1 = State(e, q, f, g, w, o, "running")
    BY DEF e, q, f, g, w, o
  <2>4. IsSeq(q) /\ f = [r \in Registers |-> f[r]] /\ g = [n \in Addresses |-> g[n]]
    BY <2>1, <2>2 DEF f, g, q
  <2> HIDE DEF s1
  <2>5. IsState(s1)
    BY <2>3, <2>4, StateIs
  <2>6. s1.status = "running" /\ s1.ip = e /\ s1.stack = q
    BY <2>3, StateFields
  <2> QED
    BY <2>5, <2>6 DEF e, q
<1>3. Run(program, s1, 1) = s2
  <2>1. PushesTo((k - 1) - 1, k - 1, Num(b))
    BY <1>0, ImmPushes
  <2>2. (k - 1) - 1 = k - 2 /\ (k - 1) - (k - 2) = 1
    BY <1>0
  <2>3. PushesTo(k - 2, k - 1, Num(b))
    BY <2>1, <2>2
  <2>4. Run(program, s1, (k - 1) - (k - 2)) = State(EndAt(k - 1), Append(s1.stack, Num(b)), s1.regs, s1.ram, s1.in, s1.out, "running")
    BY <1>2, <2>3 DEF PushesTo
  <2>5. s1.regs = s.regs /\ s1.ram = s.ram /\ s1.in = s.in /\ s1.out = s.out
    BY StateFields
  <2> HIDE DEF s1
  <2> QED
    BY <1>2, <2>2, <2>4, <2>5
<1>4. /\ IsSeq(q2) /\ Len(s.stack) \in Nat /\ Len(q2) = Len(s.stack) + 2
      /\ q2[Len(s.stack) + 2] = Num(b) /\ q2[Len(s.stack) + 1] = Num(a)
      /\ SubSeq(q2, 1, Len(q2) - 2) = s.stack
  <2> DEFINE u == s.stack va == Num(a) vb == Num(b)
  <2>1. IsSeq(u)
    BY DEF IsState
  <2> HIDE DEF u, va, vb
  <2>2. q2 = Append(Append(u, va), vb)
    BY DEF u, va, vb
  <2> HIDE DEF q2
  <2>3. /\ IsSeq(q2) /\ Len(u) \in Nat /\ Len(q2) = Len(u) + 2
        /\ q2[Len(u) + 2] = vb /\ q2[Len(u) + 1] = va
        /\ SubSeq(q2, 1, Len(q2) - 2) = u
    BY <2>1, <2>2, TwoDropped
  <2> QED
    BY <2>3 DEF u, va, vb
<1> HIDE DEF q2
<1>5. /\ IsState(s2) /\ s2.status = "running" /\ s2.ip = EndAt(k - 1) /\ s2.stack = q2
      /\ s2.regs = s.regs /\ s2.ram = s.ram /\ s2.in = s.in /\ s2.out = s.out
  <2>1. s.regs = [r \in Registers |-> s.regs[r]] /\ s.ram = [n \in Addresses |-> s.ram[n]]
    BY DEF IsState
  <2> QED
    <3> HIDE DEF s2
    <3>1. s2 = State(EndAt(k - 1), q2, s.regs, s.ram, s.in, s.out, "running")
      BY DEF s2
    <3>2. /\ s2.status = "running" /\ s2.ip = EndAt(k - 1) /\ s2.stack = q2
          /\ s2.regs = s.regs /\ s2.ram = s.ram /\ s2.in = s.in /\ s2.out = s.out
      BY <3>1, StateFields
    <3>3. IsRecord(s2)
      BY <3>1, RecordIs
    <3> QED
      BY <1>4, <2>1, <3>2, <3>3 DEF IsState
<1> HIDE DEF s1, s2
<1>6. Top(s2) = Num(b) /\ Below(s2) = Num(a) /\ Drop(s2, 2) = s.stack
  <2>1. Len(q2) - 1 = Len(s.stack) + 1
    BY <1>4
  <2>2. Top(s2) = Num(b)
    BY <1>4, <1>5 DEF Top
  <2>3. Below(s2) = Num(a)
    BY <1>4, <1>5, <2>1 DEF Below
  <2>4. Drop(s2, 2) = s.stack
    BY <1>4, <1>5 DEF Drop
  <2> QED
    BY <2>2, <2>3, <2>4
<1>7. NumbersOnTop(s2, 2)
  <2>1. \A n \in Len(q2) - 2 + 1 .. Len(q2) : n = Len(s.stack) + 1 \/ n = Len(s.stack) + 2
    BY <1>4
  <2>2. Len(q2) >= 2 /\ Num(a).tag = "num" /\ Num(b).tag = "num"
    BY <1>4 DEF Num
  <2> QED
    BY <1>4, <1>5, <2>1, <2>2 DEF NumbersOnTop
<1>8. Defined(c, s2) /\ ~Halts(c, s2) /\ c.op \notin JumpOps \cup {"ret"} /\ c.op \in ArithOps
  BY <1>7 DEF Defined, Operands, Halts, IsArith, ArithOps, CondOps, FuncOps, JumpOps
<1>9. Effect(c, s2) = Pushed(s2, 2, x)
  <2>1. Left(s2) = b /\ Right(s2) = a
    BY <1>6 DEF Left, Right, Num
  <2> QED
    BY <1>8, <2>1, EffectIs
<1> DEFINE e == Effect(c, s2)
<1>10. e = State(s2.ip, Append(s.stack, x), s.regs, s.ram, s.in, s.out, "running")
  <2>1. Pushed(s2, 2, x) = State(s2.ip, Append(Drop(s2, 2), x), s2.regs, s2.ram, s2.in, s2.out, s2.status)
    BY <1>5, PushedIs DEF IsState
  <2> QED
    BY <1>5, <1>6, <1>9, <2>1
<1>11. Run(program, s2, 1) = SetIp(e, EndAt(k))
  <2>1. NextIp(c, s2) = EndAt(k)
    BY <1>0, <1>5, <1>8, NextAfter
  <2> QED
    BY <1>0, <1>5, <1>8, <2>1, RanOne
<1>12. SetIp(e, EndAt(k)) = State(EndAt(k), Append(s.stack, x), s.regs, s.ram, s.in, s.out, "running")
  <2> HIDE DEF e, x
  <2>1. IsRecord(e)
    BY <1>10, RecordIs
  <2>2. SetIp(e, EndAt(k)) = State(EndAt(k), e.stack, e.regs, e.ram, e.in, e.out, e.status)
    BY <2>1, FieldSet
  <2> QED
    BY <1>10, <2>2, StateFields
<1>13. Run(program, s, k - j) = Run(program, s2, 1)
  <2>1. (k - 2) - j \in Nat /\ 1 \in Nat /\ ((k - 2) - j) + 1 \in Nat /\ (((k - 2) - j) + 1) + 1 = k - j
    BY <1>0
  <2>2. Run(program, Run(program, s, (k - 2) - j), 1) = Run(program, s, ((k - 2) - j) + 1)
    BY <2>1, RunAdds
  <2>3. Run(program, Run(program, s, ((k - 2) - j) + 1), 1) = Run(program, s, (((k - 2) - j) + 1) + 1)
    BY <2>1, RunAdds
  <2> QED
    BY <1>1, <1>3, <2>1, <2>2, <2>3
<1> QED
  BY <1>11, <1>12, <1>13

\* A whole result stays what it is when the fold makes it an int.
LEMMA FoldIsWhole ==
    ASSUME Assembled(program), WholeFolds(program), NEW k \in 1..Len(program), NEW j \in 0..k - 1, NEW v,
           FoldsTo(program, j + 1, k), PushesTo(j, k, Num(v))
    PROVE  Trunc(v) = v
<1>0. Len(program) \in Nat /\ k \in Nat /\ j \in Nat /\ j + 1 \in 1..Len(program) /\ k - (j + 1) + 1 = k - j
  <2>1. Len(program) \in Nat
    BY LenProperties DEF Assembled
  <2> QED
    BY <2>1
<1> DEFINE z == Started(<<>>)
           s == SetIp(z, program[j + 1].at)
<1>1. /\ IsRecord(z) /\ z.stack = <<>> /\ z.status = "running"
      /\ z.regs = [r \in Registers |-> z.regs[r]] /\ z.ram = [a \in Addresses |-> z.ram[a]]
  BY DEF Started, IsRecord, State
<1> HIDE DEF z
<1>2. s = State(program[j + 1].at, z.stack, z.regs, z.ram, z.in, z.out, z.status)
  BY <1>1, FieldSet
<1>3. program[j + 1].at = EndAt(j)
  <2>1. (j + 1) - 1 = j
    BY <1>0
  <2> QED
    BY <1>0, <2>1, BeginsAt
<1>4. IsSeq(<<>>)
  BY EmptySeq DEF IsSeq
<1> HIDE DEF s
<1>5. IsState(s) /\ s.status = "running" /\ s.ip = EndAt(j) /\ s.stack = <<>>
  BY <1>1, <1>2, <1>3, <1>4, StateIs, StateFields
<1> DEFINE t == Run(program, s, k - j)
<1>6. t = State(EndAt(k), Append(<<>>, Num(v)), s.regs, s.ram, s.in, s.out, "running")
  BY <1>5 DEF PushesTo
<1>7. Top(t) = Num(v)
  <2>1. t.stack = Append(<<>>, Num(v))
    BY <1>6, StateFields
  <2>2. Len(<<>>) = 0
    BY EmptySeq
  <2>3. Len(Append(<<>>, Num(v))) = 1 /\ Append(<<>>, Num(v))[1] = Num(v)
    BY <1>4, <2>2, Appended
  <2> QED
    BY <2>1, <2>3 DEF Top
<1>8. Trunc(Top(Run(program, s, k - (j + 1) + 1)).n) = Top(Run(program, s, k - (j + 1) + 1)).n
  <2>1. s = [Started(<<>>) EXCEPT !.ip = program[j + 1].at]
    BY Zenon DEF s, z, SetIp
  <2> QED
    BY <1>0, <2>1 DEF WholeFolds
<1>9. Top(t).n = v
  BY <1>7 DEF Num
<1> QED
  BY <1>0, <1>8, <1>9

(***************************************************************************)
(* What a kept command stands for: the command it was parsed from, a push  *)
(* merged into a pop, or the commands a fold computed.                     *)
(***************************************************************************)
JumpIn(cs, a) ==
    LET found == {k \in 1..Len(cs) : cs[k].native_ip = a}
    IN  IF found = {} THEN -1 ELSE cs[CHOOSE k \in found : TRUE].x86_ip

Linked == phase \in {"emit", "run"}

Single(k) ==
    /\ cmds[k].name = program[k].op /\ cmds[k].mode = program[k].mode /\ cmds[k].reg = program[k].reg
    /\ cmds[k].value = IF Linked /\ program[k].op \in JumpOps THEN JumpIn(cmds, program[k].value)
                       ELSE program[k].value

Mov(k) ==
    /\ IsImm(program, k - 1) /\ program[k].op = "pop" /\ program[k].mode = "reg"
    /\ cmds[k].name = "mov" /\ cmds[k].mode = "reg" /\ cmds[k].reg = program[k].reg
    /\ cmds[k].value = program[k - 1].value

Computed(j, k) ==
    /\ FoldsTo(program, j + 1, k)
    /\ cmds[k].name = "push" /\ cmds[k].mode = "imm"
    /\ \E v : cmds[k].value = v /\ PushesTo(j, k, Num(v))

StandsFor(j, k) == \/ j = k - 1 /\ Single(k)
                   \/ j = k - 2 /\ Mov(k)
                   \/ Computed(j, k)

Standing == \A k \in 1..Len(cmds) : Kept(k) => \E j \in 0..k - 1 : Gap(j, k) /\ StandsFor(j, k)

\* A skipped command has no label, and the one after it joins it.
Skips == \A k \in 1..Len(cmds) : ~Kept(k) => /\ k < Len(cmds) /\ JoinsPrevious(program, k + 1)
                                             /\ cmds[k].native_ip = 0 /\ cmds[k].name # "call"

Unplaced == phase = "optimize" => \A k \in 1..Len(cmds) : cmds[k].native_ip = 0
AllParsed == phase # "parse" => Len(cmds) = Len(program)
Loading == phase # "run" => cpu = Loaded

StandInv == Standing /\ Skips /\ Unplaced /\ AllParsed /\ Loading

LEMMA JumpInIs == \A a : JumpIp(a) = JumpIn(cmds, a)
  BY DEF JumpIp, JumpIn

LEMMA JumpInSame ==
    \A cs, ds : (/\ Len(cs) = Len(ds)
                 /\ \A k \in 1..Len(cs) : cs[k].native_ip = ds[k].native_ip /\ cs[k].x86_ip = ds[k].x86_ip) =>
        \A a : JumpIn(cs, a) = JumpIn(ds, a)
<1> TAKE cs, ds
<1> HAVE /\ Len(cs) = Len(ds)
         /\ \A k \in 1..Len(cs) : cs[k].native_ip = ds[k].native_ip /\ cs[k].x86_ip = ds[k].x86_ip
<1> TAKE a
<1> DEFINE F == {k \in 1..Len(cs) : cs[k].native_ip = a}
           G == {k \in 1..Len(ds) : ds[k].native_ip = a}
           f == CHOOSE k \in F : TRUE
<1>1. F = G
  OBVIOUS
<1>2. F # {} => f \in F
  OBVIOUS
<1>3. F # {} => cs[f].x86_ip = ds[f].x86_ip
  BY <1>2
<1>4. JumpIn(cs, a) = IF F = {} THEN -1 ELSE cs[f].x86_ip
  BY DEF JumpIn
<1>5. JumpIn(ds, a) = IF G = {} THEN -1 ELSE ds[CHOOSE k \in G : TRUE].x86_ip
  BY DEF JumpIn
<1> HIDE DEF F, G
<1> QED
  BY <1>1, <1>3, <1>4, <1>5

LEMMA PushesSame ==
    ASSUME program' = program, NEW j, NEW k, NEW v, PushesTo(j, k, v)
    PROVE  PushesTo(j, k, v)'
<1>1. EndAt(j)' = EndAt(j) /\ EndAt(k)' = EndAt(k)
  BY DEF EndAt
<1> QED
  BY <1>1 DEF PushesTo

LEMMA StandsSame ==
    ASSUME program' = program, NEW j, NEW k, StandsFor(j, k),
           cmds'[k].name = cmds[k].name, cmds'[k].mode = cmds[k].mode, cmds'[k].reg = cmds[k].reg,
           cmds'[k].value = cmds[k].value, Linked' = Linked,
           Linked => \A a : JumpIn(cmds', a) = JumpIn(cmds, a)
    PROVE  StandsFor(j, k)'
<1>1. Single(k) => Single(k)'
  BY DEF Single
<1>2. Mov(k) => Mov(k)'
  BY DEF Mov
<1>3. Computed(j, k) => Computed(j, k)'
  <2> SUFFICES ASSUME Computed(j, k) PROVE Computed(j, k)'
    OBVIOUS
  <2>1. PICK v : cmds[k].value = v /\ PushesTo(j, k, Num(v))
    BY DEF Computed
  <2>2. PushesTo(j, k, Num(v))'
    BY <2>1, PushesSame
  <2> QED
    BY <2>1, <2>2 DEF Computed
<1> QED
  BY <1>1, <1>2, <1>3 DEF StandsFor

LEMMA StandsLinked ==
    ASSUME program' = program, NEW j, NEW k, StandsFor(j, k),
           cmds'[k].name = cmds[k].name, cmds'[k].mode = cmds[k].mode, cmds'[k].reg = cmds[k].reg,
           cmds'[k].value = IF cmds[k].name \in JumpOps THEN JumpIn(cmds, cmds[k].value) ELSE cmds[k].value,
           ~Linked, Linked', \A a : JumpIn(cmds', a) = JumpIn(cmds, a)
    PROVE  StandsFor(j, k)'
<1>1. Single(k) => Single(k)'
  BY DEF Single
<1>2. Mov(k) => Mov(k)'
  BY DEF Mov, JumpOps, CondOps
<1>3. Computed(j, k) => Computed(j, k)'
  <2> SUFFICES ASSUME Computed(j, k) PROVE Computed(j, k)'
    OBVIOUS
  <2>1. PICK v : cmds[k].value = v /\ PushesTo(j, k, Num(v))
    BY DEF Computed
  <2>2. PushesTo(j, k, Num(v))'
    BY <2>1, PushesSame
  <2>3. cmds'[k].value = v
    BY <2>1 DEF Computed, JumpOps, CondOps
  <2> QED
    BY <2>2, <2>3 DEF Computed
<1> QED
  BY <1>1, <1>2, <1>3 DEF StandsFor

LEMMA PlaceArgs ==
    ASSUME IrTypeOK, Place, NEW k \in 1..Len(cmds)
    PROVE  /\ cmds'[k].reg = cmds[k].reg /\ cmds'[k].value = cmds[k].value
           /\ cmds'[k].native_ip # cmds[k].native_ip => Kept(k)
<1>1. CASE cmds[i].is_skip
  BY <1>1 DEF Place
<1>2. CASE ~cmds[i].is_skip
  <2>1. i \in 1..Len(cmds) /\ DOMAIN cmds = 1..Len(cmds) /\ cmds[i] \in IrCommand
    BY CmdsAre DEF IrTypeOK, Place
  <2> DEFINE c == [cmds[i] EXCEPT !.native_ip = native_ip, !.x86_ip = x86_ip]
  <2>2. cmds' = [cmds EXCEPT ![i] = c]
    BY <1>2, <2>1 DEF Place
  <2>3. c.reg = cmds[i].reg /\ c.value = cmds[i].value
    BY <2>1 DEF IrCommand
  <2> HIDE DEF c
  <2> QED
    BY <1>2, <2>1, <2>2, <2>3 DEF Kept
<1> QED
  BY <1>1, <1>2

LEMMA EmitArgs ==
    ASSUME IrTypeOK, Emit, NEW k \in 1..Len(cmds)
    PROVE  /\ cmds'[k].reg = cmds[k].reg /\ cmds'[k].value = cmds[k].value
           /\ cmds'[k].native_ip = cmds[k].native_ip /\ cmds'[k].x86_ip = cmds[k].x86_ip
<1>1. CASE cmds[i].is_skip
  BY <1>1 DEF Emit
<1>2. CASE ~cmds[i].is_skip
  <2>1. i \in 1..Len(cmds) /\ DOMAIN cmds = 1..Len(cmds) /\ cmds[i] \in IrCommand
    BY CmdsAre DEF IrTypeOK, Emit
  <2> DEFINE c == [cmds[i] EXCEPT !.pos = len]
  <2>2. cmds' = [cmds EXCEPT ![i] = c]
    BY <1>2, <2>1 DEF Emit
  <2>3. c.reg = cmds[i].reg /\ c.value = cmds[i].value /\ c.native_ip = cmds[i].native_ip /\ c.x86_ip = cmds[i].x86_ip
    BY <2>1 DEF IrCommand
  <2> HIDE DEF c
  <2> QED
    BY <1>2, <2>1, <2>2, <2>3 DEF Kept
<1> QED
  BY <1>1, <1>2

LEMMA LinkArgs ==
    ASSUME IrTypeOK, FillJumpLables, NEW k \in 1..Len(cmds)
    PROVE  /\ cmds'[k].reg = cmds[k].reg
           /\ cmds'[k].value = IF cmds[k].name \in JumpOps THEN JumpIn(cmds, cmds[k].value) ELSE cmds[k].value
<1>1. cmds[k] \in IrCommand
  BY CmdsAre DEF IrTypeOK
<1>2. cmds'[k] = IF cmds[k].name \in JumpOps THEN [cmds[k] EXCEPT !.value = JumpIp(cmds[k].value)] ELSE cmds[k]
  BY DEF FillJumpLables
<1>3. \A v : /\ [cmds[k] EXCEPT !.value = v].value = v /\ [cmds[k] EXCEPT !.value = v].reg = cmds[k].reg
  BY <1>1 DEF IrCommand
<1>4. JumpIp(cmds[k].value) = JumpIn(cmds, cmds[k].value)
  BY JumpInIs
<1> HIDE DEF JumpOps
<1> QED
  BY <1>2, <1>3, <1>4

(***************************************************************************)
(* What the optimizer makes of the commands.                               *)
(***************************************************************************)
\* A command that is as the program has it is no fold and no merge.
LEMMA IsSingle ==
    ASSUME NEW k \in 1..Len(program), NEW j \in 0..k - 1, StandsFor(j, k), cmds[k].name = program[k].op,
           Assembled(program), ~IsArith(program, k)
    PROVE  j = k - 1 /\ Single(k)
<1>0. Len(program) \in Nat /\ k \in Nat /\ j \in Nat
  BY LenProperties DEF Assembled
<1>1. ~Mov(k)
  BY DEF Mov
<1>2. ~Computed(j, k)
  <2> SUFFICES ASSUME Computed(j, k) PROVE IsArith(program, k)
    OBVIOUS
  <2>1. FoldsTo(program, j + 1, k)
    BY DEF Computed
  <2>2. k \in j + 1 + 1 .. k /\ (k - (j + 1)) % 2 = 0
    BY <1>0, <2>1 DEF FoldsTo
  <2>3. IF (k - (j + 1)) % 2 = 1 THEN IsImm(program, k) ELSE IsArith(program, k)
    BY <2>1, <2>2, Zenon DEF FoldsTo
  <2> QED
    BY <2>2, <2>3
<1> QED
  BY <1>1, <1>2 DEF StandsFor

LEMMA StandParse ==
    ASSUME IrTypeOK, AllTranslated(program), StandInv, ParseOnStructs
    PROVE  StandInv'
<1>1. PICK n \in 0..Len(program) : StopsAt(n) /\ cmds' = [k \in 1..n |-> Parsed(program[k])]
  BY DEF ParseOnStructs
<1>2. Len(program) \in Nat /\ program' = program /\ phase' = "optimize" /\ cpu' = cpu /\ input' = input /\ phase = "parse"
  BY LenProperties DEF IrTypeOK, Assembled, ParseOnStructs, Begin
<1>3. n = Len(program)
  BY <1>1, <1>2 DEF StopsAt, AllTranslated
<1>4. Len(cmds') = n
  BY <1>1, <1>2, IsSeqFunction
<1>5. \A k \in 1..n : /\ cmds'[k].name = program[k].op /\ cmds'[k].mode = program[k].mode
                      /\ cmds'[k].reg = program[k].reg /\ cmds'[k].value = program[k].value
                      /\ ~cmds'[k].is_skip /\ cmds'[k].native_ip = 0
  BY <1>1 DEF Parsed
<1>6. \A k \in 1..n : Gap(k - 1, k)'
  BY <1>2, <1>5 DEF Gap, Kept
<1>7. \A k \in 1..n : Single(k)'
  BY <1>2, <1>5 DEF Single, Linked
<1>8. Standing'
  BY <1>2, <1>4, <1>6, <1>7 DEF Standing, StandsFor
<1>9. Loading'
  BY <1>2 DEF StandInv, Loading, Loaded
<1> QED
  BY <1>2, <1>3, <1>4, <1>5, <1>8, <1>9 DEF StandInv, Skips, Unplaced, AllParsed, Kept

\* Kept commands the step leaves alone stand for what they stood for.
LEMMA StandsOther ==
    ASSUME IrTypeOK, program' = program, Standing, Len(cmds') = Len(cmds), phase = "optimize", phase' = "optimize",
           NEW k \in 1..Len(cmds), Kept(k), cmds'[k] = cmds[k],
           NEW n \in 1..Len(cmds), \A m \in n + 1 .. Len(cmds) : cmds'[m].is_skip = cmds[m].is_skip,
           Kept(n), cmds'[n].is_skip = cmds[n].is_skip, k # n,
           k < n => \A m \in 1..k : cmds'[m].is_skip = cmds[m].is_skip
    PROVE  \E j \in 0..k - 1 : Gap(j, k)' /\ StandsFor(j, k)'
<1>0. Len(cmds) \in Nat
  BY CmdsAre DEF IrTypeOK
<1>1. PICK j \in 0..k - 1 : Gap(j, k) /\ StandsFor(j, k)
  BY DEF Standing
<1>2. StandsFor(j, k)'
  BY <1>1, StandsSame DEF Linked
<1>3. k > n => j >= n
  <2> SUFFICES ASSUME k > n, j < n PROVE FALSE
    BY <1>0
  <2>1. n \in j + 1 .. k - 1
    BY <1>0
  <2> QED
    BY <1>1, <2>1 DEF Gap, Kept
<1>4. \A m \in 1..k - 1 : m >= j => cmds'[m].is_skip = cmds[m].is_skip
  BY <1>0, <1>3 DEF Kept
<1>5. Gap(j, k)'
  <2>1. k \in Nat
    BY <1>0
  <2> QED
    BY <1>1, <1>4, <2>1, GapSame
<1> QED
  BY <1>2, <1>5

LEMMA StandMerge ==
    ASSUME IrTypeOK, Ahead, StandInv, phase = "optimize", phase' = "optimize", NEW n \in 1..Len(cmds) - 1, i = n, MergesAt(n),
           cmds' = Merged(n), program' = program
    PROVE  Standing' /\ Skips'
<1>0. /\ Len(cmds) \in Nat /\ Len(program) = Len(cmds) /\ Assembled(program)
      /\ n \in 1..Len(cmds) /\ n + 1 \in 1..Len(cmds)
  BY CmdsAre DEF IrTypeOK, StandInv, AllParsed
<1>1. /\ Len(cmds') = Len(cmds)
      /\ \A m \in 1..Len(cmds) : m # n /\ m # n + 1 => cmds'[m] = cmds[m]
      /\ cmds'[n].is_skip = TRUE /\ cmds'[n].name = cmds[n].name
      /\ cmds'[n + 1].is_skip = cmds[n + 1].is_skip
      /\ cmds'[n + 1].name = "mov" /\ cmds'[n + 1].mode = cmds[n + 1].mode
  BY MergeFields DEF IrTypeOK
<1>2. /\ cmds'[n + 1].value = cmds[n].value /\ cmds'[n + 1].reg = cmds[n + 1].reg
      /\ cmds'[n].native_ip = cmds[n].native_ip
  <2>1. cmds[n] \in IrCommand /\ cmds[n + 1] \in IrCommand
    BY <1>0, CmdsAre DEF IrTypeOK
  <2>2. cmds'[n + 1] = MovRegNum(cmds[n + 1], cmds[n]) /\ cmds'[n] = Skipped(cmds[n])
    BY MergedProps DEF IrTypeOK
  <2> QED
    BY <2>1, <2>2 DEF MovRegNum, Skipped, IrCommand
<1>3. /\ cmds[n].name = "push" /\ cmds[n].mode = "imm" /\ cmds[n + 1].name = "pop" /\ cmds[n + 1].mode = "reg"
  BY DEF MergesAt, IsPushImm
<1>4. /\ Kept(n) /\ Kept(n + 1) /\ program[n].op = "push" /\ program[n].mode = "imm"
      /\ program[n + 1].op = "pop" /\ program[n + 1].mode = "reg"
  BY <1>0, <1>3 DEF Ahead
<1>5. PICK j \in 0..n - 1 : Gap(j, n) /\ StandsFor(j, n)
  BY <1>0, <1>4 DEF StandInv, Standing
<1>6. j = n - 1 /\ Single(n)
  BY <1>0, <1>3, <1>4, <1>5, IsSingle DEF IsArith, ArithOps
<1>7. PICK h \in 0..n : Gap(h, n + 1) /\ StandsFor(h, n + 1)
  BY <1>0, <1>4 DEF StandInv, Standing
<1>8. Single(n + 1)
  <2>1. h \in 0..(n + 1) - 1
    BY <1>0
  <2> QED
    BY <1>0, <1>3, <1>4, <1>7, <2>1, IsSingle DEF IsArith, ArithOps
<1>9. IsImm(program, n) /\ cmds[n].value = program[n].value /\ cmds[n + 1].reg = program[n + 1].reg
  BY <1>4, <1>6, <1>8 DEF IsImm, Single, Linked
<1>10. Mov(n + 1)'
  <2>1. (n + 1) - 1 = n
    BY <1>0
  <2>2. IsImm(program, (n + 1) - 1) /\ cmds'[n + 1].value = program[(n + 1) - 1].value
    BY <1>2, <1>9, <2>1
  <2> QED
    BY <1>1, <1>2, <1>3, <1>4, <1>9, <2>2 DEF Mov
<1>11. Standing'
  <2> SUFFICES ASSUME NEW k \in 1..Len(cmds), Kept(k)'
               PROVE  \E q \in 0..k - 1 : Gap(q, k)' /\ StandsFor(q, k)'
    BY <1>1 DEF Standing
  <2>1. CASE k = n + 1
    <3>1. Gap(n - 1, k)'
      BY <1>0, <1>1, <1>5, <1>6, <2>1 DEF Gap, Kept
    <3>2. n - 1 = k - 2 /\ n - 1 \in 0..k - 1
      BY <1>0, <2>1
    <3>3. StandsFor(n - 1, k)'
      BY <1>10, <2>1, <3>2 DEF StandsFor
    <3> QED
      BY <3>1, <3>2, <3>3
  <2>2. CASE k # n + 1
    <3>1. k # n /\ cmds'[k] = cmds[k] /\ Kept(k)
      BY <1>1, <2>2 DEF Kept
    <3>2. PICK b \in 1..Len(cmds) : b = n + 1
      BY <1>0
    <3>3. Kept(b) /\ cmds'[b].is_skip = cmds[b].is_skip
      BY <1>1, <1>4, <3>2 DEF Kept
    <3>4. \A m \in b + 1 .. Len(cmds) : cmds'[m].is_skip = cmds[m].is_skip
      BY <1>0, <1>1, <3>2
    <3>5. k < b => \A m \in 1..k : cmds'[m].is_skip = cmds[m].is_skip
      BY <1>0, <1>1, <3>1, <3>2
    <3> QED
      BY <1>1, <2>2, <3>1, <3>2, <3>3, <3>4, <3>5, StandsOther DEF StandInv
  <2> QED
    BY <2>1, <2>2
<1>12. Skips'
  <2> SUFFICES ASSUME NEW k \in 1..Len(cmds), ~Kept(k)'
               PROVE  /\ k < Len(cmds) /\ JoinsPrevious(program, k + 1)
                      /\ cmds'[k].native_ip = 0 /\ cmds'[k].name # "call"
    BY <1>1 DEF Skips
  <2>1. CASE k = n
    <3>1. JoinsPrevious(program, n + 1)
      BY <1>0, <1>4, <1>9 DEF JoinsPrevious
    <3>2. cmds[n].native_ip = 0
      BY <1>0 DEF StandInv, Unplaced
    <3> QED
      BY <1>0, <1>1, <1>2, <1>3, <2>1, <3>1, <3>2
  <2>2. CASE k # n
    <3>1. k # n + 1
      BY <1>1, <1>4 DEF Kept
    <3>2. cmds'[k] = cmds[k] /\ ~Kept(k)
      BY <1>1, <2>2, <3>1 DEF Kept
    <3> QED
      BY <3>2 DEF StandInv, Skips
  <2> QED
    BY <2>1, <2>2
<1> QED
  BY <1>11, <1>12

\* The members of a fold, and what it computes.
LEMMA FoldComputes ==
    ASSUME IrTypeOK, Ahead, StandInv, NoRefold(program), WholeFolds(program), LeftFirst,
           phase = "optimize", NEW n \in 3..Len(cmds), i = n, FoldsAt(n)
    PROVE  \E j \in 0..n - 3 : \E v :
              /\ Gap(j, n - 2) /\ FoldsTo(program, j + 1, n) /\ PushesTo(j, n, Num(v))
              /\ v = Constant(cmds[n].name, cmds[n - 1].value, cmds[n - 2].value)
              /\ cmds[n - 1].name # "call" /\ cmds[n - 2].name # "call"
<1>0. /\ Len(cmds) \in Nat /\ Len(program) = Len(cmds) /\ Assembled(program) /\ n \in Nat
      /\ n \in 1..Len(program) /\ n - 1 \in 1..Len(program) /\ n - 2 \in 1..Len(program) /\ n \in 3..Len(program)
      /\ (n - 2) - 1 = n - 3 /\ (n - 1) - 1 = n - 2
  BY CmdsAre DEF IrTypeOK, StandInv, AllParsed
<1>1. /\ Kept(n) /\ Kept(n - 1) /\ Kept(n - 2)
      /\ IsArith(program, n) /\ IsImm(program, n - 1) /\ IsConst(program, n - 2)
  BY FoldsKept
<1>2. cmds[n].name \in ArithOps /\ cmds[n - 1].mode = "imm" /\ cmds[n - 2].mode = "imm"
  BY DEF FoldsAt
<1>3. cmds[n].name = program[n].op
  BY <1>0, <1>2 DEF Ahead, ArithOps
<1>4. PICK h \in 0..(n - 1) - 1 : Gap(h, n - 1) /\ StandsFor(h, n - 1)
  BY <1>0, <1>1 DEF StandInv, Standing
<1>5. h = n - 2 /\ Single(n - 1)
  <2>1. ~Mov(n - 1)
    BY <1>1 DEF Mov, IsImm
  <2>2. ~Computed(h, n - 1)
    <3> SUFFICES ASSUME Computed(h, n - 1) PROVE FALSE
      OBVIOUS
    <3>1. FoldsTo(program, h + 1, n - 1)
      BY DEF Computed
    <3>2. n - 1 \in h + 1 + 1 .. n - 1 /\ ((n - 1) - (h + 1)) % 2 = 0
      BY <1>0, <3>1 DEF FoldsTo
    <3>3. IF ((n - 1) - (h + 1)) % 2 = 1 THEN IsImm(program, n - 1) ELSE IsArith(program, n - 1)
      BY <3>1, <3>2, Zenon DEF FoldsTo
    <3> QED
      BY <1>1, <3>2, <3>3 DEF IsImm, IsArith, ArithOps
  <2> QED
    BY <1>0, <1>4, <2>1, <2>2 DEF StandsFor
<1>6. cmds[n - 1].value = program[n - 1].value /\ cmds[n - 1].name = "push"
  BY <1>1, <1>5 DEF Single, Linked, IsImm
<1>7. PICK j \in 0..(n - 2) - 1 : Gap(j, n - 2) /\ StandsFor(j, n - 2)
  BY <1>0, <1>1 DEF StandInv, Standing
<1> DEFINE a == cmds[n - 2].value
           v == Arith(program[n].op, program[n - 1].value, a)
<1>8. /\ PushesTo(j, n - 2, Num(a)) /\ FoldsTo(program, j + 1, n) /\ cmds[n - 2].name # "call"
  <2>1. ~Mov(n - 2)
    BY <1>2 DEF Mov
  <2>2. CASE j = (n - 2) - 1 /\ Single(n - 2)
    <3>1. IsImm(program, n - 2)
      <4>1. program[n - 2].mode = "imm"
        BY <1>2, <2>2 DEF Single
      <4>2. program[n - 2].op \in {"push", "pop"}
        BY <1>0, <4>1 DEF Assembled
      <4> QED
        BY <1>1, <4>1, <4>2 DEF IsConst, IsImm, IsArith, ArithOps
    <3>2. PushesTo((n - 2) - 1, n - 2, Num(program[n - 2].value))
      BY <1>0, <3>1, ImmPushes
    <3>3. a = program[n - 2].value /\ cmds[n - 2].name = "push"
      BY <2>2, <3>1 DEF Single, Linked, IsImm
    <3>4. j + 1 = n - 2 /\ n - (n - 2) = 2 /\ n - 2 < n
      BY <1>0, <2>2
    <3>5. \A m \in (n - 2) + 1 .. n : m = n - 1 \/ m = n
      BY <1>0
    <3>6. (n - 1) - (n - 2) = 1 /\ 1 % 2 = 1 /\ 2 % 2 = 0
      BY <1>0
    <3>7. FoldsTo(program, n - 2, n)
      BY <1>1, <3>1, <3>4, <3>5, <3>6 DEF FoldsTo
    <3> QED
      BY <2>2, <3>2, <3>3, <3>4, <3>7
  <2>3. CASE Computed(j, n - 2)
    <3>1. FoldsTo(program, j + 1, n - 2) /\ PushesTo(j, n - 2, Num(a)) /\ cmds[n - 2].name = "push"
      BY <2>3 DEF Computed
    <3>2. /\ IsImm(program, j + 1) /\ j + 1 < n - 2 /\ ((n - 2) - (j + 1)) % 2 = 0
          /\ \A m \in (j + 1) + 1 .. n - 2 : IF (m - (j + 1)) % 2 = 1 THEN IsImm(program, m) ELSE IsArith(program, m)
      BY <3>1, Zenon DEF FoldsTo
    <3>3. /\ j \in Nat /\ j + 1 < n /\ (n - (j + 1)) % 2 = 0 /\ ((n - 1) - (j + 1)) % 2 = 1
          /\ \A m \in (j + 1) + 1 .. n : m \in (j + 1) + 1 .. n - 2 \/ m = n - 1 \/ m = n
      BY <1>0, <3>2
    <3>4. \A m \in (j + 1) + 1 .. n : IF (m - (j + 1)) % 2 = 1 THEN IsImm(program, m) ELSE IsArith(program, m)
      BY <1>1, <3>2, <3>3
    <3> QED
      BY <3>1, <3>2, <3>3, <3>4 DEF FoldsTo
  <2> QED
    BY <1>7, <2>1, <2>2, <2>3 DEF StandsFor
<1>9. PushesTo(j, n, Num(v))
  <2>1. j \in 0..n - 3
    BY <1>0
  <2> QED
    BY <1>0, <1>1, <1>8, <2>1, ArithPushes
<1>10. Trunc(v) = v
  <2>1. j \in 0..n - 1
    BY <1>0
  <2> QED
    BY <1>0, <1>8, <1>9, <2>1, FoldIsWhole
<1>11. v = Constant(cmds[n].name, cmds[n - 1].value, cmds[n - 2].value)
  BY <1>3, <1>6, <1>10 DEF Constant
<1>12. j \in 0..n - 3
  BY <1>0
<1> HIDE DEF v
<1> QED
  BY <1>6, <1>7, <1>8, <1>9, <1>11, <1>12

LEMMA StandFold ==
    ASSUME IrTypeOK, Ahead, StandInv, NoRefold(program), WholeFolds(program), LeftFirst,
           phase = "optimize", phase' = "optimize", NEW n \in 3..Len(cmds), i = n, FoldsAt(n),
           cmds[n].name \in ArithOps, cmds[n - 1].value \in Number, cmds[n - 2].value \in Number,
           cmds' = Folded(n), program' = program
    PROVE  Standing' /\ Skips'
<1>0. /\ Len(cmds) \in Nat /\ Len(program) = Len(cmds) /\ Assembled(program) /\ n \in Nat
      /\ n \in 1..Len(cmds) /\ n - 1 \in 1..Len(cmds) /\ n - 2 \in 1..Len(cmds)
  BY CmdsAre DEF IrTypeOK, StandInv, AllParsed
<1>1. /\ Len(cmds') = Len(cmds)
      /\ \A m \in 1..Len(cmds) : m # n /\ m # n - 1 /\ m # n - 2 => cmds'[m] = cmds[m]
      /\ \A m \in {n - 1, n - 2} : cmds'[m].is_skip = TRUE /\ cmds'[m].name = cmds[m].name
      /\ cmds'[n].is_skip = cmds[n].is_skip
      /\ cmds'[n].name = "push" /\ cmds'[n].mode = "imm"
  <2>1. cmds \in Seq(IrCommand)
    BY DEF IrTypeOK
  <2>2. /\ Len(cmds') = Len(cmds)
        /\ \A m \in 1..Len(cmds) : m # n /\ m # n - 1 /\ m # n - 2 => cmds'[m] = cmds[m]
    BY <2>1, FoldFields
  <2>3. \A m \in {n - 1, n - 2} : cmds'[m].is_skip = TRUE /\ cmds'[m].name = cmds[m].name
    <3>1. \A m \in {n - 1, n - 2} :
             /\ cmds'[m].is_skip = TRUE
             /\ cmds'[m].name = cmds[m].name /\ cmds'[m].mode = cmds[m].mode
             /\ cmds'[m].value = cmds[m].value /\ cmds'[m].x86_size = cmds[m].x86_size
      BY <2>1, FoldFields, Zenon
    <3> QED
      BY <3>1
  <2>4. /\ cmds'[n].is_skip = cmds[n].is_skip
        /\ cmds'[n].name = "push" /\ cmds'[n].mode = "imm"
    BY <2>1, FoldFields
  <2> QED
    BY <2>2, <2>3, <2>4
<1>2. /\ cmds'[n].value = Constant(cmds[n].name, cmds[n - 1].value, cmds[n - 2].value)
      /\ \A m \in {n - 1, n - 2} : cmds'[m].native_ip = cmds[m].native_ip
  <2>1. cmds[n] \in IrCommand /\ cmds[n - 1] \in IrCommand /\ cmds[n - 2] \in IrCommand
    BY <1>0, CmdsAre DEF IrTypeOK
  <2>2. /\ cmds'[n] = PushConstant(cmds[n], cmds[n - 1], cmds[n - 2])
        /\ \A m \in {n - 1, n - 2} : cmds'[m] = Skipped(cmds[m])
    BY FoldedProps DEF IrTypeOK
  <2>3. cmds'[n].value = Constant(cmds[n].name, cmds[n - 1].value, cmds[n - 2].value)
    BY <2>1, <2>2 DEF PushConstant, IrCommand
  <2>4. \A r \in IrCommand : Skipped(r).native_ip = r.native_ip
    BY DEF Skipped, IrCommand
  <2> QED
    BY <2>1, <2>2, <2>3, <2>4
<1>3. Kept(n) /\ Kept(n - 1) /\ Kept(n - 2) /\ IsArith(program, n) /\ IsImm(program, n - 1) /\ IsConst(program, n - 2)
  BY FoldsKept
<1>3a. PICK j \in 0..n - 3 : \E v :
         /\ Gap(j, n - 2) /\ FoldsTo(program, j + 1, n) /\ PushesTo(j, n, Num(v))
         /\ v = Constant(cmds[n].name, cmds[n - 1].value, cmds[n - 2].value)
         /\ cmds[n - 1].name # "call" /\ cmds[n - 2].name # "call"
  BY FoldComputes
<1>4. PICK v :
         /\ Gap(j, n - 2) /\ FoldsTo(program, j + 1, n) /\ PushesTo(j, n, Num(v))
         /\ v = Constant(cmds[n].name, cmds[n - 1].value, cmds[n - 2].value)
         /\ cmds[n - 1].name # "call" /\ cmds[n - 2].name # "call"
  BY <1>3a
<1>5. Computed(j, n)'
  <2>1. PushesTo(j, n, Num(v))'
    BY <1>4, PushesSame
  <2>2. cmds'[n].value = v
    BY <1>2, <1>4
  <2> QED
    BY <1>1, <1>4, <2>1, <2>2 DEF Computed
<1>6. Gap(j, n)'
  <2>1. \A m \in 1..Len(cmds) : m # n - 1 /\ m # n - 2 => cmds'[m].is_skip = cmds[m].is_skip
    BY <1>0, <1>1
  <2>2. j = 0 \/ (j \in 1..Len(cmds) /\ j # n - 1 /\ j # n - 2)
    BY <1>0
  <2>3. \A m \in j + 1 .. n - 1 : m = n - 1 \/ m = n - 2 \/ (m \in j + 1 .. (n - 2) - 1 /\ m \in 1..Len(cmds) /\ m # n - 1 /\ m # n - 2)
    BY <1>0
  <2> QED
    BY <1>1, <1>4, <2>1, <2>2, <2>3 DEF Gap, Kept
<1>7. Standing'
  <2> SUFFICES ASSUME NEW k \in 1..Len(cmds), Kept(k)'
               PROVE  \E q \in 0..k - 1 : Gap(q, k)' /\ StandsFor(q, k)'
    BY <1>1 DEF Standing
  <2>1. CASE k = n
    <3>1. j \in 0..n - 1
      BY <1>0
    <3> QED
      BY <1>5, <1>6, <2>1, <3>1 DEF StandsFor
  <2>2. CASE k # n
    <3>1. k # n - 1 /\ k # n - 2 /\ cmds'[k] = cmds[k] /\ Kept(k)
      BY <1>1, <2>2 DEF Kept
    <3>2. \A m \in n + 1 .. Len(cmds) : m \in 1..Len(cmds) /\ m # n /\ m # n - 1 /\ m # n - 2
      BY <1>0
    <3>4. \A m \in n + 1 .. Len(cmds) : cmds'[m].is_skip = cmds[m].is_skip
      BY <1>1, <3>2
    <3>5. k < n => \A m \in 1..k : cmds'[m].is_skip = cmds[m].is_skip
      <4>1. k < n => \A m \in 1..k : m \in 1..Len(cmds) /\ m # n /\ m # n - 1 /\ m # n - 2
        BY <1>0, <3>1
      <4> QED
        BY <1>1, <4>1
    <3> QED
      BY <1>0, <1>1, <1>3, <2>2, <3>1, <3>4, <3>5, StandsOther DEF StandInv
  <2> QED
    BY <2>1, <2>2
<1>8. JoinsPrevious(program, n) /\ JoinsPrevious(program, n - 1)
  <2>1. (n - 1) - 1 = n - 2 /\ n > 1 /\ n - 1 > 1
    BY <1>0
  <2> QED
    BY <1>3, <2>1 DEF JoinsPrevious, IsConst
<1>9. Skips'
  <2> SUFFICES ASSUME NEW k \in 1..Len(cmds), ~Kept(k)'
               PROVE  /\ k < Len(cmds) /\ JoinsPrevious(program, k + 1)
                      /\ cmds'[k].native_ip = 0 /\ cmds'[k].name # "call"
    BY <1>1 DEF Skips
  <2>1. CASE k = n - 1 \/ k = n - 2
    <3>1. cmds[k].native_ip = 0
      BY DEF StandInv, Unplaced
    <3>2. k + 1 = n \/ k + 1 = n - 1
      BY <1>0, <2>1
    <3>3. k < Len(cmds)
      BY <1>0, <2>1
    <3> QED
      BY <1>1, <1>2, <1>4, <1>8, <2>1, <3>1, <3>2, <3>3
  <2>2. CASE k # n - 1 /\ k # n - 2
    <3>1. k # n
      BY <1>1, <1>3 DEF Kept
    <3>2. cmds'[k] = cmds[k] /\ ~Kept(k)
      BY <1>1, <2>2, <3>1 DEF Kept
    <3> QED
      BY <3>2 DEF StandInv, Skips
  <2> QED
    BY <2>1, <2>2
<1> QED
  BY <1>7, <1>9

(***************************************************************************)
(* The other phases leave what a command stands for as it is.              *)
(***************************************************************************)
LEMMA StandingSame ==
    ASSUME IrTypeOK, Standing, program' = program, SameShape,
           \A k \in 1..Len(cmds) : \A j \in 0..k - 1 : StandsFor(j, k) => StandsFor(j, k)'
    PROVE  Standing'
<1>0. Len(cmds) \in Nat
  BY CmdsAre DEF IrTypeOK
<1> SUFFICES ASSUME NEW k \in 1..Len(cmds), Kept(k)'
             PROVE  \E j \in 0..k - 1 : Gap(j, k)' /\ StandsFor(j, k)'
  BY DEF Standing, SameShape
<1>1. Kept(k)
  BY DEF Kept, SameShape
<1>2. PICK j \in 0..k - 1 : Gap(j, k) /\ StandsFor(j, k)
  BY <1>1 DEF Standing
<1>3. Gap(j, k)'
  <2>1. k \in Nat /\ \A m \in 1..k - 1 : m >= j => cmds'[m].is_skip = cmds[m].is_skip
    BY <1>0 DEF SameShape
  <2> QED
    BY <1>2, <2>1, GapSame
<1> QED
  BY <1>2, <1>3

LEMMA StandStep ==
    ASSUME IrTypeOK, Ahead, StandInv, NoRefold(program), AllTranslated(program), WholeFolds(program),
           LeftFirst, [Next]_vars
    PROVE  StandInv'
<1>0. Len(cmds) \in Nat
  BY CmdsAre DEF IrTypeOK
<1>1. CASE ParseOnStructs
  BY <1>1, StandParse
<1>2. CASE OptimizeStep
  <2>1. i \in 1..Len(cmds) - 1 /\ phase = "optimize" /\ program' = program
    BY <1>2, OptimizeCases
  <2>2. cpu' = cpu /\ input' = input
    BY <1>2 DEF OptimizeStep
  <2>3. phase' \in {"optimize", "crashed"} /\ Loading'
    BY <1>2, <2>1, <2>2, OptimizeCases DEF StandInv, Loading, Loaded
  <2>4. CASE cmds' = cmds
    <3>1. SameShape /\ \A k \in 1..Len(cmds) : \A j \in 0..k - 1 : StandsFor(j, k) => StandsFor(j, k)'
      BY <2>1, <2>3, <2>4, StandsSame DEF SameShape, Linked
    <3>2. Standing'
      BY <2>1, <3>1, StandingSame DEF StandInv
    <3> QED
      BY <2>1, <2>3, <2>4, <3>2 DEF StandInv, Skips, Unplaced, AllParsed, Kept
  <2>5. CASE phase' = "optimize" /\ MergesAt(i) /\ cmds' = Merged(i)
    <3>1. PICK n \in 1..Len(cmds) - 1 : n = i
      BY <2>1
    <3>2. MergesAt(n) /\ cmds' = Merged(n)
      BY <2>5, <3>1
    <3>3. Standing' /\ Skips'
      BY <2>1, <2>5, <3>1, <3>2, StandMerge
    <3>4. Len(cmds') = Len(cmds)
      BY <3>2, MergedProps DEF IrTypeOK
    <3>5. \A k \in 1..Len(cmds) : cmds'[k].native_ip = cmds[k].native_ip
      <4>1. \A k \in 1..Len(cmds) : k # n /\ k # n + 1 => cmds'[k] = cmds[k]
        BY <3>2, MergedProps DEF IrTypeOK
      <4>2. cmds'[n] = Skipped(cmds[n]) /\ cmds'[n + 1] = MovRegNum(cmds[n + 1], cmds[n])
        BY <3>2, MergedProps DEF IrTypeOK
      <4>3. cmds[n] \in IrCommand /\ cmds[n + 1] \in IrCommand
        BY <1>0, CmdsAre DEF IrTypeOK
      <4>4. cmds'[n].native_ip = cmds[n].native_ip /\ cmds'[n + 1].native_ip = cmds[n + 1].native_ip
        BY <4>2, <4>3 DEF Skipped, MovRegNum, IrCommand
      <4> QED
        BY <4>1, <4>4
    <3> QED
      BY <2>1, <2>3, <2>5, <3>3, <3>4, <3>5 DEF StandInv, Unplaced, AllParsed
  <2>6. CASE /\ phase' = "optimize" /\ i \in 3..Len(cmds) /\ FoldsAt(i) /\ cmds' = Folded(i)
             /\ cmds[i].name \in ArithOps
             /\ cmds[i - 1].value \in Number /\ cmds[i - 2].value \in Number
    <3>1. PICK n \in 3..Len(cmds) : n = i
      BY <2>6
    <3>2. /\ FoldsAt(n) /\ cmds' = Folded(n) /\ cmds[n].name \in ArithOps
          /\ cmds[n - 1].value \in Number /\ cmds[n - 2].value \in Number
      BY <2>6, <3>1
    <3>3. Standing' /\ Skips'
      BY <2>1, <2>6, <3>1, <3>2, StandFold
    <3>4. /\ Len(cmds') = Len(cmds)
          /\ \A k \in 1..Len(cmds) : k # n /\ k # n - 1 /\ k # n - 2 => cmds'[k] = cmds[k]
          /\ \A k \in {n - 1, n - 2} : cmds'[k] = Skipped(cmds[k])
          /\ cmds'[n] = PushConstant(cmds[n], cmds[n - 1], cmds[n - 2])
      BY <3>2, FoldedProps DEF IrTypeOK
    <3>5. \A k \in 1..Len(cmds) : cmds'[k].native_ip = cmds[k].native_ip
      <4>1. \A k \in 1..Len(cmds) : cmds[k] \in IrCommand
        BY CmdsAre DEF IrTypeOK
      <4>2. \A r \in IrCommand : Skipped(r).native_ip = r.native_ip
        BY DEF Skipped, IrCommand
      <4>3. \A r \in IrCommand : \A p, q : PushConstant(r, p, q).native_ip = r.native_ip
        BY DEF PushConstant, IrCommand
      <4>4. cmds'[n].native_ip = cmds[n].native_ip
        <5>1. cmds[n] \in IrCommand
          BY <1>0, <4>1
        <5> QED
          BY <3>4, <4>3, <5>1
      <4>5. \A k \in {n - 1, n - 2} : cmds'[k].native_ip = cmds[k].native_ip
        <5>1. cmds[n - 1] \in IrCommand /\ cmds[n - 2] \in IrCommand
          BY <1>0, <4>1
        <5> QED
          BY <3>4, <4>2, <5>1
      <4> QED
        BY <3>4, <4>4, <4>5
    <3> QED
      BY <2>1, <2>3, <2>6, <3>3, <3>4, <3>5 DEF StandInv, Unplaced, AllParsed
  <2> QED
    BY <1>2, <2>4, <2>5, <2>6, OptimizeCases
<1>3. CASE Place
  <2>1. /\ SameShape /\ phase = "place" /\ phase' = "place" /\ program' = program
        /\ cpu' = cpu /\ input' = input
    BY <1>3, PlaceProps DEF Place
  <2>2. \A k \in 1..Len(cmds) : \A j \in 0..k - 1 : StandsFor(j, k) => StandsFor(j, k)'
    <3> SUFFICES ASSUME NEW k \in 1..Len(cmds), NEW j \in 0..k - 1, StandsFor(j, k) PROVE StandsFor(j, k)'
      OBVIOUS
    <3>1. cmds'[k].reg = cmds[k].reg /\ cmds'[k].value = cmds[k].value
      BY <1>3, PlaceArgs
    <3> QED
      BY <2>1, <3>1, StandsSame DEF SameShape, Linked
  <2>3. Standing'
    BY <2>1, <2>2, StandingSame DEF StandInv
  <2>4. \A k \in 1..Len(cmds) : ~Kept(k) => cmds'[k].native_ip = cmds[k].native_ip
    BY <1>3, PlaceArgs
  <2> QED
    BY <2>1, <2>3, <2>4 DEF StandInv, Skips, Unplaced, AllParsed, Loading, Loaded, Kept, SameShape
<1>4. CASE FillJumpLables
  <2>1. /\ SameShape /\ phase = "link" /\ phase' = "emit" /\ program' = program
        /\ cpu' = cpu /\ input' = input
        /\ \A k \in 1..Len(cmds) : cmds'[k].native_ip = cmds[k].native_ip /\ cmds'[k].x86_ip = cmds[k].x86_ip
    BY <1>4, LinkProps DEF FillJumpLables, Begin
  <2>2. \A a : JumpIn(cmds', a) = JumpIn(cmds, a)
    BY <2>1, JumpInSame DEF SameShape
  <2>3. \A k \in 1..Len(cmds) : \A j \in 0..k - 1 : StandsFor(j, k) => StandsFor(j, k)'
    <3> SUFFICES ASSUME NEW k \in 1..Len(cmds), NEW j \in 0..k - 1, StandsFor(j, k) PROVE StandsFor(j, k)'
      OBVIOUS
    <3>1. /\ cmds'[k].reg = cmds[k].reg
          /\ cmds'[k].value = IF cmds[k].name \in JumpOps THEN JumpIn(cmds, cmds[k].value) ELSE cmds[k].value
      BY <1>4, LinkArgs
    <3> QED
      BY <2>1, <2>2, <3>1, StandsLinked DEF SameShape, Linked
  <2>4. Standing'
    BY <2>1, <2>3, StandingSame DEF StandInv
  <2> QED
    BY <2>1, <2>4 DEF StandInv, Skips, Unplaced, AllParsed, Loading, Loaded, Kept, SameShape
<1>5. CASE Emit
  <2>1. /\ SameShape /\ phase = "emit" /\ phase' = "emit" /\ program' = program
        /\ cpu' = cpu /\ input' = input
        /\ \A k \in 1..Len(cmds) : cmds'[k].native_ip = cmds[k].native_ip /\ cmds'[k].x86_ip = cmds[k].x86_ip
    BY <1>5, EmitProps, EmitArgs DEF Emit
  <2>2. \A a : JumpIn(cmds', a) = JumpIn(cmds, a)
    BY <2>1, JumpInSame DEF SameShape
  <2>3. \A k \in 1..Len(cmds) : \A j \in 0..k - 1 : StandsFor(j, k) => StandsFor(j, k)'
    <3> SUFFICES ASSUME NEW k \in 1..Len(cmds), NEW j \in 0..k - 1, StandsFor(j, k) PROVE StandsFor(j, k)'
      OBVIOUS
    <3>1. cmds'[k].reg = cmds[k].reg /\ cmds'[k].value = cmds[k].value
      BY <1>5, EmitArgs
    <3> QED
      BY <2>1, <2>2, <3>1, StandsSame DEF SameShape, Linked
  <2>4. Standing'
    BY <2>1, <2>3, StandingSame DEF StandInv
  <2> QED
    BY <2>1, <2>4 DEF StandInv, Skips, Unplaced, AllParsed, Loading, Loaded, Kept, SameShape
<1>6. CASE OptimizeEnd \/ PlaceEnd \/ EmitEnd \/ RunCommand \/ UNCHANGED vars
  <2>1. /\ cmds' = cmds /\ program' = program /\ input' = input
        /\ Linked' = Linked /\ (phase' = "optimize" => phase = "optimize") /\ (phase' # "parse" => phase # "parse")
        /\ phase' # "run" => phase # "run" /\ cpu' = cpu
    BY <1>6 DEF OptimizeEnd, PlaceEnd, EmitEnd, RunCommand, Begin, Linked, vars
  <2>2. SameShape /\ \A k \in 1..Len(cmds) : \A j \in 0..k - 1 : StandsFor(j, k) => StandsFor(j, k)'
    BY <2>1, StandsSame DEF SameShape
  <2>3. Standing'
    BY <2>1, <2>2, StandingSame DEF StandInv
  <2> QED
    BY <2>1, <2>3 DEF StandInv, Skips, Unplaced, AllParsed, Loading, Loaded, Kept
<1> QED
  BY <1>1, <1>2, <1>3, <1>4, <1>5, <1>6 DEF Next

(***************************************************************************)
(* Where the written commands lie.                                         *)
(***************************************************************************)
Placed == /\ LabelsInv /\ CodeInv /\ StandInv /\ AllTranslated(program)
            /\ phase = "run"

\* The end of the header or of a kept command: where rip can be.
Arrived(m) == m = 0 \/ Kept(m)

LEMMA EmittedSome ==
    ASSUME Placed, NEW k \in 1..Len(cmds), Kept(k)
    PROVE  Emitted(cmds[k]) \in Nat /\ Emitted(cmds[k]) > 0
<1> USE DEF Ptr, LoadXmm0, StoreXmm0, AddRsp, RegToRsi
<1>0. cmds[k] \in IrCommand /\ Len(program) = Len(cmds) /\ Assembled(program)
  BY CmdsAre DEF Placed, LabelsInv, IrTypeOK, StandInv, AllParsed
<1>1. PICK j \in 0..k - 1 : StandsFor(j, k)
  BY DEF Placed, StandInv, Standing
<1>2. CASE Single(k)
  <2>1. /\ cmds[k].name = program[k].op /\ cmds[k].mode = program[k].mode /\ cmds[k].mode \in Modes
        /\ program[k].mode # "imm_reg"
        /\ program[k].mode = "none" <=> program[k].op \notin {"push", "pop"}
    BY <1>0, <1>2 DEF Single, IrCommand, Placed, AllTranslated, Assembled
  <2>2. EmittedPushPop(cmds[k]) \in Nat /\ (cmds[k].mode \notin {"imm_reg", "none"} => EmittedPushPop(cmds[k]) > 0)
    BY <2>1 DEF EmittedPushPop, Modes
  <2>3. cmds[k].name \in {"push", "pop"} => Emitted(cmds[k]) = EmittedPushPop(cmds[k])
    BY DEF Emitted, CondOps, ArithOps
  <2>4. cmds[k].name \notin {"push", "pop"} => Emitted(cmds[k]) \in Nat /\ Emitted(cmds[k]) > 0
    BY DEF Emitted, CondOps, ArithOps
  <2> QED
    BY <2>1, <2>2, <2>3, <2>4
<1>3. CASE Mov(k)
  BY <1>3 DEF Mov, Emitted, CondOps, ArithOps
<1>4. CASE Computed(j, k)
  BY <1>4 DEF Computed, Emitted, EmittedPushPop
<1> QED
  BY <1>1, <1>2, <1>3, <1>4 DEF StandsFor

LEMMA LiesAt ==
    ASSUME Placed, NEW k \in 1..Len(cmds), Kept(k)
    PROVE  /\ CodeEnd(k) = cmds[k].pos + Emitted(cmds[k])
           /\ \E j \in 0..k - 1 :
                 /\ Gap(j, k) /\ StandsFor(j, k)
                 /\ cmds[k].native_ip = EndAt(j) /\ cmds[k].native_ip + cmds[k].native_size = EndAt(k)
                 /\ cmds[k].pos = CodeEnd(j) /\ cmds[k].x86_ip = CodeEnd(j)
<1>0. Len(cmds) \in Nat /\ k \in Nat /\ Assembled(program) /\ Len(program) = Len(cmds) /\ cmds[k] \in IrCommand
  BY CmdsAre DEF Placed, LabelsInv, IrTypeOK, StandInv, AllParsed
<1>1. PICK j \in 0..k - 1 : Gap(j, k) /\ StandsFor(j, k)
  BY DEF Placed, StandInv, Standing
<1>2. PICK h \in 0..k - 1 : Gap(h, k) /\ cmds[k].native_size = EndAt(k) - EndAt(h)
  BY DEF Placed, LabelsInv, Groups
<1>3. PICK g \in 0..k - 1 : Gap(g, k) /\ cmds[k].x86_ip = CodeEnd(g)
  BY DEF Placed, CodeInv, Chain, Done
<1>4. h = j /\ g = j
  BY <1>0, <1>1, <1>2, <1>3, GapUnique
<1>5. cmds[k].native_ip + cmds[k].native_size = EndAt(k)
  BY <1>0 DEF Placed, LabelsInv, Labels, LabelsAgree, Done, Kept, EndAt
<1>6. cmds[k].pos = cmds[k].x86_ip
  BY DEF Placed, CodeInv, Written, CodeAgrees, Done, Kept
<1>7. cmds[k].x86_size = Emitted(cmds[k])
  BY DEF Placed, CodeInv, Sizes
<1>8. EndAt(j) \in Nat /\ EndAt(k) \in Nat
  <2>1. j \in 0..Len(program) /\ k \in 0..Len(program)
    BY <1>0
  <2> QED
    BY <1>0, <2>1, EndAtNat
<1>9. cmds[k].native_ip = EndAt(j)
  <2>1. cmds[k].native_ip \in Nat
    BY <1>0 DEF IrCommand
  <2>2. cmds[k].native_size = EndAt(k) - EndAt(j)
    BY <1>2, <1>4
  <2> QED
    BY <1>5, <1>8, <2>1, <2>2
<1>10. CodeEnd(k) = cmds[k].pos + Emitted(cmds[k])
  BY <1>0, <1>6, <1>7 DEF CodeEnd
<1> QED
  BY <1>1, <1>3, <1>4, <1>5, <1>6, <1>9, <1>10

LEMMA CodeEndNat ==
    ASSUME Placed, NEW j \in 0..Len(cmds)
    PROVE  CodeEnd(j) \in Nat
<1>1. CASE j = 0
  BY <1>1 DEF CodeEnd
<1>2. CASE j # 0
  <2>1. j \in 1..Len(cmds) /\ cmds[j] \in IrCommand
    BY <1>2, CmdsAre DEF Placed, LabelsInv, IrTypeOK
  <2> QED
    BY <1>2, <2>1 DEF CodeEnd, IrCommand
<1> QED
  BY <1>1, <1>2

\* Later commands end later.
LEMMA CodeRises ==
    ASSUME Placed
    PROVE  \A k \in 0..Len(cmds) : Arrived(k) => \A j \in 0..k - 1 : Arrived(j) => CodeEnd(j) < CodeEnd(k)
<1> DEFINE P(k) == Arrived(k) => \A j \in 0..k - 1 : Arrived(j) => CodeEnd(j) < CodeEnd(k)
           S == {n \in 0..Len(cmds) : \A k \in 0..n : P(k)}
<1>0. Len(cmds) \in Nat
  BY CmdsAre DEF Placed, LabelsInv, IrTypeOK
<1>1. 0 \in S
  <2>1. \A k \in 0..0 : 0..k - 1 = {}
    OBVIOUS
  <2>2. \A k \in 0..0 : P(k)
    BY <2>1
  <2> HIDE DEF P
  <2> QED
    BY <1>0, <2>2
<1>2. ASSUME NEW n \in 1..Len(cmds), n - 1 \in S PROVE n \in S
  <2>1. P(n)
    <3> SUFFICES ASSUME Arrived(n), NEW j \in 0..n - 1, Arrived(j) PROVE CodeEnd(j) < CodeEnd(n)
      OBVIOUS
    <3>1. Kept(n) /\ n \in 1..Len(cmds) /\ n \in Nat
      BY <1>0 DEF Arrived
    <3>2. PICK h \in 0..n - 1 : Gap(h, n) /\ cmds[n].pos = CodeEnd(h)
      BY <3>1, LiesAt
    <3>3. CodeEnd(n) = cmds[n].pos + Emitted(cmds[n])
      BY <3>1, LiesAt
    <3>4. Emitted(cmds[n]) \in Nat /\ Emitted(cmds[n]) > 0
      BY <3>1, EmittedSome
    <3>5. CodeEnd(h) \in Nat /\ CodeEnd(j) \in Nat
      BY <1>0, CodeEndNat
    <3>6. CodeEnd(h) < CodeEnd(n)
      BY <3>2, <3>3, <3>4, <3>5
    <3>7. j <= h
      <4> SUFFICES ASSUME j > h PROVE FALSE
        BY <1>0
      <4>1. j \in h + 1 .. n - 1 /\ j # 0
        BY <1>0
      <4> QED
        BY <3>2, <4>1 DEF Gap, Arrived, Kept
    <3>8. CASE j = h
      BY <3>6, <3>8
    <3>9. CASE j # h
      <4>1. j \in 0..h - 1 /\ h \in 0..n - 1 /\ Arrived(h)
        BY <1>0, <3>2, <3>7, <3>9 DEF Gap, Arrived
      <4>2. CodeEnd(j) < CodeEnd(h)
        BY <1>2, <4>1
      <4>3. CodeEnd(n) \in Nat
        BY <1>0, CodeEndNat
      <4> QED
        BY <3>5, <3>6, <4>2, <4>3
    <3> QED
      BY <3>8, <3>9
  <2>2. \A k \in 0..n : k = n \/ k \in 0..n - 1
    BY <1>0
  <2> HIDE DEF P
  <2> QED
    BY <1>0, <1>2, <2>1, <2>2
<1>3. 0..Len(cmds) \subseteq S
  <2> HIDE DEF S
  <2> QED
    BY <1>0, <1>1, <1>2, Loop!PlacesInduction
<1>4. \A k \in 0..Len(cmds) : P(k)
  <2>1. \A k \in 0..Len(cmds) : k \in 0..k
    BY <1>0
  <2> HIDE DEF P
  <2> QED
    BY <1>3, <2>1
<1> QED
  BY <1>4

LEMMA CodeEndOnce ==
    ASSUME Placed, NEW j \in 0..Len(cmds), NEW k \in 0..Len(cmds), Arrived(j), Arrived(k), CodeEnd(j) = CodeEnd(k)
    PROVE  j = k
<1>1. Len(cmds) \in Nat /\ CodeEnd(j) \in Nat /\ CodeEnd(k) \in Nat
  BY CmdsAre, CodeEndNat DEF Placed, LabelsInv, IrTypeOK
<1>2. ~(j < k)
  <2>1. j < k => j \in 0..k - 1
    BY <1>1
  <2> QED
    BY <1>1, <2>1, CodeRises
<1>3. ~(k < j)
  <2>1. k < j => k \in 0..j - 1
    BY <1>1
  <2> QED
    BY <1>1, <2>1, CodeRises
<1> QED
  BY <1>1, <1>2, <1>3

\* One kept command follows.
LEMMA GapFollows ==
    ASSUME NEW j \in Nat, NEW k \in Nat, NEW m \in Nat, j < k, j < m, Kept(k), Kept(m), Gap(j, k), Gap(j, m)
    PROVE  k = m
<1>1. ~(k < m)
  BY DEF Gap, Kept
<1>2. ~(m < k)
  BY DEF Gap, Kept
<1> QED
  BY <1>1, <1>2

LEMMA NextKept ==
    ASSUME Placed, NEW m \in 0..Len(cmds) - 1, Arrived(m)
    PROVE  \E k \in m + 1 .. Len(cmds) : Kept(k) /\ Gap(m, k)
<1>0. Len(cmds) \in Nat /\ m \in Nat
  BY CmdsAre DEF Placed, LabelsInv, IrTypeOK
<1> SUFFICES ASSUME \A k \in m + 1 .. Len(cmds) : ~(Kept(k) /\ Gap(m, k)) PROVE FALSE
  OBVIOUS
<1> DEFINE S == {n \in 0..Len(cmds) - m : \A k \in m + 1 .. m + n : ~Kept(k)}
<1>1. 0 \in S
  BY <1>0
<1>2. ASSUME NEW n \in 1..Len(cmds) - m, n - 1 \in S PROVE n \in S
  <2>1. \A k \in m + 1 .. (m + n) - 1 : ~Kept(k)
    BY <1>0, <1>2
  <2>2. Gap(m, m + n)
    BY <1>0, <2>1 DEF Gap, Arrived, Kept
  <2>3. m + n \in m + 1 .. Len(cmds)
    BY <1>0
  <2>4. ~Kept(m + n)
    BY <2>2, <2>3
  <2>5. \A k \in m + 1 .. m + n : k = m + n \/ k \in m + 1 .. (m + n) - 1
    BY <1>0
  <2> QED
    BY <1>0, <2>1, <2>4, <2>5
<1>3. 0..Len(cmds) - m \subseteq S
  <2>1. Len(cmds) - m \in Nat
    BY <1>0
  <2> HIDE DEF S
  <2> QED
    BY <1>1, <1>2, <2>1, Loop!PlacesInduction
<1>4. ~Kept(Len(cmds))
  <2>1. Len(cmds) - m \in 0..Len(cmds) - m /\ Len(cmds) \in m + 1 .. m + (Len(cmds) - m)
    BY <1>0
  <2> QED
    BY <1>3, <2>1
<1>5. Len(cmds) \in 1..Len(cmds)
  BY <1>0
<1>6. Len(cmds) < Len(cmds)
  BY <1>4, <1>5 DEF Placed, StandInv, Skips
<1> QED
  BY <1>0, <1>6

LEMMA CommandAtIs ==
    ASSUME Placed, NEW j \in 0..Len(cmds), NEW k \in 1..Len(cmds), j < k, Arrived(j), Kept(k), Gap(j, k)
    PROVE  CommandAt(CodeEnd(j)) = {k} /\ NativeIp(CodeEnd(j)) = EndAt(j)
<1>0. Len(cmds) \in Nat
  BY CmdsAre DEF Placed, LabelsInv, IrTypeOK
<1>1. ASSUME NEW m \in 1..Len(cmds), Kept(m), cmds[m].pos = CodeEnd(j) PROVE m = k
  <2>1. PICK h \in 0..m - 1 : Gap(h, m) /\ cmds[m].pos = CodeEnd(h)
    BY <1>1, LiesAt
  <2>2. h \in 0..Len(cmds) /\ Arrived(h)
    BY <1>0, <2>1 DEF Gap, Arrived
  <2>3. h = j
    BY <1>1, <2>1, <2>2, CodeEndOnce
  <2> QED
    BY <1>0, <1>1, <2>1, <2>3, GapFollows
<1>2. PICK h \in 0..k - 1 : /\ Gap(h, k) /\ cmds[k].native_ip = EndAt(h) /\ cmds[k].pos = CodeEnd(h)
  BY LiesAt
<1>3. h = j
  BY <1>0, <1>2, GapUnique
<1>4. Emitted(cmds[k]) > 0
  BY EmittedSome
<1>5. CommandAt(CodeEnd(j)) = {k}
  BY <1>1, <1>2, <1>3, <1>4 DEF CommandAt, Kept
<1>6. (CHOOSE m \in CommandAt(CodeEnd(j)) : TRUE) = k
  BY <1>5
<1> QED
  BY <1>2, <1>3, <1>5, <1>6 DEF NativeIp

LEMMA EndAtPositive ==
    ASSUME Assembled(program), NEW j \in 0..Len(program)
    PROVE  EndAt(j) # 0
<1>0. Len(program) \in Nat
  BY LenProperties DEF Assembled
<1>1. EndAt(0) = 8
  BY DEF EndAt, ServiceDataLen
<1>2. CASE j = 0
  BY <1>1, <1>2
<1>3. CASE j # 0
  <2>1. 0 \in 0..j - 1
    BY <1>0, <1>3
  <2>2. EndAt(0) < EndAt(j) /\ EndAt(j) \in Nat
    BY <2>1, EndAtRises, EndAtNat
  <2> QED
    BY <1>1, <2>2
<1> QED
  BY <1>2, <1>3

\* A command that opens its group is what a jump to it finds.
LEMMA LabelFound ==
    ASSUME Placed, NEW t \in 1..Len(program), ~JoinsPrevious(program, t)
    PROVE  Arrived(t - 1) /\ JumpIn(cmds, EndAt(t - 1)) = CodeEnd(t - 1)
<1>0. Len(cmds) \in Nat /\ Len(program) = Len(cmds) /\ Assembled(program) /\ t \in Nat
  BY CmdsAre DEF Placed, LabelsInv, IrTypeOK, StandInv, AllParsed
<1>1. Arrived(t - 1)
  <2> SUFFICES ASSUME t - 1 # 0, ~Kept(t - 1) PROVE JoinsPrevious(program, t)
    BY DEF Arrived
  <2>1. t - 1 \in 1..Len(cmds) /\ (t - 1) + 1 = t
    BY <1>0
  <2>2. JoinsPrevious(program, (t - 1) + 1)
    BY <2>1 DEF Placed, StandInv, Skips
  <2> QED
    BY <2>1, <2>2
<1>2. PICK k \in (t - 1) + 1 .. Len(cmds) : Kept(k) /\ Gap(t - 1, k)
  <2>1. t - 1 \in 0..Len(cmds) - 1
    BY <1>0
  <2> QED
    BY <1>1, <2>1, NextKept
<1>3. k \in 1..Len(cmds) /\ k \in Nat /\ t - 1 < k /\ t - 1 \in 0..k - 1 /\ t - 1 \in 0..Len(cmds)
  BY <1>0, <1>2
<1>4. PICK h \in 0..k - 1 : Gap(h, k) /\ cmds[k].native_ip = EndAt(h) /\ cmds[k].x86_ip = CodeEnd(h)
  BY <1>2, <1>3, LiesAt
<1>5. h = t - 1
  BY <1>2, <1>3, <1>4, GapUnique
<1>6. ASSUME NEW q \in 1..Len(cmds), cmds[q].native_ip = EndAt(t - 1) PROVE q = k
  <2>1. Kept(q)
    <3>1. EndAt(t - 1) # 0
      BY <1>0, <1>3, EndAtPositive
    <3> QED
      BY <1>6, <3>1 DEF Placed, StandInv, Skips
  <2>2. PICK g \in 0..q - 1 : Gap(g, q) /\ cmds[q].native_ip = EndAt(g)
    BY <2>1, LiesAt
  <2>3. g \in 0..Len(program) /\ t - 1 \in 0..Len(program)
    BY <1>0, <1>3
  <2>4. g = t - 1
    BY <1>0, <1>6, <2>2, <2>3, EndAtOnce
  <2> QED
    BY <1>0, <1>2, <1>3, <2>1, <2>2, <2>4, GapFollows
<1> DEFINE found == {q \in 1..Len(cmds) : cmds[q].native_ip = EndAt(t - 1)}
<1>7. found = {k}
  BY <1>3, <1>4, <1>5, <1>6
<1>8. (CHOOSE q \in found : TRUE) = k
  BY <1>7
<1>9. JumpIn(cmds, EndAt(t - 1)) = cmds[k].x86_ip
  BY <1>7, <1>8 DEF JumpIn
<1> QED
  BY <1>1, <1>4, <1>5, <1>9

\* The address a call leaves is the one the processor's call leaves.
LEMMA CallReturns ==
    ASSUME Placed, NEW k \in 1..Len(cmds), Kept(k), cmds[k].name = "call"
    PROVE  NativeReturn(CodeEnd(k)) = EndAt(k)
<1>0. Len(cmds) \in Nat
  BY CmdsAre DEF Placed, LabelsInv, IrTypeOK
<1> DEFINE calls == {q \in 1..Len(cmds) : cmds[q].name = "call" /\ cmds[q].pos + Emitted(cmds[q]) = CodeEnd(k)}
<1>1. k \in calls
  BY LiesAt
<1>2. ASSUME NEW q \in calls PROVE q = k
  <2>1. Kept(q)
    BY DEF Placed, StandInv, Skips
  <2>2. CodeEnd(q) = CodeEnd(k)
    BY <2>1, LiesAt
  <2> QED
    BY <1>0, <2>1, <2>2, CodeEndOnce DEF Arrived
<1>3. calls = {k}
  BY <1>1, <1>2
<1>4. (CHOOSE q \in calls : TRUE) = k
  BY <1>3
<1>5. cmds[k].native_ip + cmds[k].native_size = EndAt(k)
  BY LiesAt
<1> HIDE DEF calls
<1>6. NativeReturn(CodeEnd(k)) = cmds[k].native_ip + cmds[k].native_size
  <2>1. NativeReturn(CodeEnd(k)) = IF calls = {} THEN -1
           ELSE cmds[CHOOSE q \in calls : TRUE].native_ip + cmds[CHOOSE q \in calls : TRUE].native_size
    BY Zenon DEF NativeReturn, calls
  <2> QED
    BY <1>3, <1>4, <2>1
<1> QED
  BY <1>5, <1>6

(***************************************************************************)
(* The two processors hold the same: but for the addresses calls leave,    *)
(* and for rax in a program that prints, which nothing else touches.       *)
(***************************************************************************)
Prints == \E k \in 1..Len(program) : program[k].op = "out"

SameValue(v, w) ==
    \/ v = Num(v.n) /\ w = v
    \/ \E k \in 1..Len(cmds) : Kept(k) /\ cmds[k].name = "call" /\ v = Ret(CodeEnd(k)) /\ w = Ret(EndAt(k))

SameReg(r, v, w) == IF r = Rax /\ Prints THEN v \in {Num(0), Raw} /\ w = Num(0) ELSE SameValue(v, w)

SameStack(p, q) == /\ IsSeq(p) /\ IsSeq(q) /\ Len(p) = Len(q)
                   /\ \A n \in 1..Len(p) : SameValue(p[n], q[n])
SameRegs(f, h) == /\ f = [r \in Registers |-> f[r]] /\ h = [r \in Registers |-> h[r]]
                  /\ \A r \in Registers : SameReg(r, f[r], h[r])
SameRam(f, h) == /\ f = [a \in Addresses |-> f[a]] /\ h = [a \in Addresses |-> h[a]]
                 /\ \A a \in Addresses : SameValue(f[a], h[a])

Agrees(c, g) ==
    /\ IsRecord(c) /\ IsRecord(g)
    /\ SameStack(c.stack, g.stack) /\ SameRegs(c.regs, g.regs) /\ SameRam(c.ram, g.ram)
    /\ c.in = g.in /\ c.out = g.out /\ c.status = g.status

LEMMA AgreeIs ==
    \A ip, q, f, h, in, out, status, jp, p, d, b :
        SameStack(q, p) /\ SameRegs(f, d) /\ SameRam(h, b) =>
            Agrees(State(ip, q, f, h, in, out, status), State(jp, p, d, b, in, out, status))
  BY RecordIs, StateFields DEF Agrees

LEMMA NumIsNum == \A a : Num(a).n = a /\ Num(a).tag = "num" /\ SameValue(Num(a), Num(a))
<1>1. \A a : Num(a).n = a /\ Num(a).tag = "num"
  BY DEF Num
<1> QED
  BY <1>1 DEF SameValue

LEMMA SameTags ==
    \A v, w : SameValue(v, w) => /\ w.tag = "num" => (v = w /\ v.tag = "num")
                                 /\ w.tag = "ret" => v.tag = "ret"
                                 /\ NativeValue(v) = w \/ ~Placed
<1> TAKE v, w
<1> HAVE SameValue(v, w)
<1>1. CASE v = Num(v.n) /\ w = v
  <2>1. v.tag = "num" /\ w.tag = "num"
    BY <1>1 DEF Num
  <2> QED
    BY <1>1, <2>1 DEF NativeValue
<1>2. CASE ~(v = Num(v.n) /\ w = v)
  <2>1. PICK k \in 1..Len(cmds) : Kept(k) /\ cmds[k].name = "call" /\ v = Ret(CodeEnd(k)) /\ w = Ret(EndAt(k))
    BY <1>2 DEF SameValue
  <2>2. v.tag = "ret" /\ v.n = CodeEnd(k) /\ w.tag = "ret"
    BY <2>1 DEF Ret
  <2>3. Placed => NativeReturn(v.n) = EndAt(k)
    BY <2>1, <2>2, CallReturns
  <2>4. NativeValue(v) = Ret(NativeReturn(v.n))
    BY <2>2 DEF NativeValue
  <2> QED
    BY <2>1, <2>2, <2>3, <2>4
<1> QED
  BY <1>1, <1>2

LEMMA SameAppend ==
    ASSUME NEW p, NEW q, NEW v, NEW w, SameStack(p, q), SameValue(v, w)
    PROVE  SameStack(Append(p, v), Append(q, w))
<1>1. /\ IsSeq(Append(p, v)) /\ Len(p) \in Nat /\ Len(Append(p, v)) = Len(p) + 1
      /\ (\A n \in 1..Len(p) : Append(p, v)[n] = p[n]) /\ Append(p, v)[Len(p) + 1] = v
  BY Appended DEF SameStack
<1>2. /\ IsSeq(Append(q, w)) /\ Len(q) \in Nat /\ Len(Append(q, w)) = Len(q) + 1
      /\ (\A n \in 1..Len(q) : Append(q, w)[n] = q[n]) /\ Append(q, w)[Len(q) + 1] = w
  BY Appended DEF SameStack
<1>3. \A n \in 1..Len(p) + 1 : n \in 1..Len(p) \/ n = Len(p) + 1
  BY <1>1
<1> HIDE DEF SameValue
<1>4. Len(p) = Len(q) /\ \A n \in 1..Len(p) : SameValue(p[n], q[n])
  BY DEF SameStack
<1>5. \A n \in 1..Len(p) + 1 : SameValue(Append(p, v)[n], Append(q, w)[n])
  BY <1>1, <1>2, <1>3, <1>4
<1> QED
  BY <1>1, <1>2, <1>4, <1>5 DEF SameStack

LEMMA SameDrop ==
    ASSUME NEW c, NEW g, SameStack(c.stack, g.stack), NEW n \in 0..Len(c.stack)
    PROVE  SameStack(Drop(c, n), Drop(g, n))
<1> DEFINE p == c.stack
           q == g.stack
<1>1. IsSeq(p) /\ IsSeq(q) /\ Len(p) = Len(q) /\ (\A m \in 1..Len(p) : SameValue(p[m], q[m])) /\ n \in 0..Len(q)
  BY DEF SameStack
<1>2. Drop(c, n) = SubSeq(p, 1, Len(p) - n) /\ Drop(g, n) = SubSeq(q, 1, Len(q) - n)
  BY DEF Drop
<1> HIDE DEF p, q
<1>3. /\ IsSeq(Drop(c, n)) /\ Len(p) \in Nat /\ Len(Drop(c, n)) = Len(p) - n
      /\ \A m \in 1..(Len(p) - n) : Drop(c, n)[m] = p[m]
  <2>1. n \in 0..Len(p)
    BY DEF p
  <2> QED
    BY <1>1, <1>2, <2>1, Dropped
<1>4. /\ IsSeq(Drop(g, n)) /\ Len(q) \in Nat /\ Len(Drop(g, n)) = Len(q) - n
      /\ \A m \in 1..(Len(q) - n) : Drop(g, n)[m] = q[m]
  BY <1>1, <1>2, Dropped
<1>5. \A m \in 1..(Len(p) - n) : m \in 1..Len(p)
  <2>1. n \in 0..Len(p)
    BY DEF p
  <2> QED
    BY <1>3, <2>1
<1> QED
  BY <1>1, <1>3, <1>4, <1>5 DEF SameStack

LEMMA SameOnTop ==
    ASSUME NEW c, NEW g, SameStack(c.stack, g.stack)
    PROVE  /\ Len(c.stack) = Len(g.stack) /\ Len(c.stack) \in Nat
           /\ g.stack = <<>> <=> Len(c.stack) = 0
           /\ c.stack = <<>> <=> Len(c.stack) = 0
           /\ Len(c.stack) > 0 => SameValue(Top(c), Top(g))
           /\ \A n \in Nat : NumbersOnTop(g, n) => NumbersOnTop(c, n)
           /\ NumbersOnTop(g, 1) => Top(c) = Top(g) /\ Top(c).tag = "num"
           /\ NumbersOnTop(g, 2) => Top(c) = Top(g) /\ Below(c) = Below(g)
<1>1. /\ IsSeq(c.stack) /\ IsSeq(g.stack) /\ Len(c.stack) = Len(g.stack)
      /\ \A m \in 1..Len(c.stack) : SameValue(c.stack[m], g.stack[m])
  BY DEF SameStack
<1>2. Len(c.stack) \in Nat /\ Len(g.stack) \in Nat
  BY <1>1, IsFunction
<1>3. \A q : IsSeq(q) => (q = <<>> <=> Len(q) = 0)
  BY EmptySeq DEF IsSeq
<1>4. Len(c.stack) > 0 => SameValue(Top(c), Top(g))
  BY <1>1, <1>2 DEF Top
<1>5. ASSUME NEW n \in Nat, NumbersOnTop(g, n)
      PROVE  NumbersOnTop(c, n) /\ \A m \in Len(c.stack) - n + 1 .. Len(c.stack) : c.stack[m] = g.stack[m]
  <2>1. Len(c.stack) >= n /\ \A m \in Len(c.stack) - n + 1 .. Len(c.stack) : m \in 1..Len(c.stack) /\ g.stack[m].tag = "num"
    BY <1>1, <1>2, <1>5 DEF NumbersOnTop
  <2>2. \A m \in Len(c.stack) - n + 1 .. Len(c.stack) : c.stack[m] = g.stack[m] /\ c.stack[m].tag = "num"
    BY <1>1, <2>1, SameTags
  <2> QED
    BY <2>1, <2>2 DEF NumbersOnTop
<1>6. NumbersOnTop(g, 1) => Top(c) = Top(g) /\ Top(c).tag = "num"
  <2> SUFFICES ASSUME NumbersOnTop(g, 1) PROVE Top(c) = Top(g) /\ Top(c).tag = "num"
    OBVIOUS
  <2>1. Len(c.stack) >= 1 /\ Len(c.stack) \in Len(c.stack) - 1 + 1 .. Len(c.stack)
    BY <1>1, <1>2 DEF NumbersOnTop
  <2>2. 1 \in Nat
    OBVIOUS
  <2>3. NumbersOnTop(c, 1) /\ c.stack[Len(c.stack)] = g.stack[Len(c.stack)]
    BY <1>5, <2>1, <2>2
  <2> QED
    BY <1>1, <2>1, <2>3 DEF Top, NumbersOnTop
<1>7. NumbersOnTop(g, 2) => Top(c) = Top(g) /\ Below(c) = Below(g)
  <2> SUFFICES ASSUME NumbersOnTop(g, 2) PROVE Top(c) = Top(g) /\ Below(c) = Below(g)
    OBVIOUS
  <2>1. /\ Len(c.stack) >= 2 /\ Len(c.stack) \in Len(c.stack) - 2 + 1 .. Len(c.stack)
        /\ Len(c.stack) - 1 \in Len(c.stack) - 2 + 1 .. Len(c.stack)
    BY <1>1, <1>2 DEF NumbersOnTop
  <2>2. 2 \in Nat
    OBVIOUS
  <2>3. c.stack[Len(c.stack)] = g.stack[Len(c.stack)] /\ c.stack[Len(c.stack) - 1] = g.stack[Len(c.stack) - 1]
    BY <1>5, <2>1, <2>2
  <2> QED
    BY <1>1, <2>1, <2>3 DEF Top, Below
<1> QED
  BY <1>1, <1>2, <1>3, <1>4, <1>5, <1>6, <1>7

LEMMA WriteRam ==
    ASSUME NEW f, NEW h, SameRam(f, h), NEW a \in Addresses, NEW v, NEW w, SameValue(v, w)
    PROVE  SameRam(Writes(f, a, v), Writes(h, a, w))
<1> DEFINE d == Writes(f, a, v)
           b == Writes(h, a, w)
<1>1. /\ f = [x \in Addresses |-> f[x]] /\ h = [x \in Addresses |-> h[x]]
      /\ \A x \in Addresses : SameValue(f[x], h[x])
  BY DEF SameRam
<1>2. d = [x \in Addresses |-> IF x = a THEN v ELSE f[x]]
  BY <1>1 DEF Writes
<1>3. b = [x \in Addresses |-> IF x = a THEN w ELSE h[x]]
  BY <1>1 DEF Writes
<1> HIDE DEF d, b
<1>4. d = [x \in Addresses |-> d[x]] /\ b = [x \in Addresses |-> b[x]]
  BY <1>2, <1>3
<1>5. \A x \in Addresses : SameValue(d[x], b[x])
  BY <1>1, <1>2, <1>3
<1>6. SameRam(d, b)
  BY <1>4, <1>5 DEF SameRam
<1> QED
  BY <1>6 DEF d, b

LEMMA WriteRegs ==
    ASSUME NEW f, NEW h, SameRegs(f, h), NEW a \in Registers, NEW v, NEW w, SameReg(a, v, w)
    PROVE  SameRegs(Writes(f, a, v), Writes(h, a, w))
<1> DEFINE d == Writes(f, a, v)
           b == Writes(h, a, w)
<1>1. /\ f = [x \in Registers |-> f[x]] /\ h = [x \in Registers |-> h[x]]
      /\ \A x \in Registers : SameReg(x, f[x], h[x])
  BY DEF SameRegs
<1>2. d = [x \in Registers |-> IF x = a THEN v ELSE f[x]]
  BY <1>1 DEF Writes
<1>3. b = [x \in Registers |-> IF x = a THEN w ELSE h[x]]
  BY <1>1 DEF Writes
<1> HIDE DEF d, b
<1>4. d = [x \in Registers |-> d[x]] /\ b = [x \in Registers |-> b[x]]
  BY <1>2, <1>3
<1>5. \A x \in Registers : SameReg(x, d[x], b[x])
  BY <1>1, <1>2, <1>3
<1>6. SameRegs(d, b)
  BY <1>4, <1>5 DEF SameRegs
<1> QED
  BY <1>6 DEF d, b

(***************************************************************************)
(* The same done to both leaves them the same.                             *)
(***************************************************************************)
LEMMA AgreeParts ==
    \A c, g : Agrees(c, g) =>
        /\ IsRecord(c) /\ IsRecord(g)
        /\ SameStack(c.stack, g.stack) /\ SameRegs(c.regs, g.regs) /\ SameRam(c.ram, g.ram)
        /\ c.in = g.in /\ c.out = g.out /\ c.status = g.status
  BY DEF Agrees

LEMMA IpAgrees ==
    ASSUME NEW c, NEW g, Agrees(c, g), NEW x, NEW y
    PROVE  Agrees(SetIp(c, x), SetIp(g, y))
<1>1. /\ SetIp(c, x) = State(x, c.stack, c.regs, c.ram, c.in, c.out, c.status)
      /\ SetIp(g, y) = State(y, g.stack, g.regs, g.ram, c.in, c.out, c.status)
  BY AgreeParts, FieldSet
<1> QED
  BY <1>1, AgreeParts, AgreeIs

LEMMA StopAgrees ==
    ASSUME NEW c, NEW g, Agrees(c, g), NEW why
    PROVE  Agrees(SetStatus(c, why), SetStatus(g, why))
<1>1. /\ SetStatus(c, why) = State(c.ip, c.stack, c.regs, c.ram, c.in, c.out, why)
      /\ SetStatus(g, why) = State(g.ip, g.stack, g.regs, g.ram, c.in, c.out, why)
  BY AgreeParts, FieldSet
<1> QED
  BY <1>1, AgreeParts, AgreeIs

LEMMA PushAgrees ==
    ASSUME NEW c, NEW g, Agrees(c, g), NEW n \in 0..Len(c.stack), NEW v, NEW w, SameValue(v, w)
    PROVE  Agrees(Pushed(c, n, v), Pushed(g, n, w))
<1>1. /\ Pushed(c, n, v) = State(c.ip, Append(Drop(c, n), v), c.regs, c.ram, c.in, c.out, c.status)
      /\ Pushed(g, n, w) = State(g.ip, Append(Drop(g, n), w), g.regs, g.ram, c.in, c.out, c.status)
  BY AgreeParts, PushedIs
<1>2. SameStack(Append(Drop(c, n), v), Append(Drop(g, n), w))
  BY AgreeParts, SameDrop, SameAppend
<1> QED
  BY <1>1, <1>2, AgreeParts, AgreeIs

LEMMA DropAgrees ==
    ASSUME NEW c, NEW g, Agrees(c, g), NEW n \in 0..Len(c.stack)
    PROVE  Agrees(DropsTo(c, n), DropsTo(g, n))
<1>1. /\ DropsTo(c, n) = State(c.ip, Drop(c, n), c.regs, c.ram, c.in, c.out, c.status)
      /\ DropsTo(g, n) = State(g.ip, Drop(g, n), g.regs, g.ram, c.in, c.out, c.status)
  BY AgreeParts, DropsIs
<1>2. SameStack(Drop(c, n), Drop(g, n))
  BY AgreeParts, SameDrop
<1> QED
  BY <1>1, <1>2, AgreeParts, AgreeIs

LEMMA RamAgrees ==
    ASSUME NEW c, NEW g, Agrees(c, g), NEW n \in 0..Len(c.stack), NEW a \in Addresses, NEW v, NEW w, SameValue(v, w)
    PROVE  Agrees(RamSet(c, a, v, n), RamSet(g, a, w, n))
<1>1. /\ RamSet(c, a, v, n) = State(c.ip, Drop(c, n), c.regs, Writes(c.ram, a, v), c.in, c.out, c.status)
      /\ RamSet(g, a, w, n) = State(g.ip, Drop(g, n), g.regs, Writes(g.ram, a, w), c.in, c.out, c.status)
  BY AgreeParts, RamSetIs
<1>2. SameStack(Drop(c, n), Drop(g, n))
  BY AgreeParts, SameDrop
<1>3. SameRam(Writes(c.ram, a, v), Writes(g.ram, a, w))
  BY AgreeParts, WriteRam
<1> QED
  BY <1>1, <1>2, <1>3, AgreeParts, AgreeIs

LEMMA RegAgrees ==
    ASSUME NEW c, NEW g, Agrees(c, g), NEW n \in 0..Len(c.stack), NEW r \in Registers, NEW v, NEW w, SameReg(r, v, w)
    PROVE  Agrees(RegSet(c, r, v, n), RegSet(g, r, w, n))
<1>1. /\ RegSet(c, r, v, n) = State(c.ip, Drop(c, n), Writes(c.regs, r, v), c.ram, c.in, c.out, c.status)
      /\ RegSet(g, r, w, n) = State(g.ip, Drop(g, n), Writes(g.regs, r, w), g.ram, c.in, c.out, c.status)
  BY AgreeParts, RegSetIs
<1>2. SameStack(Drop(c, n), Drop(g, n))
  BY AgreeParts, SameDrop
<1>3. SameRegs(Writes(c.regs, r, v), Writes(g.regs, r, w))
  BY AgreeParts, WriteRegs
<1> QED
  BY <1>1, <1>2, <1>3, AgreeParts, AgreeIs

LEMMA GivenAgrees ==
    ASSUME NEW c, NEW g, Agrees(c, g), NEW v, NEW w, SameValue(v, w)
    PROVE  Agrees(Given(c, v), Given(g, w))
<1>1. /\ Given(c, v) = State(c.ip, Append(Drop(c, 0), v), c.regs, c.ram, Tail(c.in), c.out, c.status)
      /\ Given(g, w) = State(g.ip, Append(Drop(g, 0), w), g.regs, g.ram, Tail(c.in), c.out, c.status)
  BY AgreeParts, GivenIs
<1>2. 0 \in 0..Len(c.stack)
  BY AgreeParts, IsFunction DEF SameStack
<1>3. SameStack(Append(Drop(c, 0), v), Append(Drop(g, 0), w))
  BY <1>2, AgreeParts, SameDrop, SameAppend
<1> QED
  BY <1>1, <1>3, AgreeParts, AgreeIs

\* out: rax takes the integer that was printed.
LEMMA WriteRax ==
    ASSUME NEW f, NEW h, SameRegs(f, h), Prints, NEW v, v \in {Num(0), Raw}
    PROVE  SameRegs(Writes(f, Rax, v), h)
<1> DEFINE d == Writes(f, Rax, v)
<1>1. /\ f = [x \in Registers |-> f[x]] /\ h = [x \in Registers |-> h[x]]
      /\ \A x \in Registers : SameReg(x, f[x], h[x])
  BY DEF SameRegs
<1>2. d = [x \in Registers |-> IF x = Rax THEN v ELSE f[x]]
  BY <1>1 DEF Writes
<1> HIDE DEF d
<1>3. d = [x \in Registers |-> d[x]]
  BY <1>2
<1>4. \A x \in Registers : SameReg(x, d[x], h[x])
  <2>1. \A x \in Registers : x = Rax => d[x] = v /\ h[x] = Num(0)
    BY <1>1, <1>2 DEF SameReg
  <2>2. \A x \in Registers : x # Rax => d[x] = f[x]
    BY <1>2
  <2> QED
    BY <1>1, <2>1, <2>2 DEF SameReg
<1>5. SameRegs(d, h)
  BY <1>1, <1>3, <1>4 DEF SameRegs
<1> QED
  BY <1>5 DEF d

LEMMA PrintAgrees ==
    ASSUME NEW c, NEW g, Agrees(c, g), Prints, NEW n \in 0..Len(c.stack), NEW x, NEW v, v \in {Num(0), Raw}
    PROVE  LET t == Printed(c, x, n) IN Agrees(SetRegs(t, Writes(t.regs, Rax, v)), Printed(g, x, n))
<1> DEFINE t == Printed(c, x, n)
<1>1. /\ t = State(c.ip, Drop(c, n), c.regs, c.ram, c.in, Append(c.out, x), c.status)
      /\ Printed(g, x, n) = State(g.ip, Drop(g, n), g.regs, g.ram, c.in, Append(c.out, x), c.status)
  BY AgreeParts, PrintedIs
<1> HIDE DEF t
<1>2. SetRegs(t, Writes(t.regs, Rax, v)) =
          State(c.ip, Drop(c, n), Writes(c.regs, Rax, v), c.ram, c.in, Append(c.out, x), c.status)
  <2>1. IsRecord(t)
    BY <1>1, RecordIs
  <2>2. SetRegs(t, Writes(t.regs, Rax, v)) =
            State(t.ip, t.stack, Writes(t.regs, Rax, v), t.ram, t.in, t.out, t.status)
    BY <2>1, FieldSet
  <2> QED
    BY <1>1, <2>2, StateFields
<1>3. SameStack(Drop(c, n), Drop(g, n))
  BY AgreeParts, SameDrop
<1>4. SameRegs(Writes(c.regs, Rax, v), g.regs)
  BY AgreeParts, WriteRax
<1>5. Agrees(SetRegs(t, Writes(t.regs, Rax, v)), Printed(g, x, n))
  BY <1>1, <1>2, <1>3, <1>4, AgreeParts, AgreeIs
<1> QED
  BY <1>5 DEF t

(***************************************************************************)
(* What the written code of a command does.                                *)
(***************************************************************************)
MovSet(s, r, v) == SetRegs(s, Writes(s.regs, r, v))
OutSet(s, v, x) == MovSet(Printed(s, v, 1), Rax, x)

LEMMA OutSetIs ==
    \A s : IsRecord(s) => \A v, x :
        [s EXCEPT !.out = Append(@, v), !.stack = Drop(s, 1), !.regs[Rax] = x] = OutSet(s, v, x)
  BY Zenon DEF OutSet, MovSet, SetRegs, Printed, Writes

LEMMA X86MoveIs ==
    \A c :
        /\ c.name = "push" /\ InRam(c) => X86Move(c) = Pushed(cpu, 0, cpu.ram[MemWord(c)])
        /\ c.name = "push" /\ c.mode = "reg" => X86Move(c) = Pushed(cpu, 0, cpu.regs[c.reg])
        /\ c.name = "push" /\ c.mode = "imm" => X86Move(c) = Pushed(cpu, 0, Num(c.value))
        /\ c.name = "pop" /\ InRam(c) => X86Move(c) = RamSet(cpu, MemWord(c), Top(cpu), 1)
        /\ c.name = "pop" /\ c.mode = "reg" => X86Move(c) = RegSet(cpu, c.reg, Top(cpu), 1)
        /\ c.name = "mov" => X86Move(c) = MovSet(cpu, c.reg, Num(c.value))
<1> TAKE c
<1>0. (InRam(c) => c.mode # "reg" /\ c.mode # "imm") /\ (c.mode \in {"reg", "imm"} => ~InRam(c))
  BY DEF InRam
<1>1. c.name = "push" /\ InRam(c) => X86Move(c) = Pushed(cpu, 0, cpu.ram[MemWord(c)])
  BY <1>0 DEF X86Move
<1>2. c.name = "push" /\ c.mode = "reg" => X86Move(c) = Pushed(cpu, 0, cpu.regs[c.reg])
  BY <1>0 DEF X86Move
<1>3. c.name = "push" /\ c.mode = "imm" => X86Move(c) = Pushed(cpu, 0, Num(c.value))
  BY <1>0 DEF X86Move
<1>4. c.name = "pop" /\ InRam(c) => X86Move(c) = RamSet(cpu, MemWord(c), Top(cpu), 1)
  BY <1>0 DEF X86Move, RamSet
<1>5. c.name = "pop" /\ c.mode = "reg" => X86Move(c) = RegSet(cpu, c.reg, Top(cpu), 1)
  BY <1>0 DEF X86Move, RegSet
<1>6. c.name = "mov" => X86Move(c) = MovSet(cpu, c.reg, Num(c.value))
  <2>1. MovSet(cpu, c.reg, Num(c.value)) = [cpu EXCEPT !.regs[c.reg] = Num(c.value)]
    BY Zenon DEF MovSet, SetRegs, Writes
  <2> QED
    BY <2>1 DEF X86Move
<1> QED
  BY <1>1, <1>2, <1>3, <1>4, <1>5, <1>6

LEMMA X86EffectIs ==
    \A c :
        /\ c.name \in {"push", "pop", "mov"} => X86Effect(c) = X86Move(c)
        /\ c.name \in ArithOps => X86Effect(c) = Pushed(cpu, 2, Num(Arith(c.name, Top(cpu).n, Below(cpu).n)))
        /\ c.name = "sqr" => X86Effect(c) = Pushed(cpu, 1, Num(Func("sqr", Top(cpu).n)))
        /\ c.name = "out" /\ IsRecord(cpu) =>
              X86Effect(c) = OutSet(cpu, PrintfShows(Top(cpu).n), IF Round(Top(cpu).n) >= 0 THEN Num(0) ELSE Raw)
        /\ c.name = "in" => X86Effect(c) = Given(cpu, Num(ScanfReads(Head(cpu.in))))
        /\ c.name \in CondOps => X86Effect(c) = DropsTo(cpu, 2)
        /\ c.name = "call" => X86Effect(c) = Pushed(cpu, 0, Ret(cpu.ip + Emitted(c)))
        /\ c.name = "ret" => X86Effect(c) = DropsTo(cpu, 1)
        /\ c.name = "jmp" => X86Effect(c) = cpu
<1> TAKE c
<1> USE DEF ArithOps, CondOps
<1>1. c.name \in {"push", "pop", "mov"} => X86Effect(c) = X86Move(c)
  BY DEF X86Effect
<1>2. c.name \in ArithOps => X86Effect(c) = Pushed(cpu, 2, Num(Arith(c.name, Top(cpu).n, Below(cpu).n)))
  BY DEF X86Effect
<1>3. c.name = "sqr" => X86Effect(c) = Pushed(cpu, 1, Num(Func("sqr", Top(cpu).n)))
  BY DEF X86Effect
<1>4. c.name = "out" /\ IsRecord(cpu) =>
          X86Effect(c) = OutSet(cpu, PrintfShows(Top(cpu).n), IF Round(Top(cpu).n) >= 0 THEN Num(0) ELSE Raw)
  <2> DEFINE y == PrintfShows(Top(cpu).n)
             x == IF Round(Top(cpu).n) >= 0 THEN Num(0) ELSE Raw
  <2>1. c.name = "out" => X86Effect(c) = [cpu EXCEPT !.out = Append(@, y), !.stack = Drop(cpu, 1), !.regs[Rax] = x]
    BY DEF X86Effect
  <2> HIDE DEF x, y
  <2>2. c.name = "out" /\ IsRecord(cpu) => X86Effect(c) = OutSet(cpu, y, x)
    BY <2>1, OutSetIs
  <2> QED
    BY <2>2 DEF x, y
<1>5. c.name = "in" => X86Effect(c) = Given(cpu, Num(ScanfReads(Head(cpu.in))))
  BY DEF X86Effect, Given
<1>6. c.name \in CondOps => X86Effect(c) = DropsTo(cpu, 2)
  BY DEF X86Effect, DropsTo
<1>7. c.name = "call" => X86Effect(c) = Pushed(cpu, 0, Ret(cpu.ip + Emitted(c)))
  BY DEF X86Effect
<1>8. c.name = "ret" => X86Effect(c) = DropsTo(cpu, 1)
  BY DEF X86Effect, DropsTo
<1>9. c.name = "jmp" => X86Effect(c) = cpu
  BY DEF X86Effect
<1> QED
  BY <1>1, <1>2, <1>3, <1>4, <1>5, <1>6, <1>7, <1>8, <1>9

(***************************************************************************)
(* A command that was written as it was parsed, in front of both           *)
(* processors.                                                             *)
(***************************************************************************)
Facing(k, g) ==
    /\ Placed /\ NoJumpInside(program) /\ NoRaxWhenPrinting(program) /\ NoSignedJumps(program)
    /\ k \in 1..Len(cmds) /\ Kept(k) /\ Gap(k - 1, k) /\ Single(k)
    /\ Agrees(cpu, g) /\ cpu.ip = CodeEnd(k - 1) /\ g.ip = EndAt(k - 1)
    /\ Defined(program[k], g) /\ SameWord(program[k], g) /\ SameText(program[k], g)
    /\ program[k].op = "ret" => g.stack # <<>>

LEMMA FacingCommand ==
    ASSUME NEW k, NEW g, Facing(k, g)
    PROVE  /\ Len(cmds) \in Nat /\ Len(program) = Len(cmds) /\ Assembled(program)
           /\ k \in 1..Len(cmds) /\ program[k] \in Command /\ program[k].op \in TranslatedOps
           /\ cmds[k].name = program[k].op /\ cmds[k].mode = program[k].mode /\ cmds[k].reg = program[k].reg
           /\ program[k].op \notin JumpOps => cmds[k].value = program[k].value
           /\ program[k].op \in JumpOps => cmds[k].value = JumpIn(cmds, program[k].value)
           /\ program[k].op \notin {"jb", "jbe"}
           /\ program[k].op \in {"push", "pop"} => program[k].mode \in Modes \ {"none", "imm_reg"}
           /\ program[k].op = "pop" => program[k].mode # "imm"
<1>1. /\ Len(cmds) \in Nat /\ Len(program) = Len(cmds) /\ Assembled(program)
      /\ k \in 1..Len(cmds) /\ program[k] \in Command /\ AllTranslated(program) /\ Linked
  BY CmdsAre DEF Facing, Placed, LabelsInv, IrTypeOK, StandInv, AllParsed, Assembled, Linked
<1>2. program[k].mode = "none" <=> program[k].op \notin {"push", "pop"}
  BY <1>1 DEF Assembled
<1>3. program[k].op \in {"push", "pop"} => program[k].mode \in Modes \ {"none", "imm_reg"}
  BY <1>1, <1>2 DEF AllTranslated, Command
<1> QED
  BY <1>1, <1>3 DEF Facing, Single, AllTranslated, NoSignedJumps

LEMMA FacingPlace ==
    ASSUME NEW k, NEW g, Facing(k, g)
    PROVE  /\ CodeEnd(k) = cpu.ip + Emitted(cmds[k])
           /\ cmds[k].pos = cmds[k].x86_ip /\ cmds[k].pos \in Nat
           /\ EndAt(k) = g.ip + Size(program[k].op)
<1>0. k \in 1..Len(cmds) /\ Placed /\ Kept(k) /\ Gap(k - 1, k) /\ k \in Nat /\ k - 1 \in 0..k - 1
  BY FacingCommand DEF Facing
<1>1. CodeEnd(k) = cmds[k].pos + Emitted(cmds[k])
  BY <1>0, LiesAt
<1>2. PICK j \in 0..k - 1 : Gap(j, k) /\ cmds[k].pos = CodeEnd(j) /\ cmds[k].x86_ip = CodeEnd(j)
  BY <1>0, LiesAt
<1>3. j = k - 1
  BY <1>0, <1>2, GapUnique
<1>4. j \in 0..Len(cmds) /\ CodeEnd(j) \in Nat
  <2>1. Len(cmds) \in Nat
    BY FacingCommand
  <2>2. j \in 0..Len(cmds)
    BY <1>0, <2>1
  <2> QED
    BY <1>0, <2>2, CodeEndNat
<1>5. EndAt(k) = EndAt(k - 1) + Size(program[k].op)
  BY FacingCommand, EndAtNext
<1> QED
  BY <1>1, <1>2, <1>3, <1>4, <1>5 DEF Facing

\* Both hold the same in the register it names.
LEMMA FacingReg ==
    ASSUME NEW k, NEW g, Facing(k, g), UsesReg(program[k])
    PROVE  /\ program[k].reg \in Registers
           /\ ~(program[k].reg = Rax /\ Prints)
           /\ SameValue(cpu.regs[program[k].reg], g.regs[program[k].reg])
<1>1. program[k].reg \in Registers
  BY FacingCommand DEF Command
<1>2. ~(program[k].reg = Rax /\ Prints)
  BY FacingCommand DEF Facing, NoRaxWhenPrinting, Prints
<1>3. SameRegs(cpu.regs, g.regs)
  BY AgreeParts DEF Facing
<1>4. SameReg(program[k].reg, cpu.regs[program[k].reg], g.regs[program[k].reg])
  BY <1>1, <1>3 DEF SameRegs
<1> QED
  BY <1>1, <1>2, <1>4 DEF SameReg

\* And they mean the same word of memory.
LEMMA FacingWord ==
    ASSUME NEW k, NEW g, Facing(k, g), program[k].op \in {"push", "pop"}, InRam(program[k])
    PROVE  /\ InRam(cmds[k]) /\ UsesReg(cmds[k]) => cpu.regs[cmds[k].reg].tag = "num"
           /\ MemWord(cmds[k]) = Address(program[k], g)
           /\ Address(program[k], g) \in Addresses
<1> DEFINE c == program[k]
<1>1. /\ cmds[k].mode = c.mode /\ cmds[k].reg = c.reg /\ cmds[k].value = c.value
      /\ c.mode \in {"imm_ram", "reg_ram", "imm_reg_ram"}
  BY FacingCommand DEF InRam, JumpOps, CondOps
<1>2. /\ (UsesReg(c) /\ c.mode # "reg") => g.regs[c.reg].tag = "num"
      /\ Address(c, g) \in Addresses
  BY <1>1 DEF Facing, Defined
<1>3. SameWord(c, g)
  BY DEF Facing
<1>4. UsesReg(c) => cpu.regs[c.reg] = g.regs[c.reg] /\ cpu.regs[c.reg].tag = "num"
  BY <1>1, <1>2, FacingReg, SameTags
<1> HIDE DEF c
<1>5. MemWord(cmds[k]) = Address(c, g)
  <2>1. CASE c.mode = "imm_ram"
    BY <1>1, <2>1 DEF MemWord, Address, ArgNumber
  <2>2. CASE c.mode = "reg_ram"
    <3>1. cpu.regs[c.reg] = g.regs[c.reg]
      BY <1>4, <2>2 DEF UsesReg
    <3>2. Round(g.regs[c.reg].n) = Trunc(g.regs[c.reg].n)
      BY <1>3, <2>2 DEF SameWord
    <3> QED
      BY <1>1, <2>2, <3>1, <3>2 DEF MemWord, Address, ArgNumber
  <2>3. CASE c.mode = "imm_reg_ram"
    <3>1. cpu.regs[c.reg] = g.regs[c.reg]
      BY <1>4, <2>3 DEF UsesReg
    <3>2. Arith("add", Trunc(c.value), Round(g.regs[c.reg].n)) = Address(c, g)
      BY <1>3, <2>3 DEF SameWord
    <3> QED
      BY <1>1, <2>3, <3>1, <3>2 DEF MemWord
  <2> QED
    BY <1>1, <2>1, <2>2, <2>3
<1>6. InRam(cmds[k]) /\ (UsesReg(cmds[k]) <=> UsesReg(c))
  BY <1>1 DEF InRam, UsesReg
<1> QED
  BY <1>1, <1>2, <1>4, <1>5, <1>6 DEF c

LEMMA FacingStack ==
    ASSUME NEW k, NEW g, Facing(k, g)
    PROVE  SameStack(cpu.stack, g.stack) /\ Len(cpu.stack) = Len(g.stack) /\ Len(cpu.stack) \in Nat
  BY AgreeParts, SameOnTop DEF Facing

\* What the processor can execute the written code can.
LEMMA DefinedToo ==
    ASSUME NEW k, NEW g, Facing(k, g)
    PROVE  X86Defined(cmds[k])
<1> DEFINE c == program[k]
           x == cmds[k]
<1>1. /\ x.name = c.op /\ x.mode = c.mode /\ x.reg = c.reg /\ c.op \in TranslatedOps
      /\ Defined(c, g) /\ SameStack(cpu.stack, g.stack) /\ Len(cpu.stack) = Len(g.stack) /\ Len(cpu.stack) \in Nat
      /\ c.op = "ret" => g.stack # <<>>
  BY FacingCommand, FacingStack DEF Facing
<1>2. CASE c.op \in {"push", "pop"}
  <2>1. c.op = "pop" => cpu.stack # <<>>
    <3>1. c.op = "pop" => Len(g.stack) >= 1
      BY <1>1 DEF Defined, Operands, ArithOps, CondOps, FuncOps
    <3> QED
      BY <1>1, <3>1, SameOnTop
  <2>2. InRam(x) => (UsesReg(x) => cpu.regs[x.reg].tag = "num") /\ MemWord(x) \in Addresses
    <3>1. InRam(x) <=> InRam(c)
      BY <1>1 DEF InRam
    <3> QED
      BY <1>2, <3>1, FacingWord
  <2> QED
    BY <1>1, <1>2, <2>1, <2>2 DEF X86Defined, ArithOps, CondOps
<1>3. CASE c.op = "in"
  <2>1. cpu.in = g.in
    BY AgreeParts DEF Facing
  <2>2. g.in # <<>>
    BY <1>1, <1>3 DEF Defined
  <2> QED
    BY <1>1, <1>3, <2>1, <2>2 DEF X86Defined, ArithOps, CondOps
<1>4. CASE c.op = "ret"
  <2>1. g.stack # <<>> /\ Top(g).tag = "ret"
    BY <1>1, <1>4 DEF Defined
  <2>2. cpu.stack # <<>> /\ SameValue(Top(cpu), Top(g))
    BY <1>1, <2>1, SameOnTop
  <2>3. Top(cpu).tag = "ret"
    BY <2>1, <2>2, SameTags
  <2> QED
    BY <1>1, <1>4, <2>2, <2>3 DEF X86Defined, ArithOps, CondOps
<1>5. CASE c.op \in ArithOps \cup CondOps
  <2>1. NumbersOnTop(g, 2)
    BY <1>1, <1>5 DEF Defined, Operands, ArithOps, CondOps, FuncOps
  <2>2. NumbersOnTop(cpu, 2)
    BY <1>1, <2>1, SameOnTop
  <2> QED
    BY <1>1, <1>5, <2>2 DEF X86Defined, ArithOps, CondOps
<1>6. CASE c.op \in {"sqr", "out"}
  <2>1. NumbersOnTop(g, 1)
    BY <1>1, <1>6 DEF Defined, Operands, ArithOps, CondOps, FuncOps
  <2>2. NumbersOnTop(cpu, 1)
    BY <1>1, <2>1, SameOnTop
  <2> QED
    BY <1>1, <1>6, <2>2 DEF X86Defined, ArithOps, CondOps
<1>7. CASE c.op \in {"jmp", "call", "hlt"}
  BY <1>1, <1>7 DEF X86Defined, ArithOps, CondOps
<1> QED
  BY <1>1, <1>2, <1>3, <1>4, <1>5, <1>6, <1>7 DEF TranslatedOps, JumpOps, PlainOps

\* What is on top of the stack, when it has numbers to compute with.
LEMMA FacingNumbers ==
    ASSUME NEW k, NEW g, Facing(k, g)
    PROVE  /\ program[k].op \in ArithOps \cup CondOps =>
                  /\ 2 \in 0..Len(cpu.stack)
                  /\ Top(cpu) = Top(g) /\ Below(cpu) = Below(g)
           /\ program[k].op \in {"sqr", "out"} => 1 \in 0..Len(cpu.stack) /\ Top(cpu) = Top(g)
           /\ program[k].op \in {"pop", "ret"} => 1 \in 0..Len(cpu.stack) /\ SameValue(Top(cpu), Top(g))
           /\ 0 \in 0..Len(cpu.stack)
<1> DEFINE c == program[k]
<1>1. /\ Defined(c, g) /\ SameStack(cpu.stack, g.stack) /\ Len(cpu.stack) = Len(g.stack) /\ Len(cpu.stack) \in Nat
      /\ c.op = "ret" => g.stack # <<>>
  BY FacingStack DEF Facing
<1>2. CASE c.op \in ArithOps \cup CondOps
  <2>1. NumbersOnTop(g, 2)
    BY <1>1, <1>2 DEF Defined, Operands, ArithOps, CondOps, FuncOps
  <2>2. Len(g.stack) >= 2
    BY <2>1 DEF NumbersOnTop
  <2> QED
    BY <1>1, <1>2, <2>1, <2>2, SameOnTop DEF ArithOps, CondOps
<1>3. CASE c.op \in {"sqr", "out"}
  <2>1. NumbersOnTop(g, 1)
    BY <1>1, <1>3 DEF Defined, Operands, ArithOps, CondOps, FuncOps
  <2>2. Len(g.stack) >= 1
    BY <2>1 DEF NumbersOnTop
  <2> QED
    BY <1>1, <1>3, <2>1, <2>2, SameOnTop DEF ArithOps, CondOps
<1>4. CASE c.op \in {"pop", "ret"}
  <2>1. c.op = "pop" => Len(g.stack) >= 1
    BY <1>1 DEF Defined, Operands, ArithOps, CondOps, FuncOps
  <2>2. Len(cpu.stack) # 0
    BY <1>1, <1>4, <2>1, SameOnTop
  <2>3. SameValue(Top(cpu), Top(g))
    BY <1>1, <2>2, SameOnTop
  <2> QED
    BY <1>1, <1>4, <2>2, <2>3 DEF ArithOps, CondOps
<1> QED
  BY <1>1, <1>2, <1>3, <1>4

\* Both do the same to everything but ip.
LEMMA EffectAgrees ==
    ASSUME NEW k, NEW g, Facing(k, g), LeftFirst, program[k].op # "hlt"
    PROVE  Agrees(X86Effect(cmds[k]), Effect(program[k], g))
<1> DEFINE c == program[k]
           x == cmds[k]
<1>1. /\ x.name = c.op /\ x.mode = c.mode /\ x.reg = c.reg /\ c.op \in TranslatedOps
      /\ c.op \notin JumpOps => x.value = c.value
      /\ c.op \in {"push", "pop"} => c.mode \in Modes \ {"none", "imm_reg"}
      /\ c.op = "pop" => c.mode # "imm"
      /\ k \in 1..Len(program)
  BY FacingCommand
<1>2. Agrees(cpu, g)
  BY DEF Facing
<1>3. UsesReg(c) => /\ c.reg \in Registers /\ ~(c.reg = Rax /\ Prints)
                    /\ SameValue(cpu.regs[c.reg], g.regs[c.reg])
  BY FacingReg
<1>4. c.op \in {"push", "pop"} /\ InRam(c) => MemWord(x) = Address(c, g) /\ Address(c, g) \in Addresses
  BY FacingWord
<1>5. /\ c.op \in ArithOps \cup CondOps => 2 \in 0..Len(cpu.stack) /\ Top(cpu) = Top(g) /\ Below(cpu) = Below(g)
      /\ c.op \in {"sqr", "out"} => 1 \in 0..Len(cpu.stack) /\ Top(cpu) = Top(g)
      /\ c.op \in {"pop", "ret"} => 1 \in 0..Len(cpu.stack) /\ SameValue(Top(cpu), Top(g))
      /\ 0 \in 0..Len(cpu.stack)
  BY FacingNumbers
<1>6. InRam(x) <=> InRam(c)
  BY <1>1 DEF InRam
<1>7. x.name \in {"push", "pop", "mov"} => X86Effect(x) = X86Move(x)
  BY X86EffectIs
<1>8. c.op = "call" => CodeEnd(k) = cpu.ip + Emitted(x) /\ EndAt(k) = g.ip + Size("call")
  BY FacingPlace
<1>9. c.op = "call" => SameValue(Ret(cpu.ip + Emitted(x)), Ret(g.ip + Size("call")))
  BY <1>1, <1>8 DEF SameValue, Facing
<1>10. c.op = "out" => Prints
  BY <1>1 DEF Prints
<1>11. Placed
  BY DEF Facing
<1>12. c.op # "hlt"
  OBVIOUS
<1>28. Defined(c, g) /\ SameText(c, g)
  BY DEF Facing
<1> SUFFICES Agrees(X86Effect(x), Effect(c, g))
  OBVIOUS
<1> HIDE DEF c, x
<1>13. CASE c.op = "push" /\ InRam(c)
  <2>1. Effect(c, g) = Pushed(g, 0, g.ram[Address(c, g)])
    <3>1. c.mode # "reg"
      BY <1>13 DEF InRam
    <3>2. Arg(c, g) = g.ram[Address(c, g)]
      BY <1>13, <3>1 DEF Arg
    <3> QED
      BY <1>13, <3>2, EffectIs
  <2>2. X86Effect(x) = Pushed(cpu, 0, cpu.ram[Address(c, g)])
    BY <1>1, <1>4, <1>6, <1>7, <1>13, X86MoveIs
  <2>3. SameValue(cpu.ram[Address(c, g)], g.ram[Address(c, g)])
    BY <1>2, <1>4, <1>13, AgreeParts DEF SameRam
  <2> QED
    BY <1>2, <1>5, <2>1, <2>2, <2>3, PushAgrees
<1>14. CASE c.op = "push" /\ c.mode = "reg"
  <2>1. ~InRam(c) /\ UsesReg(c)
    BY <1>14 DEF InRam, UsesReg
  <2>2. Effect(c, g) = Pushed(g, 0, g.regs[c.reg])
    BY <1>14, <2>1, EffectIs DEF Arg
  <2>3. X86Effect(x) = Pushed(cpu, 0, cpu.regs[c.reg])
    BY <1>1, <1>7, <1>14, X86MoveIs
  <2> QED
    BY <1>2, <1>3, <1>5, <2>1, <2>2, <2>3, PushAgrees
<1>15. CASE c.op = "push" /\ c.mode = "imm"
  <2>1. ~InRam(c) /\ ArgNumber(c, g) = c.value
    BY <1>15 DEF InRam, ArgNumber
  <2>2. Effect(c, g) = Pushed(g, 0, Num(c.value))
    BY <1>15, <2>1, EffectIs DEF Arg
  <2>3. x.value = c.value
    BY <1>1, <1>15 DEF JumpOps, CondOps
  <2>4. X86Effect(x) = Pushed(cpu, 0, Num(c.value))
    BY <1>1, <1>7, <1>15, <2>3, X86MoveIs
  <2> QED
    BY <1>2, <1>5, <2>2, <2>4, NumIsNum, PushAgrees
<1>16. CASE c.op = "pop" /\ InRam(c)
  <2>1. Effect(c, g) = RamSet(g, Address(c, g), Top(g), 1)
    BY <1>16, EffectIs
  <2>2. X86Effect(x) = RamSet(cpu, Address(c, g), Top(cpu), 1)
    BY <1>1, <1>4, <1>6, <1>7, <1>16, X86MoveIs
  <2> QED
    BY <1>2, <1>4, <1>5, <1>16, <2>1, <2>2, RamAgrees
<1>17. CASE c.op = "pop" /\ c.mode = "reg"
  <2>1. UsesReg(c)
    BY <1>17 DEF UsesReg
  <2>2. Effect(c, g) = RegSet(g, c.reg, Top(g), 1)
    BY <1>17, EffectIs
  <2>3. X86Effect(x) = RegSet(cpu, c.reg, Top(cpu), 1)
    BY <1>1, <1>7, <1>17, X86MoveIs
  <2>4. SameReg(c.reg, Top(cpu), Top(g))
    BY <1>3, <1>5, <1>17, <2>1 DEF SameReg
  <2> QED
    BY <1>2, <1>3, <1>5, <1>17, <2>1, <2>2, <2>3, <2>4, RegAgrees
<1>18. CASE c.op \in ArithOps
  <2>1. Left(g) = Top(g).n /\ Right(g) = Below(g).n
    BY DEF Left, Right
  <2>2. Effect(c, g) = Pushed(g, 2, Num(Arith(c.op, Top(g).n, Below(g).n)))
    BY <1>18, <2>1, EffectIs
  <2>3. X86Effect(x) = Pushed(cpu, 2, Num(Arith(c.op, Top(g).n, Below(g).n)))
    BY <1>1, <1>5, <1>18, X86EffectIs
  <2> QED
    BY <1>2, <1>5, <1>18, <2>2, <2>3, NumIsNum, PushAgrees
<1>19. CASE c.op = "sqr"
  <2>1. Effect(c, g) = Pushed(g, 1, Num(Func("sqr", Top(g).n)))
    BY <1>19, EffectIs
  <2>2. X86Effect(x) = Pushed(cpu, 1, Num(Func("sqr", Top(g).n)))
    BY <1>1, <1>5, <1>19, X86EffectIs
  <2> QED
    BY <1>2, <1>5, <1>19, <2>1, <2>2, NumIsNum, PushAgrees
<1>20. CASE c.op = "out"
  <2> DEFINE y == PrintfShows(Top(g).n)
             v == IF Round(Top(g).n) >= 0 THEN Num(0) ELSE Raw
  <2>1. Effect(c, g) = Printed(g, y, 1)
    <3>1. y = Shown(Top(g).n)
      BY <1>20, <1>28 DEF SameText
    <3> QED
      BY <1>20, <3>1, EffectIs
  <2>2. IsRecord(cpu)
    BY <1>2, AgreeParts
  <2>3. X86Effect(x) = OutSet(cpu, y, v)
    BY <1>1, <1>5, <1>20, <2>2, X86EffectIs
  <2>4. v \in {Num(0), Raw}
    OBVIOUS
  <2> HIDE DEF y, v
  <2>5. Agrees(OutSet(cpu, y, v), Printed(g, y, 1))
    BY <1>2, <1>5, <1>10, <1>20, <2>4, PrintAgrees DEF OutSet, MovSet
  <2> QED
    BY <2>1, <2>3, <2>5
<1>21. CASE c.op = "in"
  <2>1. Effect(c, g) = Given(g, Num(Head(g.in)))
    BY <1>21, EffectIs
  <2>2. X86Effect(x) = Given(cpu, Num(Head(g.in)))
    <3>1. ScanfReads(Head(g.in)) = Head(g.in)
      BY <1>21, <1>28 DEF SameText
    <3>2. cpu.in = g.in
      BY <1>2, AgreeParts
    <3>3. X86Effect(x) = Given(cpu, Num(ScanfReads(Head(cpu.in))))
      BY <1>1, <1>21, X86EffectIs
    <3> QED
      BY <3>1, <3>2, <3>3
  <2> QED
    BY <1>2, <2>1, <2>2, NumIsNum, GivenAgrees
<1>22. CASE c.op \in CondOps
  <2>1. Effect(c, g) = DropsTo(g, 2) /\ X86Effect(x) = DropsTo(cpu, 2)
    BY <1>1, <1>22, EffectIs, X86EffectIs
  <2> QED
    BY <1>2, <1>5, <1>22, <2>1, DropAgrees
<1>23. CASE c.op = "call"
  <2>1. Effect(c, g) = Pushed(g, 0, Ret(g.ip + Size("call"))) /\ X86Effect(x) = Pushed(cpu, 0, Ret(cpu.ip + Emitted(x)))
    BY <1>1, <1>23, EffectIs, X86EffectIs
  <2> QED
    BY <1>2, <1>5, <1>9, <1>23, <2>1, PushAgrees
<1>24. CASE c.op = "ret"
  <2>1. Effect(c, g) = DropsTo(g, 1) /\ X86Effect(x) = DropsTo(cpu, 1)
    BY <1>1, <1>24, EffectIs, X86EffectIs
  <2> QED
    BY <1>2, <1>5, <1>24, <2>1, DropAgrees
<1>25. CASE c.op = "jmp"
  <2>1. Effect(c, g) = g /\ X86Effect(x) = cpu
    BY <1>1, <1>25, EffectIs, X86EffectIs
  <2> QED
    BY <1>2, <2>1
<1>26. c.op = "hlt" \/ c.op \in {"push", "pop", "sqr", "out", "in", "ret", "call", "jmp"} \cup ArithOps \cup CondOps
  BY <1>1 DEF TranslatedOps, JumpOps, PlainOps
<1>27. c.op \in {"push", "pop"} => InRam(c) \/ c.mode = "reg" \/ (c.op = "push" /\ c.mode = "imm")
  BY <1>1 DEF Modes, InRam
<1> QED
  BY <1>13, <1>14, <1>15, <1>16, <1>17, <1>18, <1>19, <1>20, <1>21, <1>22, <1>23, <1>24, <1>25, <1>26, <1>27, <1>12

\* And both go to the same place.
LEMMA NextAgrees ==
    ASSUME NEW k, NEW g, Facing(k, g), LeftFirst, program[k].op # "hlt",
           At(program, NextIp(program[k], g)) # {}
    PROVE  \E m \in 0..Len(cmds) : /\ Arrived(m)
                                   /\ X86NextIp(cmds[k]) = CodeEnd(m)
                                   /\ NextIp(program[k], g) = EndAt(m)
<1> DEFINE c == program[k]
           x == cmds[k]
<1>1. /\ x.name = c.op /\ c.op \in TranslatedOps /\ k \in 1..Len(cmds) /\ Len(cmds) \in Nat
      /\ Len(program) = Len(cmds) /\ Assembled(program)
      /\ c.op \in JumpOps => x.value = JumpIn(cmds, c.value)
      /\ c.op \notin {"jb", "jbe"}
      /\ Placed /\ Kept(k) /\ NoJumpInside(program)
  BY FacingCommand DEF Facing
<1>2. CodeEnd(k) = cpu.ip + Emitted(x) /\ EndAt(k) = g.ip + Size(c.op)
  BY FacingPlace
<1>3. x.pos = x.x86_ip /\ x.pos \in Nat
  BY FacingPlace
<1>4. CASE c.op \in JumpOps /\ NextIp(c, g) = c.value /\ X86NextIp(x) = Target(x)
  <2>1. PICK t \in 1..Len(program) : program[t].at = c.value
    BY <1>4 DEF At
  <2>2. c.value = EndAt(t - 1)
    BY <1>1, <2>1, BeginsAt
  <2>3. ~JoinsPrevious(program, t)
    BY <1>1, <1>4, <2>1 DEF NoJumpInside, At
  <2>4. Arrived(t - 1) /\ JumpIn(cmds, EndAt(t - 1)) = CodeEnd(t - 1)
    BY <1>1, <2>3, LabelFound
  <2>5. t - 1 \in 0..Len(cmds)
    BY <1>1
  <2>6. CodeEnd(t - 1) \in Nat
    BY <1>1, <2>5, CodeEndNat
  <2>7. x.value = CodeEnd(t - 1)
    BY <1>1, <1>4, <2>2, <2>4
  <2>8. Target(x) = x.value
    <3>1. JumpEnd(x) = x.pos + Emitted(x)
      <4> DEFINE q == x.pos
      <4>1. q = x.x86_ip /\ q \in Nat /\ x.name \in JumpOps
        BY <1>1, <1>3, <1>4
      <4> HIDE DEF x, q
      <4>2. CASE x.name \in CondOps
        BY <4>1, <4>2 DEF JumpEnd, Emitted, CondOps, ArithOps, LoadXmm0, AddRsp, Ptr, q
      <4>3. CASE x.name \in {"jmp", "call"}
        BY <4>1, <4>3 DEF JumpEnd, Emitted, CondOps, ArithOps, Ptr, q
      <4> QED
        BY <4>1, <4>2, <4>3 DEF JumpOps
    <3>2. Emitted(x) \in Nat
      BY <1>1, EmittedSome
    <3> DEFINE q == x.pos e == Emitted(x) v == x.value
    <3>3. Target(x) = q + e + v - (q + e)
      BY <3>1 DEF Target
    <3>4. q \in Nat /\ e \in Nat /\ v \in Nat
      BY <1>3, <2>6, <2>7, <3>2
    <3> HIDE DEF q, e, v
    <3> QED
      BY <3>3, <3>4 DEF v
  <2> QED
    BY <1>4, <2>2, <2>4, <2>5, <2>7, <2>8
<1>5. CASE NextIp(c, g) = EndAt(k) /\ X86NextIp(x) = CodeEnd(k)
  <2>1. k \in 0..Len(cmds)
    BY <1>1
  <2> QED
    BY <1>1, <1>5, <2>1 DEF Arrived
<1>6. CASE c.op \in {"jmp", "call"}
  <2>1. NextIp(c, g) = c.value /\ X86NextIp(x) = Target(x)
    BY <1>1, <1>6 DEF NextIp, X86NextIp, CondOps
  <2> QED
    BY <1>4, <1>6, <2>1 DEF JumpOps
<1>7. CASE c.op \in CondOps
  <2>1. Left(g) = Top(cpu).n /\ Right(g) = Below(cpu).n
    BY <1>7, FacingNumbers DEF Left, Right
  <2> DEFINE a == Top(cpu).n b == Below(cpu).n
  <2>2. Jumps(x.name, a, b) = Holds(c.op, a, b)
    BY <1>1, <1>7 DEF Jumps, Holds, CondOps
  <2>3. NextIp(c, g) = IF Holds(c.op, a, b) THEN c.value ELSE g.ip + Size(c.op)
    BY <1>7, <2>1 DEF NextIp, CondOps
  <2>4. X86NextIp(x) = IF Jumps(x.name, a, b) THEN Target(x) ELSE cpu.ip + Emitted(x)
    BY <1>1, <1>7 DEF X86NextIp, CondOps
  <2> HIDE DEF a, b
  <2> QED
    BY <1>2, <1>4, <1>5, <1>7, <2>2, <2>3, <2>4 DEF JumpOps
<1>8. CASE c.op = "ret"
  <2>1. NextIp(c, g) = Top(g).n /\ X86NextIp(x) = Top(cpu).n
    BY <1>1, <1>8 DEF NextIp, X86NextIp, CondOps
  <2>2. SameValue(Top(cpu), Top(g))
    BY <1>8, FacingNumbers
  <2>3. Top(g).tag = "ret"
    BY <1>8 DEF Facing, Defined
  <2>4. Top(g) # Num(Top(cpu).n)
    BY <2>3, NumIsNum
  <2>5. PICK q \in 1..Len(cmds) : Kept(q) /\ Top(cpu) = Ret(CodeEnd(q)) /\ Top(g) = Ret(EndAt(q))
    BY <2>2, <2>4 DEF SameValue
  <2>6. Top(cpu).n = CodeEnd(q) /\ Top(g).n = EndAt(q)
    BY <2>5 DEF Ret
  <2>7. q \in 0..Len(cmds)
    BY <1>1
  <2> QED
    BY <2>1, <2>5, <2>6, <2>7 DEF Arrived
<1>9. CASE c.op \notin JumpOps \cup {"ret"}
  <2>1. NextIp(c, g) = g.ip + Size(c.op) /\ X86NextIp(x) = cpu.ip + Emitted(x)
    BY <1>1, <1>9 DEF NextIp, X86NextIp, CondOps, JumpOps
  <2> QED
    BY <1>2, <1>5, <2>1
<1> QED
  BY <1>6, <1>7, <1>8, <1>9 DEF JumpOps

(***************************************************************************)
(* A kept command and what it stands for.                                  *)
(***************************************************************************)
Follows(c, g) ==
    /\ Agrees(c, g) /\ c.status \in {"running", "halted"}
    /\ \E m \in 0..Len(cmds) : Arrived(m) /\ c.ip = CodeEnd(m) /\ g.ip = EndAt(m)

LEMMA EffectStatus ==
    ASSUME NEW c, NEW s, IsRecord(s), c.op \in TranslatedOps,
           c.op = "pop" => InRam(c) \/ c.mode = "reg"
    PROVE  Effect(c, s).status = s.status
<1>1. CASE c.op = "push"
  BY <1>1, EffectIs, PushedIs, StateFields
<1>2. CASE c.op = "pop"
  <2>1. CASE InRam(c)
    BY <1>2, <2>1, EffectIs, RamSetIs, StateFields
  <2>2. CASE c.mode = "reg"
    BY <1>2, <2>2, EffectIs, RegSetIs, StateFields
  <2> QED
    BY <1>2, <2>1, <2>2
<1>3. CASE c.op \in ArithOps
  BY <1>3, EffectIs, PushedIs, StateFields
<1>4. CASE c.op = "sqr"
  BY <1>4, EffectIs, PushedIs, StateFields
<1>5. CASE c.op = "out"
  BY <1>5, EffectIs, PrintedIs, StateFields
<1>6. CASE c.op = "in"
  BY <1>6, EffectIs, GivenIs, StateFields
<1>7. CASE c.op \in CondOps
  BY <1>7, EffectIs, DropsIs, StateFields
<1>8. CASE c.op = "call"
  BY <1>8, EffectIs, PushedIs, StateFields
<1>9. CASE c.op = "ret"
  BY <1>9, EffectIs, DropsIs, StateFields
<1>10. CASE c.op \in {"hlt", "jmp"}
  BY <1>10, EffectIs
<1> QED
  BY <1>1, <1>2, <1>3, <1>4, <1>5, <1>6, <1>7, <1>8, <1>9, <1>10 DEF TranslatedOps, JumpOps, PlainOps

LEMMA StopIs ==
    \A s : IsRecord(s) => \A why : /\ Stop(s, why) = SetStatus(s, why)
                                   /\ Stop(s, why).status = why /\ Stop(s, why).ip = s.ip
                                   /\ SetIp(s, why).ip = why /\ SetIp(s, why).status = s.status
<1>1. \A s, why : Stop(s, why) = SetStatus(s, why)
  BY Zenon DEF Stop, SetStatus
<1> QED
  BY <1>1, FieldSet, StateFields

\* A program that means something never runs past its last command.
LEMMA Lands ==
    ASSUME NEW s, IsRecord(s), s.status = "running", Followed(program, After(program, s))
    PROVE  At(program, s.ip) # {}
<1> SUFFICES ASSUME At(program, s.ip) = {} PROVE FALSE
  OBVIOUS
<1>1. CASE s.ip >= EndOf(program)
  <2>1. After(program, s) = Stop(s, "halted")
    BY <1>1 DEF After
  <2>2. Stop(s, "halted").status = "halted" /\ Stop(s, "halted").ip = s.ip
    BY StopIs
  <2> QED
    BY <2>1, <2>2 DEF Followed
<1>2. CASE ~(s.ip >= EndOf(program))
  <2>1. After(program, s) = Stop(s, "wild")
    BY <1>2 DEF After
  <2>2. Stop(s, "wild").status = "wild"
    BY StopIs
  <2> QED
    BY <2>1, <2>2 DEF Followed
<1> QED
  BY <1>1, <1>2

LEMMA SingleFollows ==
    ASSUME Placed, SafeProgram(program), LeftFirst,
           NEW k \in 1..Len(cmds), Kept(k), Gap(k - 1, k), Single(k),
           NEW g, Agrees(cpu, g), cpu.status = "running", cpu.ip = CodeEnd(k - 1), g.ip = EndAt(k - 1),
           Followed(program, g), Followed(program, After(program, g)),
           Followed(program, After(program, After(program, g)))
    PROVE  Follows(Execute(cmds[k]), After(program, g))
<1> DEFINE c == program[k]
           h == After(program, g)
<1>1. /\ Len(cmds) \in Nat /\ Len(program) = Len(cmds) /\ Assembled(program)
      /\ k \in 1..Len(program) /\ k - 1 \in 0..Len(cmds) /\ Arrived(k - 1)
  <2>1. Len(cmds) \in Nat /\ Len(program) = Len(cmds) /\ Assembled(program)
    BY CmdsAre DEF Placed, LabelsInv, IrTypeOK, StandInv, AllParsed
  <2> QED
    BY <2>1 DEF Gap, Arrived
<1>2. g.status = "running" /\ IsRecord(g) /\ IsRecord(cpu)
  BY AgreeParts
<1>3. h = Executed(c, g)
  BY <1>1, <1>2, AfterIs
<1>4. At(program, g.ip) = {k}
  BY <1>1, CommandsAt
<1>5. Defined(c, g)
  <2> SUFFICES ASSUME ~Defined(c, g) PROVE FALSE
    OBVIOUS
  <2>1. h = Stop(g, "wild")
    BY <1>3 DEF Executed
  <2>2. Stop(g, "wild").status = "wild"
    BY <1>2, StopIs
  <2> QED
    BY <2>1, <2>2 DEF Followed
<1>6. Halts(c, g) => c.op = "hlt"
  <2> SUFFICES ASSUME Halts(c, g) PROVE c.op = "hlt"
    OBVIOUS
  <2>1. h = Stop(g, "halted")
    BY <1>3, <1>5 DEF Executed
  <2>2. h.status = "halted" /\ h.ip = g.ip
    BY <1>2, <2>1, StopIs
  <2> QED
    BY <1>4, <2>2 DEF Followed
<1>7. Facing(k, g)
  <2>1. SameWord(c, g) /\ SameText(c, g)
    BY <1>4 DEF Followed
  <2>2. c.op = "ret" => g.stack # <<>>
    BY <1>6 DEF Halts
  <2> QED
    BY <1>5, <2>1, <2>2 DEF Facing, SafeProgram
<1>8. X86Defined(cmds[k]) /\ cmds[k].name = c.op /\ c.op \in TranslatedOps
  BY <1>7, DefinedToo, FacingCommand
<1>9. CASE c.op = "hlt"
  <2>1. Execute(cmds[k]) = Stop(cpu, "halted")
    BY <1>8, <1>9 DEF Execute
  <2>2. h = Stop(g, "halted")
    BY <1>3, <1>5, <1>9 DEF Executed, Halts
  <2>3. Agrees(Stop(cpu, "halted"), Stop(g, "halted"))
    BY <1>2, StopIs, StopAgrees
  <2>4. /\ Stop(cpu, "halted").ip = CodeEnd(k - 1) /\ Stop(g, "halted").ip = EndAt(k - 1)
        /\ Stop(cpu, "halted").status = "halted"
    BY <1>2, StopIs
  <2> QED
    BY <1>1, <2>1, <2>2, <2>3, <2>4 DEF Follows
<1>10. CASE c.op # "hlt"
  <2> DEFINE a == X86Effect(cmds[k])
             b == Effect(c, g)
             x == X86NextIp(cmds[k])
             y == NextIp(c, g)
  <2>1. Execute(cmds[k]) = SetIp(a, x)
    <3>1. SetIp(a, x) = [a EXCEPT !.ip = x]
      BY Zenon DEF SetIp
    <3> QED
      BY <1>8, <1>10, <3>1 DEF Execute
  <2>2. h = SetIp(b, y)
    <3>1. SetIp(b, y) = [b EXCEPT !.ip = y]
      BY Zenon DEF SetIp
    <3> QED
      BY <1>3, <1>5, <1>6, <1>10, <3>1 DEF Executed
  <2>3. Agrees(a, b)
    BY <1>7, <1>10, EffectAgrees
  <2>4. b.status = "running"
    <3>1. c.op = "pop" => InRam(c) \/ c.mode = "reg"
      BY <1>7, FacingCommand DEF InRam, Modes
    <3> QED
      BY <1>2, <1>8, <3>1, EffectStatus
  <2>5. IsRecord(a) /\ IsRecord(b)
    BY <2>3, AgreeParts
  <2>6. Agrees(SetIp(a, x), SetIp(b, y))
    BY <2>3, IpAgrees
  <2>7. SetIp(a, x).ip = x /\ SetIp(b, y).ip = y /\ SetIp(b, y).status = "running" /\ IsRecord(SetIp(b, y))
    BY <2>4, <2>5, <2>6, StopIs, AgreeParts
  <2>8. At(program, y) # {}
    BY <2>2, <2>7, Lands
  <2>9. SetIp(a, x).status = "running"
    BY <2>6, <2>7, AgreeParts
  <2>10. PICK m \in 0..Len(cmds) : Arrived(m) /\ x = CodeEnd(m) /\ y = EndAt(m)
    BY <1>7, <1>10, <2>8, NextAgrees
  <2> HIDE DEF a, b, x, y, h
  <2> QED
    BY <2>1, <2>2, <2>6, <2>7, <2>9, <2>10 DEF Follows, h
<1> QED
  BY <1>9, <1>10

LEMMA NextEnds ==
    ASSUME Placed, NEW k \in 1..Len(cmds), Kept(k), NEW j \in 0..k - 1, Gap(j, k)
    PROVE  CodeEnd(k) = CodeEnd(j) + Emitted(cmds[k])
<1>1. CodeEnd(k) = cmds[k].pos + Emitted(cmds[k])
  BY LiesAt
<1>2. PICK h \in 0..k - 1 : Gap(h, k) /\ cmds[k].pos = CodeEnd(h)
  BY LiesAt
<1>3. h = j
  <2>1. k \in Nat
    BY CmdsAre DEF Placed, LabelsInv, IrTypeOK
  <2> QED
    BY <1>2, <2>1, GapUnique
<1> QED
  BY <1>1, <1>2, <1>3

\* push num
LEMMA PushCode ==
    ASSUME NEW x, x.name = "push", x.mode = "imm", IsRecord(cpu)
    PROVE  Execute(x) = State(cpu.ip + Emitted(x), Append(Drop(cpu, 0), Num(x.value)),
                              cpu.regs, cpu.ram, cpu.in, cpu.out, cpu.status)
<1>1. X86Defined(x)
  BY DEF X86Defined, InRam, ArithOps, CondOps
<1>2. X86Effect(x) = Pushed(cpu, 0, Num(x.value))
  BY X86EffectIs, X86MoveIs
<1>3. X86NextIp(x) = cpu.ip + Emitted(x)
  BY DEF X86NextIp, CondOps
<1> DEFINE a == X86Effect(x)
           y == X86NextIp(x)
<1>4. Execute(x) = SetIp(a, y)
  <2>1. SetIp(a, y) = [a EXCEPT !.ip = y]
    BY Zenon DEF SetIp
  <2> QED
    BY <1>1, <2>1 DEF Execute
<1>5. a = State(cpu.ip, Append(Drop(cpu, 0), Num(x.value)), cpu.regs, cpu.ram, cpu.in, cpu.out, cpu.status)
  BY <1>2, PushedIs
<1>6. IsRecord(a)
  BY <1>5, RecordIs
<1> HIDE DEF a, y
<1>7. SetIp(a, y) = State(y, a.stack, a.regs, a.ram, a.in, a.out, a.status)
  BY <1>6, FieldSet
<1>8. y = cpu.ip + Emitted(x)
  BY <1>3 DEF y
<1> QED
  BY <1>4, <1>5, <1>7, <1>8, StateFields

\* mov r?x, num
LEMMA MovCode ==
    ASSUME NEW x, x.name = "mov", IsRecord(cpu)
    PROVE  Execute(x) = State(cpu.ip + Emitted(x), cpu.stack, Writes(cpu.regs, x.reg, Num(x.value)),
                              cpu.ram, cpu.in, cpu.out, cpu.status)
<1>1. X86Defined(x)
  BY DEF X86Defined, InRam, ArithOps, CondOps
<1>2. X86Effect(x) = SetRegs(cpu, Writes(cpu.regs, x.reg, Num(x.value)))
  BY X86EffectIs, X86MoveIs DEF MovSet
<1>3. X86NextIp(x) = cpu.ip + Emitted(x)
  BY DEF X86NextIp, CondOps
<1> DEFINE a == X86Effect(x)
           y == X86NextIp(x)
<1>4. Execute(x) = SetIp(a, y)
  <2>1. SetIp(a, y) = [a EXCEPT !.ip = y]
    BY Zenon DEF SetIp
  <2> QED
    BY <1>1, <2>1 DEF Execute
<1>5. a = State(cpu.ip, cpu.stack, Writes(cpu.regs, x.reg, Num(x.value)), cpu.ram, cpu.in, cpu.out, cpu.status)
  BY <1>2, FieldSet
<1>6. IsRecord(a)
  BY <1>5, RecordIs
<1> HIDE DEF a, y
<1>7. SetIp(a, y) = State(y, a.stack, a.regs, a.ram, a.in, a.out, a.status)
  BY <1>6, FieldSet
<1>8. y = cpu.ip + Emitted(x)
  BY <1>3 DEF y
<1> QED
  BY <1>4, <1>5, <1>7, <1>8, StateFields

LEMMA AgreesState ==
    ASSUME NEW c, NEW g, Agrees(c, g)
    PROVE  IsState(g) /\ IsSeq(c.stack)
  BY AgreeParts DEF IsState, SameStack, SameRegs, SameRam

LEMMA ComputedFollows ==
    ASSUME Placed, NEW k \in 1..Len(cmds), Kept(k), NEW j \in 0..k - 1, Gap(j, k), Computed(j, k),
           NEW g, Agrees(cpu, g), cpu.status = "running", cpu.ip = CodeEnd(j), g.ip = EndAt(j)
    PROVE  Follows(Execute(cmds[k]), Run(program, g, k - j))
<1>1. PICK v : cmds[k].value = v /\ PushesTo(j, k, Num(v))
  BY DEF Computed
<1>2. IsState(g) /\ g.status = "running" /\ IsRecord(cpu) /\ IsSeq(cpu.stack)
  BY AgreesState, AgreeParts
<1> DEFINE p == Append(cpu.stack, Num(v))
           q == Append(g.stack, Num(v))
<1>3. Run(program, g, k - j) = State(EndAt(k), q, g.regs, g.ram, g.in, g.out, "running")
  BY <1>1, <1>2 DEF PushesTo
<1>4. Execute(cmds[k]) = State(CodeEnd(k), p, cpu.regs, cpu.ram, cpu.in, cpu.out, "running")
  <2>1. cmds[k].name = "push" /\ cmds[k].mode = "imm"
    BY DEF Computed
  <2>2. Drop(cpu, 0) = cpu.stack
    BY <1>2, DropNone
  <2>3. CodeEnd(k) = cpu.ip + Emitted(cmds[k])
    BY NextEnds
  <2> QED
    BY <1>1, <1>2, <2>1, <2>2, <2>3, PushCode
<1>5. SameStack(p, q)
  BY AgreeParts, SameAppend, NumIsNum
<1> HIDE DEF p, q
<1>6. Agrees(Execute(cmds[k]), Run(program, g, k - j))
  BY <1>3, <1>4, <1>5, AgreeParts, AgreeIs
<1>7. k \in 0..Len(cmds)
  OBVIOUS
<1> QED
  BY <1>3, <1>4, <1>6, <1>7, StateFields DEF Follows, Arrived

LEMMA MovFollows ==
    ASSUME Placed, NoRaxWhenPrinting(program),
           NEW k \in 2..Len(cmds), Kept(k), Gap(k - 2, k), Mov(k),
           NEW g, Agrees(cpu, g), cpu.status = "running", cpu.ip = CodeEnd(k - 2), g.ip = EndAt(k - 2)
    PROVE  Follows(Execute(cmds[k]), Run(program, g, 2))
<1> DEFINE c == program[k]
           v == program[k - 1].value
<1>1. /\ Len(cmds) \in Nat /\ Len(program) = Len(cmds) /\ Assembled(program)
      /\ k \in 1..Len(program) /\ k \in 1..Len(cmds) /\ k - 1 \in 1..Len(program) /\ k \in Nat
      /\ k - 2 \in 0..k - 1 /\ (k - 1) - 1 = k - 2 /\ (k - 1) - (k - 2) = 1 /\ k \in 0..Len(cmds)
      /\ c \in Command
  <2>1. Len(cmds) \in Nat /\ Len(program) = Len(cmds) /\ Assembled(program)
    BY CmdsAre DEF Placed, LabelsInv, IrTypeOK, StandInv, AllParsed
  <2>2. k \in 1..Len(program)
    BY <2>1
  <2>3. c \in Command
    BY <2>1, <2>2, ElementOfSeq DEF Assembled
  <2> QED
    BY <2>1, <2>2, <2>3
<1>2. IsState(g) /\ g.status = "running" /\ IsRecord(cpu) /\ IsSeq(cpu.stack) /\ IsSeq(g.stack)
  BY AgreesState, AgreeParts DEF IsState
<1>3. /\ IsImm(program, k - 1) /\ c.op = "pop" /\ c.mode = "reg"
      /\ cmds[k].name = "mov" /\ cmds[k].reg = c.reg /\ cmds[k].value = v
  BY DEF Mov
<1>4. c.reg \in Registers /\ ~(c.reg = Rax /\ Prints)
  BY <1>1, <1>3 DEF Command, NoRaxWhenPrinting, Prints, UsesReg
<1> DEFINE t == Run(program, g, 1)
<1>5. t = State(EndAt(k - 1), Append(g.stack, Num(v)), g.regs, g.ram, g.in, g.out, "running")
  <2>1. PushesTo((k - 1) - 1, k - 1, Num(v))
    BY <1>1, <1>3, ImmPushes
  <2>2. Run(program, g, (k - 1) - (k - 2)) = State(EndAt(k - 1), Append(g.stack, Num(v)), g.regs, g.ram, g.in, g.out, "running")
    BY <1>1, <1>2, <2>1 DEF PushesTo
  <2> QED
    BY <1>1, <2>2
<1> HIDE DEF c, v, t
<1>6. /\ IsRecord(t) /\ t.ip = EndAt(k - 1) /\ t.stack = Append(g.stack, Num(v)) /\ t.regs = g.regs /\ t.ram = g.ram
      /\ t.in = g.in /\ t.out = g.out /\ t.status = "running"
  <2>1. IsRecord(t)
    BY <1>5, RecordIs
  <2>2. /\ t.ip = EndAt(k - 1) /\ t.stack = Append(g.stack, Num(v)) /\ t.regs = g.regs /\ t.ram = g.ram
        /\ t.in = g.in /\ t.out = g.out /\ t.status = "running"
    <3> DEFINE y == EndAt(k - 1)
               q == Append(g.stack, Num(v))
    <3>1. t = State(y, q, g.regs, g.ram, g.in, g.out, "running")
      BY <1>5
    <3> HIDE DEF y, q
    <3>2. /\ t.ip = y /\ t.stack = q /\ t.regs = g.regs /\ t.ram = g.ram
          /\ t.in = g.in /\ t.out = g.out /\ t.status = "running"
      BY <3>1, StateFields
    <3> QED
      BY <3>2 DEF y, q
  <2> QED
    BY <2>1, <2>2
<1>7. Top(t) = Num(v) /\ Drop(t, 1) = g.stack /\ Len(t.stack) >= 1
  <2>1. /\ Len(g.stack) \in Nat /\ Len(Append(g.stack, Num(v))) = Len(g.stack) + 1
        /\ Append(g.stack, Num(v))[Len(g.stack) + 1] = Num(v)
    BY <1>2, Appended
  <2>2. SubSeq(Append(g.stack, Num(v)), 1, Len(Append(g.stack, Num(v))) - 1) = g.stack
    BY <1>2, PushedDropped
  <2> QED
    BY <1>6, <2>1, <2>2 DEF Top, Drop
<1>8. Defined(c, t) /\ ~Halts(c, t) /\ c.op \notin JumpOps \cup {"ret"}
  BY <1>3, <1>7 DEF Defined, Operands, UsesReg, InRam, ArithOps, CondOps, FuncOps, JumpOps, Halts
<1>9. Run(program, t, 1) = SetIp(Effect(c, t), EndAt(k))
  <2>1. NextIp(c, t) = EndAt(k)
    BY <1>1, <1>6, <1>8, NextAfter DEF c
  <2> QED
    BY <1>1, <1>6, <1>8, <2>1, RanOne DEF c
<1> DEFINE e == Effect(c, t)
           w == Writes(g.regs, c.reg, Num(v))
<1>10. e = State(EndAt(k - 1), g.stack, w, g.ram, g.in, g.out, "running")
  <2>1. e = RegSet(t, c.reg, Top(t), 1)
    BY <1>3, EffectIs
  <2>2. RegSet(t, c.reg, Top(t), 1) = State(t.ip, Drop(t, 1), Writes(t.regs, c.reg, Top(t)), t.ram, t.in, t.out, t.status)
    BY <1>6, RegSetIs
  <2> QED
    BY <1>6, <1>7, <2>1, <2>2
<1> HIDE DEF e, w
<1>11. SetIp(e, EndAt(k)) = State(EndAt(k), g.stack, w, g.ram, g.in, g.out, "running")
  <2>1. IsRecord(e)
    BY <1>10, RecordIs
  <2>2. SetIp(e, EndAt(k)) = State(EndAt(k), e.stack, e.regs, e.ram, e.in, e.out, e.status)
    BY <2>1, FieldSet
  <2> QED
    BY <1>10, <2>2, StateFields
<1>12. Run(program, g, 2) = State(EndAt(k), g.stack, w, g.ram, g.in, g.out, "running")
  <2>1. Run(program, t, 1) = Run(program, g, 1 + 1) /\ 1 + 1 = 2
    BY RunAdds DEF t
  <2> QED
    BY <1>9, <1>11, <2>1 DEF e
<1> DEFINE f == Writes(cpu.regs, c.reg, Num(v))
<1>13. Execute(cmds[k]) = State(CodeEnd(k), cpu.stack, f, cpu.ram, cpu.in, cpu.out, "running")
  <2>1. CodeEnd(k) = cpu.ip + Emitted(cmds[k])
    BY <1>1, NextEnds
  <2> QED
    BY <1>2, <1>3, <2>1, MovCode
<1>14. SameRegs(f, w)
  <2>1. SameReg(c.reg, Num(v), Num(v))
    BY <1>4, NumIsNum DEF SameReg
  <2> QED
    BY <1>4, <2>1, AgreeParts, WriteRegs DEF w
<1> HIDE DEF f
<1>15. Agrees(Execute(cmds[k]), Run(program, g, 2))
  BY <1>12, <1>13, <1>14, AgreeParts, AgreeIs
<1> QED
  BY <1>1, <1>12, <1>13, <1>15, StateFields DEF Follows, Arrived

(***************************************************************************)
(* The two processors side by side.                                        *)
(***************************************************************************)
\* A translated program that means something has a command wherever rip goes.
LEMMA Somewhere ==
    ASSUME Placed, MeansSomething(program, input), NEW n \in Nat, Follows(cpu, Run(program, Started(input), n))
    PROVE  \E m \in 0..Len(cmds) - 1 : /\ Arrived(m) /\ cpu.ip = CodeEnd(m)
                                       /\ Run(program, Started(input), n).ip = EndAt(m)
<1> DEFINE g == Run(program, Started(input), n)
<1>1. /\ Len(cmds) \in Nat /\ Len(program) = Len(cmds) /\ Assembled(program)
  BY CmdsAre DEF Placed, LabelsInv, IrTypeOK, StandInv, AllParsed
<1>2. Followed(program, g) /\ Followed(program, After(program, g))
  <2>1. Followed(program, g)
    BY DEF MeansSomething
  <2>2. Followed(program, Run(program, Started(input), n + 1))
    <3>1. n + 1 \in Nat
      OBVIOUS
    <3> QED
      BY <3>1, Zenon DEF MeansSomething
  <2>3. Run(program, Started(input), n + 1) = After(program, g)
    BY RunSteps
  <2> QED
    BY <2>1, <2>2, <2>3
<1>3. IsRecord(g) /\ g.status = cpu.status /\ cpu.status \in {"running", "halted"}
  BY AgreeParts DEF Follows
<1>4. PICK m \in 0..Len(cmds) : Arrived(m) /\ cpu.ip = CodeEnd(m) /\ g.ip = EndAt(m)
  BY DEF Follows
<1>5. At(program, g.ip) # {}
  <2>1. CASE g.status = "running"
    BY <1>2, <1>3, <2>1, Lands
  <2>2. CASE g.status = "halted"
    BY <1>2, <2>2 DEF Followed
  <2> QED
    BY <1>3, <2>1, <2>2
<1>6. PICK t \in 1..Len(program) : program[t].at = g.ip
  BY <1>5 DEF At
<1>7. m = t - 1
  <2>1. EndAt(t - 1) = EndAt(m)
    BY <1>1, <1>4, <1>6, BeginsAt
  <2>2. t - 1 \in 0..Len(program) /\ m \in 0..Len(program)
    BY <1>1
  <2> QED
    BY <1>1, <2>1, <2>2, EndAtOnce
<1>8. m \in 0..Len(cmds) - 1
  BY <1>1, <1>7
<1> QED
  BY <1>4, <1>8

\* The written code of a command does what a few commands of the processor do.
LEMMA CommandFollows ==
    ASSUME Placed, SafeProgram(program), MeansSomething(program, input), LeftFirst,
           NEW n \in Nat, Follows(cpu, Run(program, Started(input), n)), RunCommand
    PROVE  \E m \in 1..Len(program) : Follows(cpu', Run(program, Run(program, Started(input), n), m))
<1> DEFINE g == Run(program, Started(input), n)
<1>1. Len(cmds) \in Nat /\ Len(program) = Len(cmds) /\ cpu.status = "running"
  BY CmdsAre DEF Placed, LabelsInv, IrTypeOK, StandInv, AllParsed, RunCommand
<1>2. PICK m \in 0..Len(cmds) - 1 : Arrived(m) /\ cpu.ip = CodeEnd(m) /\ g.ip = EndAt(m)
  BY Somewhere
<1>3. PICK k \in m + 1 .. Len(cmds) : Kept(k) /\ Gap(m, k)
  BY <1>2, NextKept
<1>4. k \in 1..Len(cmds) /\ m \in 0..Len(cmds) /\ m < k /\ m \in 0..k - 1 /\ k \in Nat /\ m \in Nat
  BY <1>1, <1>2, <1>3
<1>5. CommandAt(cpu.ip) = {k}
  BY <1>2, <1>3, <1>4, CommandAtIs
<1>6. cpu' = Execute(cmds[k])
  <2>1. (CHOOSE q \in CommandAt(cpu.ip) : TRUE) = k
    BY <1>5
  <2> QED
    BY <1>5, <2>1 DEF RunCommand
<1>7. StandsFor(m, k)
  <2>1. PICK j \in 0..k - 1 : Gap(j, k) /\ StandsFor(j, k)
    BY <1>3, <1>4, LiesAt
  <2>2. j = m
    BY <1>3, <1>4, <2>1, GapUnique
  <2> QED
    BY <2>1, <2>2
<1>8. Agrees(cpu, g)
  BY DEF Follows
<1>9. CASE m = k - 1 /\ Single(k)
  <2>1. /\ Followed(program, g) /\ Followed(program, After(program, g))
        /\ Followed(program, After(program, After(program, g)))
    <3>1. n + 1 \in Nat /\ (n + 1) + 1 \in Nat
      OBVIOUS
    <3>2. \A q \in Nat : Followed(program, Run(program, Started(input), q))
      BY DEF MeansSomething
    <3>3. Run(program, Started(input), n + 1) = After(program, g)
      BY RunSteps
    <3>4. Run(program, Started(input), (n + 1) + 1) = After(program, After(program, g))
      BY <3>1, <3>3, RunSteps
    <3>5. Followed(program, Run(program, Started(input), n + 1))
      BY <3>1, <3>2, Zenon
    <3>6. Followed(program, Run(program, Started(input), (n + 1) + 1))
      BY <3>1, <3>2, Zenon
    <3> QED
      BY <3>2, <3>3, <3>4, <3>5, <3>6
  <2> HIDE DEF g
  <2>2. Follows(Execute(cmds[k]), After(program, g))
    BY <1>1, <1>2, <1>3, <1>4, <1>8, <1>9, <2>1, SingleFollows
  <2>3. Run(program, g, 1) = After(program, g) /\ 1 \in 1..Len(program)
    BY <1>1, <1>4, RunOne
  <2> QED
    BY <1>6, <2>2, <2>3 DEF g
<1>10. CASE m = k - 2 /\ Mov(k)
  <2>1. k \in 2..Len(cmds) /\ 2 \in 1..Len(program)
    BY <1>1, <1>4, <1>10
  <2> HIDE DEF g
  <2>2. NoRaxWhenPrinting(program)
    BY DEF SafeProgram
  <2>3. Follows(Execute(cmds[k]), Run(program, g, 2))
    BY <1>1, <1>2, <1>3, <1>8, <1>10, <2>1, <2>2, MovFollows
  <2> QED
    BY <1>6, <2>1, <2>3 DEF g
<1>11. CASE Computed(m, k)
  <2>1. k - m \in 1..Len(program)
    BY <1>1, <1>4
  <2> HIDE DEF g
  <2>2. Follows(Execute(cmds[k]), Run(program, g, k - m))
    BY <1>1, <1>2, <1>3, <1>4, <1>8, <1>11, ComputedFollows
  <2> QED
    BY <1>6, <2>1, <2>2 DEF g
<1> QED
  BY <1>7, <1>9, <1>10, <1>11 DEF StandsFor

\* What the translated program stands for is what the processor has.
LEMMA GuestIs ==
    ASSUME Placed, MeansSomething(program, input), NEW n \in Nat, Follows(cpu, Run(program, Started(input), n))
    PROVE  Guest = Run(program, Started(input), n)
<1> DEFINE g == Run(program, Started(input), n)
           q == [k \in DOMAIN cpu.stack |-> NativeValue(cpu.stack[k])]
           f == [r \in DOMAIN cpu.regs |-> NativeValue(cpu.regs[r])]
           h == [a \in DOMAIN cpu.ram |-> NativeValue(cpu.ram[a])]
           y == NativeIp(cpu.ip)
<1>1. PICK m \in 0..Len(cmds) - 1 : Arrived(m) /\ cpu.ip = CodeEnd(m) /\ g.ip = EndAt(m)
  BY Somewhere
<1>2. y = g.ip
  <2>1. PICK k \in m + 1 .. Len(cmds) : Kept(k) /\ Gap(m, k)
    BY <1>1, NextKept
  <2>2. Len(cmds) \in Nat
    BY CmdsAre DEF Placed, LabelsInv, IrTypeOK
  <2>3. k \in 1..Len(cmds) /\ m \in 0..Len(cmds) /\ m < k
    BY <2>1, <2>2
  <2> QED
    BY <1>1, <2>1, <2>3, CommandAtIs
<1>3. Agrees(cpu, g)
  BY DEF Follows
<1> HIDE DEF g
<1>4. q = g.stack
  <2>1. /\ IsSeq(cpu.stack) /\ IsSeq(g.stack) /\ Len(cpu.stack) = Len(g.stack)
        /\ \A k \in 1..Len(cpu.stack) : SameValue(cpu.stack[k], g.stack[k])
    BY <1>3, AgreeParts DEF SameStack
  <2>2. DOMAIN cpu.stack = 1..Len(cpu.stack) /\ g.stack = [k \in 1..Len(cpu.stack) |-> g.stack[k]]
    BY <2>1, IsFunction
  <2>3. \A k \in 1..Len(cpu.stack) : NativeValue(cpu.stack[k]) = g.stack[k]
    BY <2>1, SameTags
  <2> QED
    BY <2>2, <2>3
<1>5. f = g.regs
  <2>1. /\ cpu.regs = [r \in Registers |-> cpu.regs[r]] /\ g.regs = [r \in Registers |-> g.regs[r]]
        /\ \A r \in Registers : SameReg(r, cpu.regs[r], g.regs[r])
    BY <1>3, AgreeParts DEF SameRegs
  <2>2. NativeValue(Num(0)) = Num(0) /\ NativeValue(Raw) = Num(0)
    BY NumIsNum DEF NativeValue, Raw
  <2>3. \A r \in Registers : NativeValue(cpu.regs[r]) = g.regs[r]
    BY <2>1, <2>2, SameTags DEF SameReg
  <2>4. DOMAIN cpu.regs = Registers
    BY <2>1
  <2> QED
    BY <2>1, <2>3, <2>4
<1>6. h = g.ram
  <2>1. /\ cpu.ram = [a \in Addresses |-> cpu.ram[a]] /\ g.ram = [a \in Addresses |-> g.ram[a]]
        /\ \A a \in Addresses : SameValue(cpu.ram[a], g.ram[a])
    BY <1>3, AgreeParts DEF SameRam
  <2>2. \A a \in Addresses : NativeValue(cpu.ram[a]) = g.ram[a]
    BY <2>1, SameTags
  <2>3. DOMAIN cpu.ram = Addresses
    BY <2>1
  <2> QED
    BY <2>1, <2>2, <2>3
<1>7. Guest = SetRam(SetRegs(SetStack(SetIp(cpu, y), q), f), h)
  <2>1. phase = "run"
    BY DEF Placed
  <2>2. Guest = [cpu EXCEPT !.ip = y, !.stack = q, !.regs = f, !.ram = h]
    BY <2>1 DEF Guest
  <2> HIDE DEF y, q, f, h
  <2> QED
    BY <2>2, Zenon DEF SetRam, SetRegs, SetStack, SetIp
<1> HIDE DEF y, q, f, h
<1> DEFINE s1 == SetIp(cpu, y)
           s2 == SetStack(s1, q)
           s3 == SetRegs(s2, f)
<1>8. s1 = State(y, cpu.stack, cpu.regs, cpu.ram, cpu.in, cpu.out, cpu.status) /\ IsRecord(s1)
  BY <1>3, AgreeParts, FieldSet, RecordIs
<1>9. s2 = State(y, q, cpu.regs, cpu.ram, cpu.in, cpu.out, cpu.status) /\ IsRecord(s2)
  <2> HIDE DEF s1
  <2> QED
    BY <1>8, FieldSet, RecordIs, StateFields
<1>10. s3 = State(y, q, f, cpu.ram, cpu.in, cpu.out, cpu.status) /\ IsRecord(s3)
  <2> HIDE DEF s2
  <2> QED
    BY <1>9, FieldSet, RecordIs, StateFields
<1>11. Guest = State(y, q, f, h, cpu.in, cpu.out, cpu.status)
  <2>1. Guest = SetRam(s3, h)
    BY <1>7
  <2> HIDE DEF s3
  <2> QED
    BY <1>10, <2>1, FieldSet, StateFields
<1>12. g = State(g.ip, g.stack, g.regs, g.ram, cpu.in, cpu.out, cpu.status)
  BY <1>3, AgreeParts DEF IsRecord
<1>13. Guest = g
  BY <1>2, <1>4, <1>5, <1>6, <1>11, <1>12
<1> QED
  BY <1>13 DEF g

(***************************************************************************)
(* The abstract processor executes the same commands.                      *)
(***************************************************************************)
LEMMA SameStarted == \A in : Processor!Started(in) = Started(in)
  BY Zenon DEF Processor!Started, Started, Processor!Num, Num, Processor!ServiceDataLen, ServiceDataLen

LEMMA SameDefined == \A c, s : Processor!Defined(c, s) <=> Defined(c, s)
  BY Zenon DEF Processor!Defined, Defined, Processor!CondOps, CondOps, Processor!ArithOps, ArithOps,
     Processor!FuncOps, FuncOps, Processor!Operands, Operands, Processor!NumbersOnTop, NumbersOnTop,
     Processor!UsesReg, UsesReg, Processor!InRam, InRam, Processor!Address, Address,
     Processor!ArgNumber, ArgNumber, Processor!Top, Top

LEMMA SameParts ==
    \A c, s : /\ Processor!InRam(c) <=> InRam(c)
              /\ Processor!Address(c, s) = Address(c, s) /\ Processor!Arg(c, s) = Arg(c, s)
              /\ Processor!Top(s) = Top(s) /\ Processor!Left(s) = Left(s) /\ Processor!Right(s) = Right(s)
<1> USE DEF Processor!InRam, InRam, Processor!Address, Address, Processor!ArgNumber, ArgNumber,
            Processor!Arg, Arg, Processor!Num, Num, Processor!Top, Top, Processor!Below, Below,
            Processor!Left, Left, Processor!Right, Right
<1>1. \A c, s : (Processor!InRam(c) <=> InRam(c)) /\ Processor!Address(c, s) = Address(c, s)
  BY Zenon
<1>2. \A c, s : Processor!Arg(c, s) = Arg(c, s)
  BY Zenon
<1>3. \A s : Processor!Top(s) = Top(s) /\ Processor!Left(s) = Left(s) /\ Processor!Right(s) = Right(s)
  BY Zenon
<1> QED
  BY <1>1, <1>2, <1>3

LEMMA SameEffect == \A c, s : Processor!Effect(c, s) = Effect(c, s)
<1> TAKE c, s
<1>0. (InRam(c) => c.mode # "reg") /\ (c.mode = "reg" => ~InRam(c))
  BY DEF InRam
<1>1. /\ Processor!InRam(c) <=> InRam(c)
      /\ Processor!Address(c, s) = Address(c, s) /\ Processor!Arg(c, s) = Arg(c, s)
      /\ Processor!Top(s) = Top(s) /\ Processor!Left(s) = Left(s) /\ Processor!Right(s) = Right(s)
  BY SameParts
<1>2. \A n, v : Processor!Pushed(s, n, v) = Pushed(s, n, v)
  BY Zenon DEF Processor!Pushed, Pushed, Processor!Drop, Drop
<1>3. \A n : Processor!Drop(s, n) = Drop(s, n)
  BY Zenon DEF Processor!Drop, Drop
<1>4. \A n : Processor!Num(n) = Num(n) /\ Processor!Ret(n) = Ret(n) /\ Processor!Size(n) = Size(n)
  BY Zenon DEF Processor!Num, Num, Processor!Ret, Ret, Processor!Size, Size, Processor!JumpOps, JumpOps,
     Processor!CondOps, CondOps
<1> USE DEF Processor!ArithOps, Processor!CondOps, Processor!FuncOps, ArithOps, CondOps, FuncOps
<1>5. CASE c.op = "push"
  BY <1>1, <1>2, <1>5 DEF Processor!Effect, Effect
<1>6. CASE c.op = "pop" /\ InRam(c)
  BY <1>0, <1>1, <1>3, <1>6 DEF Processor!Effect, Effect
<1>7. CASE c.op = "pop" /\ c.mode = "reg"
  BY <1>0, <1>1, <1>3, <1>7 DEF Processor!Effect, Effect
<1>8. CASE c.op = "pop" /\ ~InRam(c) /\ c.mode # "reg"
  BY <1>1, <1>8 DEF Processor!Effect, Effect
<1>9. CASE c.op \in ArithOps
  BY <1>1, <1>2, <1>4, <1>9 DEF Processor!Effect, Effect
<1>10. CASE c.op \in FuncOps
  BY <1>1, <1>2, <1>4, <1>10 DEF Processor!Effect, Effect
<1>11. CASE c.op = "out"
  BY <1>1, <1>3, <1>11 DEF Processor!Effect, Effect
<1>12. CASE c.op = "in"
  BY <1>2, <1>4, <1>12 DEF Processor!Effect, Effect
<1>13. CASE c.op \in CondOps \cup {"ret"}
  BY <1>3, <1>13 DEF Processor!Effect, Effect
<1>14. CASE c.op = "call"
  BY <1>2, <1>4, <1>14 DEF Processor!Effect, Effect
<1>15. CASE c.op \notin {"push", "pop", "out", "in", "call", "ret"} \cup ArithOps \cup FuncOps \cup CondOps
  BY <1>15 DEF Processor!Effect, Effect
<1> QED
  BY <1>5, <1>6, <1>7, <1>8, <1>9, <1>10, <1>11, <1>12, <1>13, <1>14, <1>15

LEMMA SameNextIp == \A c, s : Processor!NextIp(c, s) = NextIp(c, s)
  BY Zenon DEF Processor!NextIp, NextIp, Processor!JumpOps, JumpOps, Processor!CondOps, CondOps,
     Processor!Size, Size, Processor!Holds, Holds, Processor!Top, Top, Processor!Below, Below,
     Processor!Left, Left, Processor!Right, Right

LEMMA SameHalts == \A c, s : Processor!Halts(c, s) <=> Halts(c, s)
  BY Zenon DEF Processor!Halts, Halts

LEMMA SameAfter == \A p, s : Processor!After(p, s) = After(p, s)
<1> TAKE p, s
<1> DEFINE c == p[CHOOSE k \in At(p, s.ip) : TRUE]
<1>1. /\ Processor!EndOf(p) = EndOf(p)
      /\ Processor!At(p, s.ip) = At(p, s.ip)
      /\ \A why : Processor!Stop(s, why) = Stop(s, why)
  BY Zenon DEF Processor!EndOf, EndOf, Processor!At, At, Processor!Stop, Stop, Processor!Size, Size,
     Processor!JumpOps, JumpOps, Processor!CondOps, CondOps
<1>2. /\ Processor!Defined(c, s) <=> Defined(c, s)
      /\ Processor!Halts(c, s) <=> Halts(c, s)
  BY SameDefined, SameHalts
<1>3. [Processor!Effect(c, s) EXCEPT !.ip = Processor!NextIp(c, s)] = [Effect(c, s) EXCEPT !.ip = NextIp(c, s)]
  BY SameEffect, SameNextIp
<1>4. c = p[CHOOSE k \in Processor!At(p, s.ip) : TRUE]
  BY <1>1
<1> DEFINE x == [Processor!Effect(c, s) EXCEPT !.ip = Processor!NextIp(c, s)]
           y == [Effect(c, s) EXCEPT !.ip = NextIp(c, s)]
<1>5. Processor!After(p, s) = IF s.status # "running" THEN s
          ELSE IF s.ip >= EndOf(p) THEN Stop(s, "halted")
          ELSE IF At(p, s.ip) = {} THEN Stop(s, "wild")
          ELSE IF ~Processor!Defined(c, s) THEN Stop(s, "wild")
          ELSE IF Processor!Halts(c, s) THEN Stop(s, "halted") ELSE x
  <2> HIDE DEF c
  <2> QED
    BY <1>1, <1>4 DEF Processor!After
<1>6. After(p, s) = IF s.status # "running" THEN s
          ELSE IF s.ip >= EndOf(p) THEN Stop(s, "halted")
          ELSE IF At(p, s.ip) = {} THEN Stop(s, "wild")
          ELSE IF ~Defined(c, s) THEN Stop(s, "wild")
          ELSE IF Halts(c, s) THEN Stop(s, "halted") ELSE y
  BY DEF After
<1>7. x = y
  BY <1>3
<1> HIDE DEF c, x, y
<1> QED
  BY <1>2, <1>5, <1>6, <1>7

LEMMA SameRun == \A p, s, n : Processor!Run(p, s, n) = Run(p, s, n)
<1> TAKE p, s, n
<1>1. \A f : [k \in 0..n |-> IF k = 0 THEN s ELSE Processor!After(p, f[k - 1])] =
             [k \in 0..n |-> IF k = 0 THEN s ELSE After(p, f[k - 1])]
  BY SameAfter
<1>2. (CHOOSE f : f = [k \in 0..n |-> IF k = 0 THEN s ELSE Processor!After(p, f[k - 1])]) =
      (CHOOSE f : f = [k \in 0..n |-> IF k = 0 THEN s ELSE After(p, f[k - 1])])
  BY <1>1
<1>3. Processor!Run(p, s, n) = (CHOOSE f : f = [k \in 0..n |-> IF k = 0 THEN s ELSE Processor!After(p, f[k - 1])])[n]
  BY DEF Processor!Run
<1>4. Run(p, s, n) = (CHOOSE f : f = [k \in 0..n |-> IF k = 0 THEN s ELSE After(p, f[k - 1])])[n]
  BY DEF Run
<1> QED
  BY <1>2, <1>3, <1>4

(***************************************************************************)
(* The translated program implements the processor.                        *)
(***************************************************************************)
\* What is asked of the program, of its input, and of the compiler.
Translatable ==
    /\ Assembled(program) /\ SafeProgram(program) /\ MeansSomething(program, input)
    /\ LeftFirst

Following == phase = "run" => \E n \in Nat : Follows(cpu, Run(program, Started(input), n))

RunInv == LabelsInv /\ CodeInv /\ StandInv /\ Translatable /\ Following

\* Guest, wherever the two processors go together.
Mapped ==
    /\ phase # "run" => Guest = Started(input)
    /\ phase = "run" => \A n \in Nat : LET g == Run(program, Started(input), n) IN
                                       Follows(cpu, g) => Guest = g

LEMMA StandInit == Init => StandInv
<1> SUFFICES ASSUME Init PROVE StandInv
  OBVIOUS
<1>1. Len(cmds) = 0 /\ phase = "parse" /\ cpu = Loaded
  BY EmptySeq DEF Init
<1> QED
  BY <1>1 DEF StandInv, Standing, Skips, Unplaced, AllParsed, Loading

LEMMA FollowsPrimed ==
    ASSUME cmds' = cmds, program' = program, input' = input, NEW n \in Nat, NEW x, x = cpu',
           Follows(x, Run(program, Started(input), n))
    PROVE  Follows(cpu, Run(program, Started(input), n))'
<1> DEFINE g == Run(program, Started(input), n)
<1>1. g' = g
  OBVIOUS
<1>2. /\ \A m : CodeEnd(m)' = CodeEnd(m) /\ EndAt(m)' = EndAt(m)
      /\ \A m : Arrived(m)' <=> Arrived(m)
      /\ \A m : Kept(m)' <=> Kept(m)
      /\ Prints' <=> Prints
  BY DEF CodeEnd, EndAt, Arrived, Kept, Prints
<1>3. \A v, w : SameValue(v, w) => SameValue(v, w)'
  BY <1>2 DEF SameValue
<1>4. \A r, v, w : SameReg(r, v, w) => SameReg(r, v, w)'
  BY <1>2, <1>3 DEF SameReg
<1>5. \A p, q : SameStack(p, q) => SameStack(p, q)'
  BY <1>3 DEF SameStack
<1>6. \A f, h : SameRegs(f, h) => SameRegs(f, h)'
  BY <1>4 DEF SameRegs
<1>7. \A f, h : SameRam(f, h) => SameRam(f, h)'
  BY <1>3 DEF SameRam
<1>8. \A c, s : Agrees(c, s) => Agrees(c, s)'
  BY <1>5, <1>6, <1>7 DEF Agrees
<1>9. \A c, s : Follows(c, s) => Follows(c, s)'
  BY <1>2, <1>8 DEF Follows
<1>10. Follows(x, g)'
  BY <1>9
<1> QED
  BY <1>1, <1>10

LEMMA StartedFollows ==
    ASSUME NEW x, x = Loaded
    PROVE  Follows(x, Started(input))
<1> DEFINE f == [r \in Registers |-> Num(0)]
           h == [a \in Addresses |-> Num(0)]
<1>1. Started(input) = State(8, <<>>, f, h, input, <<>>, "running")
  BY DEF Started, State, ServiceDataLen
<1>2. x = State(0, <<>>, f, h, input, <<>>, "running")
  <2>1. x = SetIp(Started(input), 0)
    BY Zenon DEF Loaded, SetIp
  <2>2. IsRecord(Started(input))
    BY <1>1, RecordIs
  <2> HIDE DEF f, h
  <2> QED
    BY <1>1, <2>1, <2>2, FieldSet, StateFields
<1>3. SameStack(<<>>, <<>>)
  <2>1. IsSeq(<<>>) /\ Len(<<>>) = 0
    BY EmptySeq DEF IsSeq
  <2> QED
    BY <2>1 DEF SameStack
<1>4. SameRegs(f, f) /\ SameRam(h, h)
  <2>1. SameValue(Num(0), Num(0))
    BY NumIsNum
  <2>2. \A r : SameReg(r, Num(0), Num(0))
    BY <2>1 DEF SameReg
  <2> QED
    BY <2>1, <2>2 DEF SameRegs, SameRam
<1> HIDE DEF f, h
<1>5. Agrees(x, Started(input))
  BY <1>1, <1>2, <1>3, <1>4, AgreeIs
<1>6. x.status = "running" /\ x.ip = 0 /\ Started(input).ip = 8
  BY <1>1, <1>2, StateFields
<1>7. CodeEnd(0) = 0 /\ EndAt(0) = 8 /\ Arrived(0)
  BY DEF CodeEnd, EndAt, ServiceDataLen, Arrived
<1>8. 0 \in 0..Len(cmds)
  OBVIOUS
<1> QED
  BY <1>5, <1>6, <1>7, <1>8 DEF Follows

LEMMA RunPlaced == RunInv /\ phase = "run" => Placed
  BY DEF RunInv, Placed, Translatable, SafeProgram

\* A command of the translated program, from a state the processor gets to.
LEMMA RunStep ==
    ASSUME RunInv, RunCommand
    PROVE  \E n \in Nat, m \in 1..Len(program) :
              /\ Follows(cpu, Run(program, Started(input), n))
              /\ Follows(cpu, Run(program, Started(input), n + m))'
              /\ Run(program, Started(input), n + m) = Run(program, Run(program, Started(input), n), m)
<1>1. /\ phase = "run" /\ cmds' = cmds /\ program' = program /\ input' = input
  BY DEF RunCommand
<1>2. PICK n \in Nat : Follows(cpu, Run(program, Started(input), n))
  BY <1>1 DEF RunInv, Following
<1>3. Placed
  BY <1>1, RunPlaced
<1>4. PICK m \in 1..Len(program) : Follows(cpu', Run(program, Run(program, Started(input), n), m))
  BY <1>2, <1>3, CommandFollows DEF RunInv, Translatable
<1>5. m \in Nat /\ n + m \in Nat
  <2>1. Len(program) \in Nat
    BY LenProperties DEF RunInv, Translatable, Assembled
  <2> QED
    BY <2>1
<1>6. Run(program, Run(program, Started(input), n), m) = Run(program, Started(input), n + m)
  BY <1>5, RunAdds
<1> PICK x : x = cpu'
  OBVIOUS
<1>7. Follows(x, Run(program, Started(input), n + m))
  BY <1>4, <1>6
<1>8. Follows(cpu, Run(program, Started(input), n + m))'
  BY <1>1, <1>5, <1>7, FollowsPrimed
<1> QED
  BY <1>2, <1>6, <1>8

LEMMA LoadedStep ==
    ASSUME RunInv, EmitEnd
    PROVE  Follows(cpu, Run(program, Started(input), 0))'
<1>1. /\ phase # "run" /\ cmds' = cmds /\ program' = program /\ input' = input /\ cpu' = cpu
  BY DEF EmitEnd
<1>2. cpu = Loaded
  BY <1>1 DEF RunInv, StandInv, Loading
<1> PICK x : x = cpu'
  OBVIOUS
<1>3. Follows(x, Run(program, Started(input), 0))
  <2>1. Follows(x, Started(input))
    BY <1>1, <1>2, StartedFollows
  <2> QED
    BY <2>1, RunSteps
<1> QED
  BY <1>1, <1>3, FollowsPrimed

\* Nothing but the end of the translation starts the code, and nothing ends it.
LEMMA PhaseStep ==
    ASSUME [Next]_vars
    PROVE  /\ program' = program /\ input' = input
           /\ phase' = "run" => \/ EmitEnd \/ RunCommand
                                \/ phase = "run" /\ cmds' = cmds /\ cpu' = cpu
           /\ phase = "run" => phase' = "run"
  BY DEF Next, vars, ParseOnStructs, OptimizeStep, OptimizeEnd, Place, PlaceEnd, FillJumpLables, Emit, EmitEnd,
         RunCommand, Begin

LEMMA RunInvStep == RunInv /\ [Next]_vars => RunInv'
<1> SUFFICES ASSUME RunInv, [Next]_vars PROVE RunInv'
  OBVIOUS
<1>1. program' = program /\ input' = input
  BY PhaseStep
<1>2. IrTypeOK' /\ IrTypeOK
  BY IrTypeStep DEF RunInv, LabelsInv
<1>3. Translatable'
  BY <1>1 DEF RunInv, Translatable
<1>4. LabelsInv'
  BY <1>2, AheadStep, GroupsStep, LabelsStep DEF RunInv, LabelsInv, Translatable, SafeProgram
<1>5. CodeInv'
  BY <1>2, SizesStep, CodeStep DEF RunInv, CodeInv, Translatable, SafeProgram
<1>6. StandInv'
  BY <1>2, StandStep DEF RunInv, LabelsInv, Translatable, SafeProgram
<1>7. Following'
  <2> SUFFICES ASSUME phase' = "run" PROVE \E n \in Nat : Follows(cpu, Run(program, Started(input), n))'
    BY <1>1 DEF Following
  <2>1. CASE EmitEnd
    BY <2>1, LoadedStep
  <2>2. CASE RunCommand
    <3>1. PICK n \in Nat, m \in 1..Len(program) : Follows(cpu, Run(program, Started(input), n + m))'
      BY <2>2, RunStep
    <3>2. n + m \in Nat
      <4>1. Len(program) \in Nat
        BY <1>2, LenProperties DEF IrTypeOK, Assembled
      <4> QED
        BY <4>1
    <3> QED
      BY <3>1, <3>2
  <2>3. CASE phase = "run" /\ cmds' = cmds /\ cpu' = cpu
    <3>1. PICK n \in Nat : Follows(cpu, Run(program, Started(input), n))
      BY <2>3 DEF RunInv, Following
    <3> PICK x : x = cpu'
      OBVIOUS
    <3>2. Follows(x, Run(program, Started(input), n))
      BY <2>3, <3>1
    <3> QED
      BY <1>1, <2>3, <3>2, FollowsPrimed
  <2> QED
    BY <2>1, <2>2, <2>3, PhaseStep
<1> QED
  BY <1>3, <1>4, <1>5, <1>6, <1>7 DEF RunInv

LEMMA RunInvInit == Init /\ Translatable => RunInv
<1> SUFFICES ASSUME Init, Translatable PROVE RunInv
  OBVIOUS
<1>1. IrTypeOK /\ phase = "parse" /\ Len(cmds) = 0
  BY IrTypeInit, EmptySeq DEF Init, Translatable
<1>2. LabelsInv
  BY <1>1 DEF LabelsInv, Ahead, Groups, Labels, LabelsAgree, Done
<1>3. CodeInv
  BY <1>1 DEF CodeInv, Sizes, Chain, Counted, Written, CodeAgrees, Done
<1>4. StandInv
  BY StandInit
<1>5. Following
  BY <1>1 DEF Following
<1> QED
  BY <1>2, <1>3, <1>4, <1>5 DEF RunInv

LEMMA MappedHolds == RunInv => Mapped
<1> SUFFICES ASSUME RunInv PROVE Mapped
  OBVIOUS
<1>1. phase # "run" => Guest = Started(input)
  BY DEF Guest
<1>2. ASSUME phase = "run", NEW n \in Nat, Follows(cpu, Run(program, Started(input), n))
      PROVE  Guest = Run(program, Started(input), n)
  <2>1. Placed /\ MeansSomething(program, input)
    BY <1>2, RunPlaced DEF RunInv, Translatable
  <2> QED
    BY <1>2, <2>1, GuestIs
<1> QED
  BY <1>1, <1>2 DEF Mapped

\* What Guest is after a step, given what the processor follows then.
LEMMA MappedThen ==
    ASSUME Mapped', phase' = "run", NEW n \in Nat, program' = program, input' = input,
           Follows(cpu, Run(program, Started(input), n))'
    PROVE  Guest' = Run(program, Started(input), n)
<1> DEFINE g == Run(program, Started(input), n)
<1>1. g' = g
  OBVIOUS
<1>2. (phase = "run" => \A k \in Nat : Follows(cpu, Run(program, Started(input), k)) =>
                                       Guest = Run(program, Started(input), k))'
  BY DEF Mapped
<1>3. (\A k \in Nat : Follows(cpu, Run(program, Started(input), k)) =>
                      Guest = Run(program, Started(input), k))'
  BY <1>2
<1>4. Guest' = g'
  BY <1>3
<1> QED
  BY <1>1, <1>4

LEMMA StepMaps ==
    ASSUME RunInv, Mapped, Mapped', [Next]_vars
    PROVE  [Processor!Next]_<<program, input, Guest>>
<1>1. program' = program /\ input' = input
  BY PhaseStep
<1>2. CASE phase' # "run"
  <2>1. phase # "run"
    BY <1>2, PhaseStep
  <2>2. Guest = Started(input)
    BY <2>1 DEF Mapped
  <2>3. Guest' = Started(input)'
    BY <1>2 DEF Mapped
  <2>4. Started(input)' = Started(input)
    BY <1>1
  <2> QED
    BY <1>1, <2>2, <2>3, <2>4
<1>3. CASE EmitEnd
  <2>1. phase # "run" /\ phase' = "run"
    BY <1>3 DEF EmitEnd, Begin
  <2>2. Guest = Started(input)
    BY <2>1 DEF Mapped
  <2>3. Guest' = Run(program, Started(input), 0)
    BY <1>1, <1>3, <2>1, LoadedStep, MappedThen
  <2>4. Run(program, Started(input), 0) = Started(input)
    BY RunSteps
  <2> QED
    BY <1>1, <2>2, <2>3, <2>4
<1>4. CASE RunCommand
  <2>1. phase = "run" /\ phase' = "run"
    BY <1>4 DEF RunCommand
  <2>2. PICK n \in Nat, m \in 1..Len(program) :
            /\ Follows(cpu, Run(program, Started(input), n))
            /\ Follows(cpu, Run(program, Started(input), n + m))'
            /\ Run(program, Started(input), n + m) = Run(program, Run(program, Started(input), n), m)
    BY <1>4, RunStep
  <2>3. n + m \in Nat
    <3>1. Len(program) \in Nat
      BY LenProperties DEF RunInv, Translatable, Assembled
    <3> QED
      BY <3>1
  <2>4. Guest = Run(program, Started(input), n)
    BY <2>1, <2>2 DEF Mapped
  <2>5. Guest' = Run(program, Started(input), n + m)
    BY <1>1, <2>1, <2>2, <2>3, MappedThen
  <2>6. Guest' = Processor!Run(program, Guest, m)
    BY <2>2, <2>4, <2>5, SameRun
  <2> QED
    BY <1>1, <2>6 DEF Processor!Next
<1>5. CASE phase = "run" /\ phase' = "run" /\ cmds' = cmds /\ cpu' = cpu
  <2>1. PICK n \in Nat : Follows(cpu, Run(program, Started(input), n))
    BY <1>5 DEF RunInv, Following
  <2>2. Guest = Run(program, Started(input), n)
    BY <1>5, <2>1 DEF Mapped
  <2>3. Follows(cpu, Run(program, Started(input), n))'
    <3> PICK x : x = cpu'
      OBVIOUS
    <3>1. Follows(x, Run(program, Started(input), n))
      BY <1>5, <2>1
    <3> QED
      BY <1>1, <1>5, <3>1, FollowsPrimed
  <2>4. Guest' = Run(program, Started(input), n)
    BY <1>1, <1>5, <2>3, MappedThen
  <2> QED
    BY <1>1, <2>2, <2>4
<1> QED
  BY <1>2, <1>3, <1>4, <1>5, PhaseStep

\* The machine code the translator writes does, command by command, what the stack processor
\* does with the program it was written from (main, from ParseOnStructs to StartTranslation,
\* and execute.elf), for every program and input of Translatable.
THEOREM TranslationCorrect == Spec /\ Translatable => ImplementsProcessor
<1>1. Init /\ Translatable => RunInv /\ Processor!Init
  <2> SUFFICES ASSUME Init, Translatable PROVE RunInv /\ Processor!Init
    OBVIOUS
  <2>1. RunInv
    BY RunInvInit
  <2>2. Guest = Started(input)
    BY DEF Init, Guest
  <2>3. Processor!Init
    BY <2>2, SameStarted DEF Processor!Init
  <2> QED
    BY <2>1, <2>3
<1>2. RunInv /\ [Next]_vars => RunInv'
  BY RunInvStep
<1>3. RunInv => Mapped
  BY MappedHolds
<1>4. RunInv /\ Mapped /\ Mapped' /\ [Next]_vars => [Processor!Next]_<<program, input, Guest>>
  BY StepMaps
<1> QED
  BY <1>1, <1>2, <1>3, <1>4, PTL DEF Spec, ImplementsProcessor, Processor!Spec
=============================================================================
