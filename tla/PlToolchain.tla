---------------------------- MODULE PlToolchain -----------------------------
(***************************************************************************)
(* run.sh of ProgrammingLanguage: the front end, the back end, the         *)
(* assembler and the processor, one after the other, each reading the file *)
(* the one before has written.                                             *)
(***************************************************************************)
EXTENDS PlMeaning

VARIABLES
    author,     \* the tree the author has in mind, with the names of the source
    source,     \* frontend/data/input.txt
    input,      \* what the user will type
    stage,      \* the program of run.sh that runs next
    root,       \* the tree the front end draws and destroys when it is done
    disk,       \* frontend/data/tree.txt
    asm,        \* backend/data/cmds.asm
    assembler,  \* AsmInfo of the assembler
    line,       \* line_ctr of EachLineToBin
    program,    \* execution/proc/data/cmds.bin
    cpu         \* the processor, StackCode

vars == <<author, source, input, stage, root, disk, asm, assembler, line, program, cpu>>

CONSTANTS Jobs      \* <<author's tree, source, input>>

Idle == [Started(<<>>) EXCEPT !.status = "off"]

Init ==
    /\ \E job \in Jobs : author = job[1] /\ source = job[2] /\ input = job[3]
    /\ stage = "frontend"
    /\ root = Nil /\ disk = <<>> /\ asm = <<>> /\ assembler = Assembler /\ line = 1 /\ program = <<>> /\ cpu = Idle

FrontendMain ==
    /\ stage = "frontend"
    /\ root' = GetGrammar(source).root
    /\ disk' = RecPrintNode(root')
    /\ stage' = "backend"
    /\ UNCHANGED <<author, source, input, asm, assembler, line, program, cpu>>

BackendMain ==
    /\ stage = "backend"
    /\ asm' = PrintCmdsInFile(ReadTree(disk))
    /\ stage' = "first lap"
    /\ UNCHANGED <<author, source, input, root, disk, assembler, line, program, cpu>>

\* RawToBin: two laps over the lines, the second with every label known.
EachLineToBin ==
    /\ stage \in {"first lap", "second lap"} /\ line <= Len(asm)
    /\ assembler' = LineToCommands(assembler, asm[line])
    /\ line' = line + 1
    /\ UNCHANGED <<author, source, input, stage, root, disk, asm, program, cpu>>

SecondLap ==
    /\ stage = "first lap" /\ line > Len(asm)
    /\ assembler' = CmdsToZero(assembler)
    /\ line' = 1
    /\ stage' = "second lap"
    /\ UNCHANGED <<author, source, input, root, disk, asm, program, cpu>>

WriteProgram ==
    /\ stage = "second lap" /\ line > Len(asm)
    /\ program' = assembler.commands
    /\ cpu' = Started(input)
    /\ stage' = "proc"
    /\ UNCHANGED <<author, source, input, root, disk, asm, assembler, line>>

Execute ==
    /\ stage = "proc" /\ cpu.status = "running"
    /\ cpu' = After(program, cpu)
    /\ UNCHANGED <<author, source, input, stage, root, disk, asm, assembler, line, program>>

ProcEnds ==
    /\ stage = "proc" /\ cpu.status # "running"
    /\ stage' = "done"
    /\ UNCHANGED <<author, source, input, root, disk, asm, assembler, line, program, cpu>>

Next == FrontendMain \/ BackendMain \/ EachLineToBin \/ SecondLap \/ WriteProgram \/ Execute \/ ProcEnds

Spec == Init /\ [][Next]_vars /\ WF_vars(Next)

----------------------------------------------------------------------------
(* Properties *)
RECURSIVE Spelled(_), Reread(_), Reversible(_, _)

\* The author's tree with its names in Latin letters.
Spelled(n) == IF IsNil(n) THEN n
              ELSE [n EXCEPT !.name = TranslitString(@), !.kids = <<Spelled(left(n)), Spelled(right(n))>>]

\* A tree read back from disk: numbers with six digits, one kind of function name.
Reread(n) == IF IsNil(n) THEN n
             ELSE [n EXCEPT !.num = IF n.type = NUM_T THEN Lg(@) ELSE @,
                            !.type = IF @ = NAME_SHORT_T THEN NAME_T ELSE @,
                            !.kids = <<Reread(left(n)), Reread(right(n))>>]

(* The front end builds the tree the author had in mind: precedence, associativity, brackets,  *)
(* nested blocks and parameter lists are read as they were written, to the end of the source.  *)
ParsedAsMeant == stage = "backend" => GetGrammar(source) = [root |-> Spelled(author), complete |-> TRUE]

(* tree.txt holds the tree: RecGetChild reads back what RecPrintNode wrote, although the two    *)
(* agree on the number of children of a node only through its kind and the node above it.      *)
SurvivesDisk == stage = "backend" => ReadTree(disk) = Reread(root)

(* The compiled program prints what the program means, leaves its operand stack empty and its  *)
(* frame register where it was: labels, frames, the argument order and the return address kept *)
(* on the operand stack fit together across the code generator, the assembler and the          *)
(* processor.                                                                                  *)
Compiled == stage = "done" =>
    /\ cpu.status = "halted"
    /\ cpu.out = Meaning(author, input)
    /\ cpu.stack = <<>> /\ cpu.regs[rax] = Num(0)

\* What RecToOrigin can write: no operation that binds weaker under one that binds stronger, none
\* it has no word for, and no call, whose name the back end makes a NAME_T like a function's: it
\* is printed with a parameter list of its own in front of the arguments.
Rank(op) == CASE op \in {"ADD", "SUB"} -> 1 [] op \in {"MUL", "DIV"} -> 2 [] OTHER -> 0
Reversible(n, weakest) ==
    IF IsNil(n) THEN TRUE
    ELSE IF n.type # OP_T THEN Reversible(left(n), 0)
    ELSE /\ n.op \notin {"SQRT", "SIN", "COS", "POW", "WHILE", "IS_BT", "IS_BE", "CALL"}
         /\ Rank(n.op) = 0 \/ Rank(n.op) >= weakest
         /\ Reversible(left(n), IF Rank(n.op) = 0 THEN 0 ELSE Rank(n.op))
         /\ Reversible(right(n), IF Rank(n.op) = 0 THEN 0 ELSE Rank(n.op) + 1)

(* The back end's tree printed in the language, and compiled once more up to tree.txt, is the   *)
(* same tree, as far as the printer can write it.                                              *)
PrintedReadsBack ==
    LET tree == ReadTree(disk)
    IN  stage = "backend" /\ Reversible(tree, 0) =>
            ReadTree(RecPrintNode(GetGrammar(RecToOrigin(tree)).root)) = tree
=============================================================================
