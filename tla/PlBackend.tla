----------------------------- MODULE PlBackend ------------------------------
(***************************************************************************)
(* The back end of ProgrammingLanguage (tree.txt to a tree, the tree to    *)
(* assembler lines) and the assembler (lines to the program of the stack   *)
(* processor, StackCode).  Comments of the assembler file are left out,    *)
(* and so is its last line, end, which StackCode puts at EndOf.            *)
(***************************************************************************)
EXTENDS PlTree, StackCode, SequencesExt

----------------------------------------------------------------------------
(* parser_backend.cpp *)
ReadOps == {"ADD", "SUB", "DIV", "MUL", "POW", "AND", "OR", "ST", "IF", "ELSE", "NIL", "VAR", "WHILE", "FUNC", "RET",
            "CALL", "PARAM", "IN", "OUT", "SIN", "COS", "SQRT", "VOID", "TYPE"} \cup Comparisons
\* Mutant: a word of the front end the back end does not know.
GetOpTypeNoVoid(str) == IF str \in ReadOps \ {"VOID"} THEN str ELSE "UNKNOWN"
GetOpType(str) == IF str \in ReadOps THEN str ELSE "UNKNOWN"

FillTokensOfDisk(disk) ==
    LET words == SelectSeq(disk, LAMBDA t : t.op \notin {"{", "}"})
    IN  Append([k \in 1..Len(words) |-> [words[k] EXCEPT !.op = GetOpType(@)]], OpToken("TERMINATION_SYM"))

\* The node that starts at token i, and the token behind it.
RECURSIVE RecGetChild(_, _, _)
RecGetChild(t, i, is_func_name) ==
    LET two(j, func) == LET l == RecGetChild(t, j, func)
                            r == RecGetChild(t, l.at, FALSE)
                        IN  <<l.node, r.node, r.at>>
    IN  CASE t[i].type = VAR_T /\ is_func_name ->
                LET c == two(i + 1, FALSE) IN [node |-> NAME_NODE(t[i].name, c[1], c[2]), at |-> c[3]]
          [] t[i].type = VAR_T /\ ~is_func_name -> [node |-> VAR_NODE(t[i].name), at |-> i + 1]
          [] t[i].type = NUM_T -> [node |-> DIGIT_NODE(t[i].num), at |-> i + 1]
          [] t[i].op = "TERMINATION_SYM" -> [node |-> Nil, at |-> i]
          [] t[i].op \in {"NIL", "VOID", "TYPE"} -> [node |-> Nil, at |-> i + 1]
          [] OTHER ->
                LET c == two(i + 1, t[i].op \in {"FUNC", "CALL"})
                IN  [node |-> OP_NODE(t[i].op, c[1], c[2]), at |-> c[3]]

ReadTree(disk) == RecGetChild(FillTokensOfDisk(disk), 1, FALSE).node

----------------------------------------------------------------------------
(***************************************************************************)
(* tree_to_asm.cpp.  The generator keeps the lines written, the names of   *)
(* the variables of the function it is in, the number of the next if and   *)
(* the last construct that takes parameters.                               *)
(***************************************************************************)
rax == 0
rcx == 2

Ins(op)           == [op |-> op, mode |-> "none", reg |-> rax, value |-> 0, label |-> <<>>]
Imm(op, n)        == [Ins(op) EXCEPT !.mode = "imm", !.value = n]
Reg(op, r)        == [Ins(op) EXCEPT !.mode = "reg", !.reg = r]
InFrame(op, n)    == [Ins(op) EXCEPT !.mode = "imm_reg_ram", !.value = n]     \* [n+rax]
Jump(op, label)   == [Ins(op) EXCEPT !.label = label]
LabelLine(label)  == [Ins("label") EXCEPT !.label = label]

Generator == [asm |-> <<Jump("call", <<"m", "a", "i", "n">>), Ins("hlt")>>, ns |-> <<>>, label_counter |-> 0,
              previous_option |-> "UNKNOWN"]

PRINT(g, lines) == [g EXCEPT !.asm = @ \o lines]

\* Behind GetVariablePos the name is among the first vars_before names; a new one overwrites
\* what a later call has put behind them.
GetVariablePos(g, vars_before, x) ==
    IF \E k \in 1..vars_before : g.ns[k] = x THEN g
    ELSE [g EXCEPT !.ns = Append(SubSeq(@, 1, vars_before), x)]

Pos(g, x) == (CHOOSE k \in 1..Len(g.ns) : g.ns[k] = x /\ \A j \in 1..k - 1 : g.ns[j] # x) - 1

ParamLines(g, x) ==
    CASE g.previous_option = "IN" -> <<Ins("in"), InFrame("pop", Pos(g, x))>>
      [] g.previous_option = "OUT" -> <<InFrame("push", Pos(g, x)), Ins("out")>>
      [] g.previous_option \in {"CALL", "RET"} -> <<InFrame("push", Pos(g, x))>>
      [] g.previous_option = "FUNC" -> <<InFrame("pop", Pos(g, x))>>
      [] OTHER -> <<>>

\* The frame of the callee begins behind the variables known where the call begins.
MoveFrame(op, vars_before) == <<Imm("push", vars_before + 1), Reg("push", rax), Ins(op), Reg("pop", rax)>>

IfLabel(n)   == <<"if", n>>
ElseLabel(n) == <<"else", n>>

\* The operands in the order they are pushed; sub, div and the jumps take the left one from the top.
LeftOperandFirst == [ADD |-> "add", MUL |-> "mul"]
RightOperandFirst == [SUB |-> "sub", DIV |-> "div"]
SkipIf == [IS_EE |-> "jne", IS_NE |-> "je"]

RECURSIVE PrintOperation(_, _)
PrintOperation(g, n) ==
    LET vars_before == Len(g.ns)
        L(h) == PrintOperation(h, left(n))
        R(h) == PrintOperation(h, right(n))
    IN  CASE IsNil(n) -> g
          [] n.type = NUM_T -> PRINT(g, <<Imm("push", Lg(n.num))>>)
          [] n.type = VAR_T -> LET h == GetVariablePos(g, vars_before, n.name)
                               IN  PRINT(h, <<InFrame("push", Pos(h, n.name))>>)
          [] n.type = NAME_T ->
                L([PRINT(g, <<LabelLine(n.name), Reg("pop", rcx)>>) EXCEPT !.previous_option = "FUNC"])
          [] n.op = "ST" -> R(L(g))
          [] n.op = "FUNC" ->
                LET h == R(PRINT(L([g EXCEPT !.ns = <<>>]), <<Reg("push", rcx)>>)) IN [h EXCEPT !.ns = g.ns]
          [] n.op = "RET" ->
                PRINT(L([PRINT(g, <<Reg("pop", rcx)>>) EXCEPT !.previous_option = "RET"]),
                      <<Reg("push", rcx), Ins("ret")>>)
          [] n.op \in DOMAIN LeftOperandFirst -> PRINT(R(L(g)), <<Ins(LeftOperandFirst[n.op])>>)
          [] n.op \in DOMAIN RightOperandFirst -> PRINT(L(R(g)), <<Ins(RightOperandFirst[n.op])>>)
          [] n.op = "CALL" ->
                PRINT(R([g EXCEPT !.previous_option = "CALL"]),
                      MoveFrame("add", vars_before) \o <<Jump("call", left(n).name)>> \o MoveFrame("sub", vars_before))
          [] n.op \in DOMAIN SkipIf -> LET h == R(L(g)) IN PRINT(h, <<Jump(SkipIf[n.op], IfLabel(h.label_counter))>>)
          [] n.op = "IS_BT" -> LET h == L(R(g)) IN PRINT(h, <<Jump("jae", IfLabel(h.label_counter))>>)
          [] n.op = "IF" -> R(L(g))
          [] n.op = "ELSE" ->
                LET label == g.label_counter
                    h == PRINT(L([g EXCEPT !.label_counter = @ + 1]),
                               <<Jump("jmp", ElseLabel(label)), LabelLine(IfLabel(label))>>)
                IN  PRINT(R(h), <<LabelLine(ElseLabel(label))>>)
          [] n.op = "VAR" ->
                LET h == R(GetVariablePos(g, vars_before, left(n).name))
                IN  PRINT(h, <<InFrame("pop", Pos(h, left(n).name))>>)
          [] n.op \in {"IN", "OUT"} -> L([g EXCEPT !.previous_option = n.op])
          [] n.op = "PARAM" ->
                LET h == GetVariablePos(g, vars_before, left(n).name)
                IN  R(PRINT(h, ParamLines(h, left(n).name)))
          [] n.op \in {"SIN", "COS"} -> PRINT(L(g), <<Ins("sin")>>)
          [] n.op = "SQRT" -> PRINT(L(g), <<Ins("sqr")>>)
          [] OTHER -> g               \* "Unknown command!": nothing is written for it

PrintCmdsInFile(root) == PrintOperation(Generator, root).asm

----------------------------------------------------------------------------
(* asm.cpp: two laps over the lines, the second with every label known *)
Assembler == [commands |-> <<>>, cur_len |-> ServiceDataLen, labels |-> <<>>]

InsertLabel(a, label) ==
    IF \E k \in 1..Len(a.labels) : a.labels[k].name = label THEN a
    ELSE [a EXCEPT !.labels = Append(@, [name |-> label, label_pos |-> a.cur_len])]

FindLabel(a, label) ==
    LET found == {k \in 1..Len(a.labels) : a.labels[k].name = label}
    IN  IF found = {} THEN -1 ELSE a.labels[CHOOSE k \in found : TRUE].label_pos

\* The first name of the command table that the line begins with: ja before jae, jb before jbe.
IsJmp(op) == CASE op = "jae" -> "ja" [] op = "jbe" -> "jb" [] OTHER -> op

Encode(a, line) ==
    [op |-> IF line.op \in JumpOps THEN IsJmp(line.op) ELSE line.op, mode |-> line.mode, reg |-> line.reg,
     value |-> IF line.op \in JumpOps THEN FindLabel(a, line.label) ELSE line.value, at |-> a.cur_len]

LineToCommands(a, line) ==
    IF line.op = "label" THEN InsertLabel(a, line.label)
    ELSE [a EXCEPT !.commands = Append(@, Encode(a, line)), !.cur_len = @ + Size(line.op)]

\* Mutant: what the first lap found is lost with the commands.
CmdsAndLabelsToZero(a) == Assembler
CmdsToZero(a) == [a EXCEPT !.commands = <<>>, !.cur_len = ServiceDataLen]
=============================================================================
