----------------------------- MODULE PlFrontend -----------------------------
(***************************************************************************)
(* The front end of ProgrammingLanguage: words of the source to tokens,    *)
(* tokens to the tree by recursive descent, the tree to the file tree.txt; *)
(* and the back end's printer of a tree in the language (reverse.cpp).     *)
(*                                                                         *)
(* A source is a sequence of words.  A name is the sequence of its         *)
(* letters, a Cyrillic one named by its Latin spelling in capitals; a word *)
(* of the dictionary is written in Latin letters.                          *)
(***************************************************************************)
EXTENDS PlTree, SequencesExt

Digits(n)   == [first |-> "digit", num |-> n, letters |-> <<>>, word |-> ""]
Named(x)    == [first |-> ">", num |-> 0, letters |-> x, word |-> ""]
Word(w)     == [first |-> "other", num |-> 0, letters |-> <<>>, word |-> w]

----------------------------------------------------------------------------
(* translitor.cpp, the small and the capital letters alike *)
Cyrillic == {"A", "B", "V", "G", "D", "E", "ZH", "Z", "I", "YI", "K", "L", "M", "N", "O", "P", "R", "S",
             "T", "U", "F", "H", "TS", "CH", "SH", "SHCH", "IE", "Y", "Q", "EE", "IU", "IA"}

Latin(l) ==
    CASE l = "A" -> <<"a">> [] l = "B" -> <<"b">> [] l = "V" -> <<"v">> [] l = "G" -> <<"g">>
      [] l = "D" -> <<"d">> [] l = "E" -> <<"e">> [] l = "ZH" -> <<"z", "h">> [] l = "Z" -> <<"z">>
      [] l = "I" -> <<"i">> [] l = "YI" -> <<"i">> [] l = "K" -> <<"k">> [] l = "L" -> <<"l">>
      [] l = "M" -> <<"m">> [] l = "N" -> <<"n">> [] l = "O" -> <<"o">> [] l = "P" -> <<"p">>
      [] l = "R" -> <<"r">> [] l = "S" -> <<"s">> [] l = "T" -> <<"t">> [] l = "U" -> <<"u">>
      [] l = "F" -> <<"f">> [] l = "H" -> <<"k", "h">> [] l = "TS" -> <<"t", "s">> [] l = "CH" -> <<"c", "h">>
      [] l = "SH" -> <<"s", "h">> [] l = "SHCH" -> <<"s", "h", "c", "h">> [] l = "IE" -> <<"i", "e">>
      [] l = "Y" -> <<"y">> [] l = "Q" -> <<"'">> [] l = "EE" -> <<"e">> [] l = "IU" -> <<"i", "u">>
      [] l = "IA" -> <<"i", "a">>
      [] OTHER -> <<l>>

TranslitString(src) == FlattenSeq([k \in 1..Len(src) |-> Latin(src[k])])

----------------------------------------------------------------------------
(* Words to tokens *)
Dictionary == {
    <<"IF", "kuda_epta">>, <<"ELSE", "ai_ladno">>, <<"WHILE", "poka">>, <<"ADD", "sozhrat'">>,
    <<"SUB", "kus'_za_zhopu">>, <<"MUL", "miaia">>, <<"DIV", "miiuiaiaiaiau">>, <<"POW", "^">>, <<"COS", "cos">>,
    <<"SIN", "sin">>, <<"SQRT", "kvadratek">>, <<"EQ", "=">>, <<"IS_EE", "pakhnet_znakomo">>, <<"IS_GE", ">=">>,
    <<"IS_BE", "<=">>, <<"IS_GT", ">">>, <<"IS_BT", "<">>, <<"IS_NE", "pakhnet_neznakomo">>, <<"OPEN_BR", "{">>,
    <<"OPEN_BR", "(">>, <<"CLOSE_BR", ")">>, <<"SEMI_COL", "miau">>, <<"CLOSE_BR", "valim">>,
    <<"FUNC", "komnata_edinichki">>, <<"RET", "lee_kuda_presh'">>, <<"VAR", "niukh_niukh">>, <<"CALL", "kis_kis">>,
    <<"CLOSE_BR", "vse">>, <<"IN", "sliznut'">>, <<"OUT", "bueee">> }

CommandToToken(name) == OpToken((CHOOSE c \in Dictionary : c[2] = name)[1])

\* Anything behind '>' is a name, the comparisons > and >= of the dictionary included.
TokenOf(w) == CASE w.first = "digit" -> NumToken(w.num)
                [] w.first = ">" -> VarToken(TranslitString(w.letters))
                [] OTHER -> CommandToToken(w.word)

FillTokensArray(source) ==
    Append([k \in 1..Len(source) |-> TokenOf(source[k])], OpToken("TERMINATION_SYM"))

----------------------------------------------------------------------------
(***************************************************************************)
(* Recursive descent: each operator returns the node and the number of the *)
(* token behind it.  GetFunction, GetIfElse, ... each hand on to the next  *)
(* when the token is not theirs, so GetFunction and GetCall enter the same *)
(* chain at two places.                                                    *)
(***************************************************************************)
RECURSIVE GetStatement(_, _), GetFunction(_, _), GetParam(_, _), GetCall(_, _), GetVar(_, _)
RECURSIVE GetExpression(_, _), GetBinary(_, _, _), MoreBinary(_, _, _), GetBracketExp(_, _)

Got(node, at) == [node |-> node, at |-> at]

\* One construct and, from the token behind it, the next: the two operands of a node.
Pair(op, first, GetNext(_)) ==
    LET second == GetNext(first.at) IN Got(OP_NODE(op, first.node, second.node), second.at)

GetNumOrName(t, i) ==
    CASE t[i].type = NUM_T -> Got(DIGIT_NODE(t[i].num), i + 1)
      [] t[i].type = VAR_T -> Got(VAR_NODE(t[i].name), i + 1)
      [] OTHER -> Got(Nil, i)

GetStatement(t, i) ==
    CASE t[i].op = "TERMINATION_SYM" -> Got(Nil, i)
      [] t[i].op = "SEMI_COL" -> GetStatement(t, i + 1)
      [] t[i].op = "CLOSE_BR" -> Got(Nil, i + 1)
      [] OTHER -> Pair("ST", GetFunction(t, i), LAMBDA at : GetStatement(t, at))

GetParam(t, i) ==
    LET j == IF t[i].op = "OPEN_BR" THEN i + 1 ELSE i IN
    IF t[j].op = "CLOSE_BR" THEN Got(Nil, j + 1)
    ELSE Pair("PARAM", GetVar(t, j), LAMBDA at : GetParam(t, at))

GetFuncHeader(t, i) ==
    LET name  == GetNumOrName(t, i)
        param == GetParam(t, name.at)
    IN  Got(NAME_NODE(name.node.name, param.node, Nil), param.at)

GetIfElse(t, i) ==
    LET condition == GetExpression(t, i + 1)
        if_body   == GetStatement(t, condition.at)
        else_body == GetStatement(t, if_body.at + 1)
    IN  IF t[if_body.at].op # "ELSE" THEN Got(Nil, if_body.at)
        ELSE Got(OP_NODE("IF", condition.node, OP_NODE("ELSE", if_body.node, else_body.node)), else_body.at)

GetWhile(t, i) == Pair("WHILE", GetExpression(t, i + 1), LAMBDA at : GetStatement(t, at))

GetFunction(t, i) ==
    CASE t[i].op = "FUNC" -> Pair("FUNC", GetFuncHeader(t, i + 1), LAMBDA at : GetStatement(t, at))
      [] t[i].op = "IF" -> GetIfElse(t, i)
      [] t[i].op = "WHILE" -> GetWhile(t, i)
      [] t[i].op = "RET" -> LET param == GetParam(t, i + 1) IN Got(OP_NODE("RET", param.node, Nil), param.at)
      [] OTHER -> GetCall(t, i)

\* GetCall and, behind it, GetInOut.
GetCall(t, i) ==
    CASE t[i].op = "CALL" ->
            LET name  == GetNumOrName(t, i + 1)
                param == GetParam(t, name.at)
            IN  Got(OP_NODE("CALL", [name.node EXCEPT !.type = NAME_SHORT_T], param.node), param.at)
      [] t[i].op \in {"IN", "OUT"} ->
            LET param == GetParam(t, i + 1) IN Got(OP_NODE(t[i].op, param.node, Nil), param.at)
      [] OTHER -> GetVar(t, i)

GetVar(t, i) ==
    IF t[i].op = "VAR"
    THEN Pair("VAR", GetNumOrName(t, i + 1), LAMBDA at : GetCall(t, at))
    ELSE GetExpression(t, i)

GetExpression(t, i) ==
    LET l == GetBinary(t, i, 1) IN
    IF t[l.at].op \notin Comparisons THEN l
    ELSE LET r == GetBinary(t, l.at + 1, 1) IN Got(OP_NODE(t[l.at].op, l.node, r.node), r.at)

\* GetAddSub, GetMlt and GetPower, one loop each, all of them left to right.
Levels == <<{"ADD", "SUB"}, {"MUL", "DIV"}, {"POW"}>>

Operand(t, i, level) == IF level = Len(Levels) THEN GetBracketExp(t, i) ELSE GetBinary(t, i, level + 1)

\* Mutant: one operator takes everything to its right.
MoreBinaryRight(t, l, level) ==
    IF t[l.at].op \notin Levels[level] THEN l
    ELSE LET r == GetBinary(t, l.at + 1, level) IN Got(OP_NODE(t[l.at].op, l.node, r.node), r.at)

MoreBinary(t, l, level) ==
    IF t[l.at].op \notin Levels[level] THEN l
    ELSE LET r == Operand(t, l.at + 1, level)
         IN  MoreBinary(t, Got(OP_NODE(t[l.at].op, l.node, r.node), r.at), level)

GetBinary(t, i, level) == MoreBinary(t, Operand(t, i, level), level)

\* A bracket left open returns no value at all in the code.
GetBracketExp(t, i) ==
    CASE t[i].op = "OPEN_BR" ->
            LET sub == GetExpression(t, i + 1)
            IN  Got(IF t[sub.at].op = "CLOSE_BR" THEN sub.node ELSE Nil, sub.at + 1)
      [] t[i].op \in {"SIN", "COS", "SQRT"} ->
            LET arg == GetBracketExp(t, i + 1) IN Got(OP_NODE(t[i].op, arg.node, Nil), arg.at)
      [] OTHER -> GetNumOrName(t, i)

\* The whole source was read when the parser stops at the termination symbol.
GetGrammar(source) ==
    LET t   == FillTokensArray(source)
        got == GetStatement(t, 1)
    IN  [root |-> got.node, complete |-> t[got.at].op = "TERMINATION_SYM"]

----------------------------------------------------------------------------
(* write_on_disk.cpp: tree.txt as the words the back end splits it into *)
NamedOps == {"ADD", "SUB", "DIV", "MUL", "POW", "ST", "VAR", "NIL", "EQ", "IF", "ELSE", "PARAM", "FUNC", "CALL", "RET",
             "OPEN_BR", "CLOSE_BR", "TERMINATION_SYM", "WHILE", "SEMI_COL", "IN", "OUT", "SIN", "COS", "SQRT"} \cup Comparisons
GetOpSign(op) == IF op \in NamedOps THEN op ELSE "?"

Brace(s)  == <<OpToken("{")>> \o s \o <<OpToken("}")>>
NilOnDisk == Brace(<<OpToken("NIL")>>)

RECURSIVE RecPrintNode(_)
ChildOnDisk(n) == IF IsNil(n) THEN NilOnDisk ELSE RecPrintNode(n)

RecPrintNode(n) == Brace(
    CASE n.type = NUM_T -> <<NumToken(Lg(n.num))>>
      [] n.type = NAME_T ->
            IF IsNil(left(n)) THEN <<VarToken(n.name)>> \o NilOnDisk \o Brace(<<OpToken("VOID")>>)
            ELSE <<VarToken(n.name)>> \o RecPrintNode(left(n)) \o Brace(<<OpToken("TYPE")>>)
      [] n.type = NAME_SHORT_T -> <<VarToken(n.name)>> \o NilOnDisk \o NilOnDisk
      [] n.type = VAR_T -> <<VarToken(n.name)>>
      [] OTHER -> <<OpToken(GetOpSign(n.op))>> \o ChildOnDisk(left(n)) \o ChildOnDisk(right(n)))

----------------------------------------------------------------------------
(* reverse.cpp: a tree printed as a source, without a single bracket around an operation *)
\* Mutant: a swapped pair of words.
InfixSwapped == [op \in {"ADD", "SUB", "MUL", "DIV", "EQ", "IS_EE", "IS_NE"} |->
             Word((CHOOSE c \in Dictionary : c[1] = CASE op = "ADD" -> "SUB" [] op = "SUB" -> "ADD" [] OTHER -> op)[2])]

Infix == [op \in {"ADD", "SUB", "MUL", "DIV", "EQ", "IS_EE", "IS_NE"} |->
             Word((CHOOSE c \in Dictionary : c[1] = op)[2])]

Bracketed(s) == <<Word("(")>> \o s \o <<Word(")")>>

RECURSIVE RecToOrigin(_)
TO_ORIGIN(n) == IF IsNil(n) THEN <<>> ELSE RecToOrigin(n)

RecToOrigin(n) ==
    CASE n.type = NAME_T -> <<Named(n.name)>> \o Bracketed(TO_ORIGIN(left(n)))
      [] n.type \in {VAR_T, NAME_SHORT_T} -> <<Named(n.name)>>
      [] n.type = NUM_T -> <<Digits(Lg(n.num))>>
      [] n.op = "ST" -> TO_ORIGIN(left(n)) \o <<Word("miau")>> \o TO_ORIGIN(right(n))
      [] n.op = "IF" -> <<Word("kuda_epta")>> \o TO_ORIGIN(left(n)) \o TO_ORIGIN(left(right(n)))
                        \o <<Word("valim")>> \o TO_ORIGIN(right(n))
      [] n.op = "ELSE" -> <<Word("ai_ladno")>> \o TO_ORIGIN(right(n)) \o <<Word("valim")>>
      [] n.op = "CALL" -> <<Word("kis_kis")>> \o TO_ORIGIN(left(n)) \o Bracketed(TO_ORIGIN(right(n)))
      [] n.op = "RET" -> <<Word("lee_kuda_presh'")>> \o Bracketed(TO_ORIGIN(left(n)))
      [] n.op = "FUNC" -> <<Word("komnata_edinichki")>> \o TO_ORIGIN(left(n)) \o TO_ORIGIN(right(n))
                          \o <<Word("valim")>>
      [] n.op = "IN" -> <<Word("sliznut'")>> \o Bracketed(TO_ORIGIN(left(n)))
      [] n.op = "OUT" -> <<Word("bueee")>> \o Bracketed(TO_ORIGIN(left(n)))
      [] n.op = "VAR" -> <<Word("niukh_niukh")>> \o TO_ORIGIN(left(n)) \o TO_ORIGIN(right(n))
      [] n.op = "PARAM" -> TO_ORIGIN(left(n)) \o TO_ORIGIN(right(n))
      [] n.op \in DOMAIN Infix -> TO_ORIGIN(left(n)) \o <<Infix[n.op]>> \o TO_ORIGIN(right(n))
      [] OTHER -> <<>>
=============================================================================
