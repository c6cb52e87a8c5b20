------------------------------ MODULE LeechFile ------------------------------
(***************************************************************************)
(* leechVM: the file of bytecode, how the front end builds it from a text  *)
(* and how it is written to disk and read back.                            *)
(***************************************************************************)
EXTENDS Integers, Sequences, SequencesExt, FiniteSets

CONSTANT
    \* How many values the argument of an instruction has (uint8_t).
    ArgLimit

ASSUME ArgLimitAssumption == ArgLimit \in Nat \ {0}

\* Opcodes by what their callbacks do: work on the names of the function, on the stack alone,
\* branch or call.
Named == {"LOAD_FAST", "STORE_FAST", "STORE_BUILD_CLASS", "STORE_ATTR", "LOAD_ATTR", "INSTANCE_CLASS", "REGISTER_METHOD"}
Plain == {"POP_TOP", "BINARY_ADD", "BINARY_SUBTRACT", "BINARY_TRUE_DIVIDE", "BINARY_SUBSCR", "COMPARE_OP", "PRINT",
          "LOAD_BUILD_CLASS", "LOAD_CONST"}
Branches == {"POP_JUMP_IF_FALSE", "POP_JUMP_IF_TRUE"}
Calls == {"CALL_FUNCTION", "CALL_METHOD"}
\* The other callbacks throw, group by group of the table.
RotationsAndUnary == {"ROT_TWO", "ROT_THREE", "DUP_TOP", "DUP_TOP_TWO", "ROT_FOUR", "NOP", "UNARY_POSITIVE",
    "UNARY_NEGATIVE", "UNARY_NOT", "UNARY_INVERT", "BINARY_MATRIX_MULTIPLY", "INPLACE_MATRIX_MULTIPLY", "BINARY_POWER",
    "BINARY_MULTIPLY", "BINARY_MODULO", "BINARY_FLOOR_DIVIDE"}
InplaceAndIterators == {"INPLACE_FLOOR_DIVIDE", "INPLACE_TRUE_DIVIDE", "GET_LEN", "MATCH_MAPPING", "MATCH_SEQUENCE",
    "MATCH_KEYS", "COPY_DICT_WITHOUT_KEYS", "WITH_EXCEPT_START", "GET_AITER", "GET_ANEXT", "BEFORE_ASYNC_WITH",
    "END_ASYNC_FOR", "INPLACE_ADD", "INPLACE_SUBTRACT", "INPLACE_MULTIPLY", "INPLACE_MODULO", "STORE_SUBSCR",
    "DELETE_SUBSCR", "BINARY_LSHIFT", "BINARY_RSHIFT", "BINARY_AND", "BINARY_XOR", "BINARY_OR", "INPLACE_POWER",
    "GET_ITER", "GET_YIELD_FROM_ITER", "PRINT_EXPR", "YIELD_FROM", "GET_AWAITABLE", "LOAD_ASSERTION_ERROR",
    "INPLACE_LSHIFT", "INPLACE_RSHIFT", "INPLACE_AND", "INPLACE_XOR", "INPLACE_OR", "LIST_TO_TUPLE"}
NamesAndBlocks == {"IMPORT_STAR", "SETUP_ANNOTATIONS", "YIELD_VALUE", "POP_BLOCK", "POP_EXCEPT", "HAVE_ARGUMENT",
    "STORE_NAME", "DELETE_NAME", "UNPACK_SEQUENCE", "FOR_ITER", "UNPACK_EX", "DELETE_ATTR", "STORE_GLOBAL",
    "DELETE_GLOBAL", "ROT_N"}
Builders == {"LOAD_NAME", "BUILD_TUPLE", "BUILD_LIST", "BUILD_SET", "BUILD_MAP"}
ImportsAndJumps == {"IMPORT_NAME", "IMPORT_FROM", "JUMP_FORWARD", "JUMP_IF_FALSE_OR_POP", "JUMP_IF_TRUE_OR_POP",
    "JUMP_ABSOLUTE"}
GlobalsAndExceptions == {"LOAD_GLOBAL", "IS_OP", "CONTAINS_OP", "RERAISE", "JUMP_IF_NOT_EXC_MATCH", "SETUP_FINALLY",
    "DELETE_FAST", "GEN_START", "RAISE_VARARGS"}
ClosuresAndCollections == {"MAKE_FUNCTION", "BUILD_SLICE", "LOAD_CLOSURE", "LOAD_DEREF", "STORE_DEREF", "DELETE_DEREF",
    "CALL_FUNCTION_KW", "CALL_FUNCTION_EX", "SETUP_WITH", "EXTENDED_ARG", "LIST_APPEND", "SET_ADD", "MAP_ADD",
    "LOAD_CLASSDEREF", "MATCH_CLASS", "SETUP_ASYNC_WITH", "FORMAT_VALUE", "BUILD_CONST_KEY_MAP", "BUILD_STRING",
    "LOAD_METHOD", "LIST_EXTEND", "SET_UPDATE", "DICT_MERGE", "DICT_UPDATE"}
Implemented == Named \cup Plain \cup Branches \cup Calls \cup {"RETURN_VALUE"}
Opcodes ==
    Implemented \cup RotationsAndUnary \cup InplaceAndIterators \cup NamesAndBlocks \cup Builders
    \cup ImportsAndJumps \cup GlobalsAndExceptions \cup ClosuresAndCollections

Integer(n) == [t |-> "Integer", v |-> n]
String(s) == [t |-> "String", v |-> s]
Tuple(objs) == [t |-> "Tuple", v |-> objs]
Instruction(op, arg) == [op |-> op, arg |-> arg % ArgLimit]

NoFuncs == [f \in {} |-> 0]
EmptyMeta == [addr |-> 0, argNum |-> 0, cstPool |-> <<>>, names |-> <<>>]
\* funcs[f] of a map: a missing entry appears.
At(funcs, f) == IF f \in DOMAIN funcs THEN funcs[f] ELSE EmptyMeta
With(map, key, value) == [k \in DOMAIN map \cup {key} |-> IF k = key THEN value ELSE map[k]]

-----------------------------------------------------------------------------
(* The front end.  A text lists functions with their constants, names and  *)
(* entries; an entry is a label, an instruction or a branch to a label.    *)

Op(op, arg) == [e |-> "instruction", op |-> op, arg |-> arg, label |-> ""]
Branch(op, label) == [e |-> "branch", op |-> op, arg |-> 0, label |-> label]
Label(label) == [e |-> "label", op |-> "", arg |-> 0, label |-> label]

\* What the grammar makes of a text.
IsList(s) == Len(s) \in Nat /\ s = [k \in 1..Len(s) |-> s[k]]
IsPrimitive(obj) == obj = Integer(obj.v) \/ obj = String(obj.v)
IsConstant(obj) ==
    \/ IsPrimitive(obj)
    \/ obj = Tuple(obj.v) /\ IsList(obj.v) /\ obj.v # <<>> /\ \A k \in DOMAIN obj.v : IsPrimitive(obj.v[k])
IsEntry(e) ==
    \/ e = Op(e.op, e.arg) /\ e.arg \in Nat
    \/ e = Branch(e.op, e.label)
    \/ e = Label(e.label)
IsFunction(f) ==
    /\ f = [name |-> f.name, argNum |-> f.argNum, cstPool |-> f.cstPool, names |-> f.names, code |-> f.code]
    /\ f.argNum \in Nat
    /\ IsList(f.cstPool) /\ \A k \in DOMAIN f.cstPool : IsConstant(f.cstPool[k])
    /\ IsList(f.names)
    /\ IsList(f.code) /\ \A k \in DOMAIN f.code : IsEntry(f.code[k])
IsText(text) == IsList(text) /\ \A n \in DOMAIN text : IsFunction(text[n])

NewDriver ==
    [funcs |-> NoFuncs, code |-> <<>>, labels |-> NoFuncs, forward |-> NoFuncs, instrCount |-> 0, globalInstrCount |-> 0]

FuncHeader(d, f) ==
    [d EXCEPT !.funcs = With(@, f.name, [At(@, f.name) EXCEPT !.addr = d.globalInstrCount, !.argNum = f.argNum]),
              !.instrCount = 0, !.labels = NoFuncs, !.forward = NoFuncs]

\* Mutant: branches that wait for the label are forgotten.
ParseLabelOnly(d, label) == [d EXCEPT !.labels = With(@, label, d.instrCount)]
\* Only the last branch to a label that was not known is told its place, and places
\* count from the start of the function.
ParseLabel(d, label) ==
    [d EXCEPT !.labels = With(@, label, d.instrCount),
              !.code = IF label \in DOMAIN d.forward THEN [@ EXCEPT ![d.forward[label] + 1].arg = d.instrCount % ArgLimit] ELSE @]

ParseInstruction(d, inst) ==
    [d EXCEPT !.code = Append(@, inst), !.instrCount = @ + 1, !.globalInstrCount = @ + 1]

ParseEntry(d, e) ==
    CASE e.e = "label" -> ParseLabel(d, e.label)
      [] e.e = "instruction" -> ParseInstruction(d, Instruction(e.op, e.arg))
      [] e.e = "branch" ->
            IF e.label \in DOMAIN d.labels THEN ParseInstruction(d, Instruction(e.op, d.labels[e.label]))
            ELSE ParseInstruction([d EXCEPT !.forward = With(@, e.label, d.globalInstrCount)], Instruction(e.op, 0))

ParseFunc(d, f) ==
    LET h == FuncHeader(d, f)
        m == [h.funcs[f.name] EXCEPT !.cstPool = @ \o f.cstPool, !.names = @ \o f.names]
    IN FoldLeft(ParseEntry, [h EXCEPT !.funcs[f.name] = m], f.code)

Parse(text) ==
    LET d == FoldLeft(ParseFunc, NewDriver, text) IN [funcs |-> d.funcs, code |-> d.code]
\* The name of an instruction that is no opcode ends the parser with an exception.
Parses(text) == \A n \in DOMAIN text : \A k \in DOMAIN text[n].code :
    text[n].code[k].e = "label" \/ text[n].code[k].op \in Opcodes

-----------------------------------------------------------------------------
(* Writing: a file on disk is a sequence of numbers and of strings, which  *)
(* stand behind their length.                                              *)

TypeNumber(t) == CASE t = "Integer" -> 1 [] t = "String" -> 3 [] t = "Tuple" -> 4
Flat(seqs) == FoldLeft(LAMBDA acc, s : acc \o s, <<>>, seqs)
SerializeString(s) == <<1, s>>
SerializeNumber(obj) == <<TypeNumber("Integer"), 8, obj.v>>
SerializePrimitive(obj) ==
    IF obj.t = "Integer" THEN SerializeNumber(obj) ELSE <<TypeNumber("String")>> \o SerializeString(obj.v)
SerializeObj(obj) ==
    IF obj.t = "Tuple"
    THEN <<TypeNumber("Tuple"), Len(obj.v)>> \o Flat([n \in DOMAIN obj.v |-> SerializePrimitive(obj.v[n])])
    ELSE SerializePrimitive(obj)
SerializeFunc(m) ==
    <<m.addr, m.argNum, Len(m.cstPool)>> \o Flat([n \in DOMAIN m.cstPool |-> SerializeObj(m.cstPool[n])])
    \o <<Len(m.names)>> \o Flat([n \in DOMAIN m.names |-> SerializeString(m.names[n])])
SerializeInstruction(inst) == <<inst.op, inst.arg>>

\* Functions are written in the order of the hash map, which may be any.
Serialize(file, order) ==
    <<"theLEECH", Len(order)>>
    \o Flat([n \in DOMAIN order |-> SerializeString(order[n]) \o SerializeFunc(file.funcs[order[n]])])
    \o <<Len(file.code)>> \o Flat([n \in DOMAIN file.code |-> SerializeInstruction(file.code[n])])

-----------------------------------------------------------------------------
(* Reading.  A reader has a place in the stream, the last item read and    *)
(* whether a read failed, which throws.                                    *)

Reader(s) == [s |-> s, at |-> 1, failed |-> FALSE, v |-> 0]
Read(r) == IF r.failed \/ r.at > Len(r.s) THEN [r EXCEPT !.failed = TRUE] ELSE [r EXCEPT !.at = @ + 1, !.v = r.s[r.at]]
Skip(r, n) == FoldLeft(LAMBDA acc, k : Read(acc), r, [k \in 1..n |-> k])
\* Reads a count and then as many items with One; v becomes their sequence.
ReadMany(One(_), r) ==
    LET c == Read(r)
        next(acc, k) == LET o == One(acc.r) IN IF acc.r.failed THEN acc ELSE [r |-> o, out |-> Append(acc.out, o.v)]
        all == FoldLeft(next, [r |-> c, out |-> <<>>], [k \in 1..(IF c.failed THEN 0 ELSE c.v) |-> k])
    IN [all.r EXCEPT !.v = all.out]

DeserializeString(r) == Skip(r, 2)
DeserializePrimitive(r) ==
    LET tag == Read(r)
        o == Skip(tag, 2)
    IN [o EXCEPT !.v = IF o.failed THEN 0 ELSE IF tag.v = TypeNumber("Integer") THEN Integer(o.v) ELSE String(o.v)]
DeserializeObj(r) ==
    LET tag == Read(r)
        o == ReadMany(DeserializePrimitive, tag)
    IN IF tag.failed \/ tag.v # TypeNumber("Tuple") THEN DeserializePrimitive(r)
       ELSE [o EXCEPT !.v = IF o.failed THEN 0 ELSE Tuple(o.v)]

\* The meta data is copied into the map, and a copy does not take argNum along.
CopyMeta(m) == [m EXCEPT !.argNum = 0]
DeserializeFunc(r) ==
    LET name == DeserializeString(r)
        addr == Read(name)
        argNum == Read(addr)
        cst == ReadMany(DeserializeObj, argNum)
        names == ReadMany(DeserializeString, cst)
    IN [names EXCEPT !.v = IF names.failed THEN 0
          ELSE [name |-> name.v,
                meta |-> [addr |-> addr.v, argNum |-> argNum.v, cstPool |-> cst.v, names |-> names.v]]]
\* Mutant: nobody looks whether the instruction could be read.
DeserializeUnchecked(r) ==
    LET arg == Read(Read(r))
    IN IF arg.failed THEN [r EXCEPT !.v = [op |-> "UNKNOWN", arg |-> 0]] ELSE [arg EXCEPT !.v = [op |-> Read(r).v, arg |-> arg.v]]
DeserializeInstruction(r) ==
    LET op == Read(r)
        arg == Read(op)
    IN [arg EXCEPT !.v = IF arg.failed THEN 0 ELSE [op |-> op.v, arg |-> arg.v]]

Deserialize(s) ==
    LET magic == Read(Reader(s))
        funcs == ReadMany(DeserializeFunc, magic)
        code == ReadMany(DeserializeInstruction, funcs)
        Put(acc, f) == With(acc, f.name, CopyMeta(f.meta))
    IN IF magic.failed \/ magic.v # "theLEECH" \/ code.failed THEN [failed |-> TRUE]
       ELSE [failed |-> FALSE, file |-> [funcs |-> FoldLeft(Put, NoFuncs, funcs.v), code |-> code.v]]
=============================================================================
