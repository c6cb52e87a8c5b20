------------------------------- MODULE MCLeech -------------------------------
(* Texts: the programs of the tests made small, and every short main. *)
EXTENDS LeechVM

Fn(name, argNum, cstPool, names, code) ==
    [name |-> name, argNum |-> argNum, cstPool |-> cstPool, names |-> names, code |-> code]
I(op) == Op(op, 0)

\* test/frontend/fib_rec.leech
FibRec(n) ==
    <<Fn("fib", 1, <<Integer(0), Integer(1), Integer(2)>>, <<"n", "fib", "tmp">>,
         <<Op("LOAD_FAST", 0), Op("LOAD_CONST", 1), Op("COMPARE_OP", 1), Branch("POP_JUMP_IF_FALSE", "rec"),
           Op("LOAD_CONST", 1), I("RETURN_VALUE"), Label("rec"),
           Op("LOAD_FAST", 0), Op("LOAD_CONST", 1), I("BINARY_SUBTRACT"), Op("CALL_FUNCTION", 1), Op("STORE_FAST", 2),
           Op("LOAD_FAST", 0), Op("LOAD_CONST", 2), I("BINARY_SUBTRACT"), Op("CALL_FUNCTION", 1),
           Op("LOAD_FAST", 2), I("BINARY_ADD"), I("RETURN_VALUE")>>),
      Fn("main", 0, <<Integer(0), Integer(n)>>, <<"fib">>,
         <<Op("LOAD_CONST", 1), Op("CALL_FUNCTION", 0), I("PRINT"), Op("LOAD_CONST", 0), I("RETURN_VALUE")>>)>>

\* test/frontend/average.leech
Average(array) ==
    <<Fn("main", 0, <<Integer(100), Tuple(array), Integer(0), Integer(Len(array)), Integer(1)>>, <<"array", "i", "sum">>,
         <<Op("LOAD_CONST", 1), Op("STORE_FAST", 0), Op("LOAD_CONST", 2), Op("STORE_FAST", 1),
           Op("LOAD_CONST", 2), Op("STORE_FAST", 2),
           Op("LOAD_FAST", 1), Op("LOAD_CONST", 3), Op("COMPARE_OP", 0), Branch("POP_JUMP_IF_FALSE", "sec"), Label("fst"),
           Op("LOAD_FAST", 2), Op("LOAD_FAST", 0), Op("LOAD_FAST", 1), I("BINARY_SUBSCR"), I("BINARY_ADD"), Op("STORE_FAST", 2),
           Op("LOAD_FAST", 1), Op("LOAD_CONST", 4), I("BINARY_ADD"), Op("STORE_FAST", 1),
           Op("LOAD_FAST", 1), Op("LOAD_CONST", 3), Op("COMPARE_OP", 0), Branch("POP_JUMP_IF_TRUE", "fst"), Label("sec"),
           Op("LOAD_FAST", 2), Op("LOAD_CONST", 3), I("BINARY_TRUE_DIVIDE"), I("PRINT"),
           Op("LOAD_CONST", 0), I("RETURN_VALUE")>>)>>

\* test/frontend/methods.leech; without arguments the method stores a constant.
Methods(args) ==
    <<Fn("main", 0, <<Integer(0), Integer(1), Tuple(<<Integer(5), String("s")>>), String("x")>>,
         <<"foo", "a", "b", "bar", "x">>,
         <<I("LOAD_BUILD_CLASS"), Op("LOAD_CONST", 0), Op("STORE_ATTR", 1), Op("LOAD_CONST", 2), Op("STORE_ATTR", 2),
           Op("REGISTER_METHOD", 3), Op("LOAD_ATTR", 1), I("POP_TOP"), Op("STORE_BUILD_CLASS", 0),
           Op("INSTANCE_CLASS", 0), Op("STORE_FAST", 4)>>
         \o [n \in 1..args |-> Op("LOAD_CONST", n)] \o
         <<Op("CALL_METHOD", 3), Op("LOAD_FAST", 4), Op("LOAD_CONST", 3), Op("STORE_ATTR", 4), I("PRINT"),
           Op("INSTANCE_CLASS", 0), I("PRINT"), Op("LOAD_CONST", 0), I("RETURN_VALUE")>>),
      Fn("bar", args, <<Integer(7)>>, <<"u", "v", "a">>,
         <<Op(IF args = 0 THEN "LOAD_CONST" ELSE "LOAD_FAST", 0), Op("STORE_ATTR", 2), Op("LOAD_CONST", 0), I("RETURN_VALUE")>>)>>

\* Every main of three instructions, which may call a function that keeps its argument.
Words == {Op("LOAD_CONST", 0), Op("LOAD_CONST", 1), Op("LOAD_FAST", 0), Op("STORE_FAST", 0), I("LOAD_BUILD_CLASS"),
          Op("STORE_ATTR", 1), Op("LOAD_ATTR", 1), Op("STORE_BUILD_CLASS", 0), Op("INSTANCE_CLASS", 0), Op("REGISTER_METHOD", 2),
          Op("CALL_METHOD", 2), Op("CALL_FUNCTION", 2), Branch("POP_JUMP_IF_TRUE", "end")}
Main(code) ==
    <<Fn("main", 0, <<Integer(1), Tuple(<<Integer(4), Integer(5)>>)>>, <<"v", "f", "g">>,
         code \o <<Op("LOAD_CONST", 0), Label("end"), I("RETURN_VALUE")>>),
      Fn("g", 0, <<Integer(3)>>, <<"k">>, <<Op("LOAD_FAST", 0), I("RETURN_VALUE")>>)>>
OneBranch(code) == Cardinality({n \in DOMAIN code : code[n].e = "branch"}) <= 1
Mains == {Main(code) : code \in {c \in Words \X Words \X Words : OneBranch(c)}}

Others == {Main(<<Op("LOAD_CONST", 1), w>>) : w \in {I("BINARY_SUBSCR"), I("BINARY_ADD"), I("POP_TOP"), I("UNARY_NOT"), Op("COMPARE_OP", 9),
                Op("LOAD_CONST", 300), Op("LOAD_FAST", 3), I("JUMP")}}
NoMain == <<Fn("g", 0, <<>>, <<>>, <<I("NOP")>>)>>

MCCommands ==
    {[text |-> t, dump |-> FALSE] :
        t \in {FibRec(4), Average(<<Integer(7)>>), Average(<<Integer(2), Integer(5)>>), Average(<<Integer(2), String("s")>>),
               Methods(0), Methods(1), Methods(2), NoMain}}
    \cup {[text |-> t, dump |-> FALSE] : t \in Mains \cup Others}
    \cup {[text |-> t, dump |-> TRUE] : t \in {FibRec(2), Average(<<Integer(3), Integer(1)>>), Methods(0), NoMain}}
\* All of them but the one with an argument that its byte has no room for are among the texts
\* the theorem on Implements is about.
TooLarge == {c \in MCCommands : \E n \in DOMAIN c.text : Op("LOAD_CONST", 300) \in ToSet(c.text[n].code)}
ASSUME CommandsAreSafe == {c \in MCCommands : ~SafeCommand(c)} = TooLarge /\ Cardinality(TooLarge) = 1
=============================================================================
