----------------------------- MODULE LeechFrame -----------------------------
(***************************************************************************)
(* leechVM: what an instruction does to the frame it runs in.  Numbers,    *)
(* strings and tuples never change and are values; an object of a class    *)
(* is a place in the heap, which frames and fields can share.              *)
(***************************************************************************)
EXTENDS LeechFile

Null == [t |-> "null", v |-> 0]
Object(o) == [t |-> "Class", v |-> o]
Float(a, b) == [t |-> "Float", v |-> <<a, b>>]
EmptyObject == [fields |-> NoFuncs, methods |-> {}]

\* A frame at work: stack and variables, with the heap, what was printed, whether a branch
\* is taken and whether something was thrown.
Throw(x) == [x EXCEPT !.thrown = TRUE]
Need(x, condition, result) == IF x.thrown \/ ~condition THEN Throw(x) ELSE result

EmptyFrame(meta) == [data |-> <<>>, vars |-> [n \in Range(meta.names) |-> Null]]
SetVar(x, name, obj) == [x EXCEPT !.vars[name] = obj]
Push(x, obj) == Need(x, obj.t # "null", [x EXCEPT !.data = Append(@, obj)])
Top(x) == Last(x.data)
Pop(x) == Need(x, x.data # <<>>, [x EXCEPT !.data = Front(@)])

\* Fields are copied as references.
Clone(x, obj) ==
    IF obj.t = "Class" THEN [x |-> [x EXCEPT !.heap = Append(@, x.heap[obj.v])], obj |-> Object(Len(x.heap) + 1)]
    ELSE [x |-> x, obj |-> obj]
\* popGetTos, with what is done with a copy of the top of the stack.
WithTos(x, Do(_, _)) ==
    IF x.thrown \/ x.data = <<>> THEN Throw(x)
    ELSE LET c == Clone(x, Top(x)) IN Do(Pop(c.x), c.obj)
With2(x, Do(_, _, _)) == WithTos(x, LAMBDA y, a : WithTos(y, LAMBDA z, b : Do(z, a, b)))

IsNumber(obj) == obj.t \in {"Integer", "Float"}
Same(a, b) == IsNumber(a) /\ a.t = b.t
Plus(a, b) == IF a.t = "Integer" THEN Integer(a.v + b.v) ELSE Float(a.v[1] * b.v[2] + b.v[1] * a.v[2], a.v[2] * b.v[2])
Minus(a, b) == IF a.t = "Integer" THEN Integer(a.v - b.v) ELSE Float(a.v[1] * b.v[2] - b.v[1] * a.v[2], a.v[2] * b.v[2])
Over(a, b) == IF a.t = "Integer" THEN Float(a.v, b.v) ELSE Float(a.v[1] * b.v[2], a.v[2] * b.v[1])
Compare(a, b, op) ==
    CASE op = 0 -> a < b [] op = 1 -> a <= b [] op = 2 -> a = b [] op = 3 -> a # b [] op = 4 -> a > b [] op = 5 -> a >= b

-----------------------------------------------------------------------------
(* Callbacks.                                                              *)

BINARY_ADD(x) == With2(x, LAMBDA y, tos1, tos2 : Need(y, Same(tos1, tos2), Push(y, Plus(tos1, tos2))))
BINARY_SUBTRACT(x) == With2(x, LAMBDA y, tos1, tos2 : Need(y, Same(tos2, tos1), Push(y, Minus(tos2, tos1))))
BINARY_TRUE_DIVIDE(x) == With2(x, LAMBDA y, two, one : Need(y, Same(one, two), Push(y, Over(one, two))))
BINARY_SUBSCR(x) ==
    With2(x, LAMBDA y, idx, tuple :
        Need(y, tuple.t = "Tuple" /\ idx.t = "Integer" /\ idx.v \in 0..(Len(tuple.v) - 1), Push(y, tuple.v[idx.v + 1])))
COMPARE_OP(x, op) ==
    With2(x, LAMBDA y, tos1, tos2 :
        Need(y, tos1.t = "Integer" /\ tos2.t = "Integer" /\ op \in 0..5,
             Push(y, Integer(IF Compare(tos2.v, tos1.v, op) THEN 1 ELSE 0))))
POP_JUMP_IF(x, true) ==
    WithTos(x, LAMBDA y, tos : Need(y, tos.t = "Integer", [y EXCEPT !.jump = ((tos.v # 0) = true)]))

LOAD_CONST(x, meta, arg) == Need(x, arg < Len(meta.cstPool), Push(x, meta.cstPool[arg + 1]))
LOAD_FAST(x, name) == Push(x, x.vars[name])
\* The value stays on the stack.
STORE_FAST(x, name) == Need(x, x.data # <<>>, SetVar(x, name, Top(x)))
\* Of an object inside another one only its presence is shown.
Shown(heap, obj) ==
    IF obj.t # "Class" THEN obj
    ELSE LET o == heap[obj.v] IN
         [t |-> "shown", methods |-> o.methods, fields |-> [f \in DOMAIN o.fields |->
             IF o.fields[f].t = "Class" THEN Null ELSE o.fields[f]]]
PRINT(x) == WithTos(x, LAMBDA y, tos : [y EXCEPT !.out = Append(@, Shown(y.heap, tos))])

\* top() of a class.
TopIsClass(x) == x.data # <<>> /\ Top(x).t = "Class"
LOAD_BUILD_CLASS(x) == Push([x EXCEPT !.heap = Append(@, EmptyObject)], Object(Len(x.heap) + 1))
STORE_BUILD_CLASS(x, name) == WithTos(x, LAMBDA y, tos : Need(y, tos.t = "Class", SetVar(y, name, tos)))
STORE_ATTR(x, name) ==
    WithTos(x, LAMBDA y, attr : Need(y, TopIsClass(y), [y EXCEPT !.heap[Top(y).v].fields = With(@, name, attr)]))
LOAD_ATTR(x, name) ==
    Need(x, TopIsClass(x) /\ name \in DOMAIN x.heap[Top(x).v].fields, Push(x, x.heap[Top(x).v].fields[name]))
\* A variable without a value is a null pointer here.
INSTANCE_CLASS(x, name) ==
    Need(x, x.vars[name].t = "Class", LET c == Clone(x, x.vars[name]) IN Push(c.x, c.obj))
REGISTER_METHOD(x, name) ==
    Need(x, TopIsClass(x) /\ name \notin x.heap[Top(x).v].methods,
         [x EXCEPT !.heap[Top(x).v].methods = @ \cup {name}])

ExecutePlain(x, meta, inst) ==
    CASE inst.op = "POP_TOP" -> Pop(x)
      [] inst.op = "BINARY_ADD" -> BINARY_ADD(x)
      [] inst.op = "BINARY_SUBTRACT" -> BINARY_SUBTRACT(x)
      [] inst.op = "BINARY_TRUE_DIVIDE" -> BINARY_TRUE_DIVIDE(x)
      [] inst.op = "BINARY_SUBSCR" -> BINARY_SUBSCR(x)
      [] inst.op = "COMPARE_OP" -> COMPARE_OP(x, inst.arg)
      [] inst.op = "PRINT" -> PRINT(x)
      [] inst.op = "LOAD_BUILD_CLASS" -> LOAD_BUILD_CLASS(x)
      [] inst.op = "LOAD_CONST" -> LOAD_CONST(x, meta, inst.arg)
ExecuteNamed(x, op, name) ==
    CASE op = "LOAD_FAST" -> LOAD_FAST(x, name)
      [] op = "STORE_FAST" -> STORE_FAST(x, name)
      [] op = "STORE_BUILD_CLASS" -> STORE_BUILD_CLASS(x, name)
      [] op = "STORE_ATTR" -> STORE_ATTR(x, name)
      [] op = "LOAD_ATTR" -> LOAD_ATTR(x, name)
      [] op = "INSTANCE_CLASS" -> INSTANCE_CLASS(x, name)
      [] op = "REGISTER_METHOD" -> REGISTER_METHOD(x, name)
\* Every instruction but calls and returns.
Execute(x, meta, inst) ==
    CASE inst.op \in Plain -> ExecutePlain(x, meta, inst)
      [] inst.op \in Named ->
            Need(x, inst.arg < Len(meta.names), ExecuteNamed(x, inst.op, meta.names[inst.arg + 1]))
      [] inst.op \in Branches -> POP_JUMP_IF(x, inst.op = "POP_JUMP_IF_TRUE")
      [] inst.op \notin Implemented -> Throw(x)

-----------------------------------------------------------------------------
(* Arguments.                                                              *)

\* n times popGetTos: a state with the popped values, the top first.
Take(x, n) ==
    LET one(acc, k) ==
            IF acc.x.thrown \/ acc.x.data = <<>> THEN [acc EXCEPT !.x = Throw(@)]
            ELSE LET c == Clone(acc.x, Top(acc.x)) IN [x |-> Pop(c.x), args |-> Append(acc.args, c.obj)]
    IN FoldLeft(one, [x |-> x, args |-> <<>>], [k \in 1..n |-> k])

\* Names take the arguments in order for as long as there are some.
FillArgs(frame, meta, args) ==
    LET given == 1..(IF Len(args) < Len(meta.names) THEN Len(args) ELSE Len(meta.names))
        last(n) == CHOOSE k \in given : meta.names[k] = n /\ \A j \in given : meta.names[j] = n => j <= k
    IN [frame EXCEPT !.vars =
            [n \in DOMAIN @ |-> IF \E k \in given : meta.names[k] = n THEN args[last(n)] ELSE @[n]]]

\* CALL_FUNCTION empties the stack of the caller; CALL_METHOD takes the arguments the method
\* has, then finds the object, which caller and method share.
CallResult(x, callee, inst, name) ==
    LET n == IF inst.op = "CALL_FUNCTION" THEN Len(x.data) ELSE callee.argNum
        taken == Take(x, n)
        y == taken.x
        method == TopIsClass(y) /\ name \in y.heap[Top(y).v].methods
        frame == IF inst.op = "CALL_FUNCTION" THEN EmptyFrame(callee) ELSE [EmptyFrame(callee) EXCEPT !.data = <<Top(y)>>]
    IN IF y.thrown \/ (inst.op = "CALL_METHOD" /\ ~method) THEN [x |-> Throw(y)]
       ELSE [x |-> y, frame |-> FillArgs(frame, callee, taken.args)]
=============================================================================
