----------------------------- MODULE LeechSource -----------------------------
(***************************************************************************)
(* What a text of leech bytecode promises: every call has a place of its   *)
(* own in its function, a branch goes to the label it names, a call goes   *)
(* to the start of the function it names and comes back behind the call.   *)
(***************************************************************************)
EXTENDS Integers, Sequences, SequencesExt, FiniteSets

CONSTANTS
    \* What instructions do to the frame they run in, and which ones call.
    EmptyFrame(_), Execute(_, _, _), CallResult(_, _, _, _), Clone(_, _),
    Calls

VARIABLES
    text,       \* the functions
    calls,      \* the calls that have not returned, the last one at work
    heap,       \* the objects
    out,        \* what was printed
    status      \* idle, running, done or failed

vars == <<text, calls, heap, out, status>>

Known(f) == \E n \in DOMAIN text : text[n].name = f
Func(f) == text[CHOOSE n \in DOMAIN text : text[n].name = f]
Meta(f) == [addr |-> 0, argNum |-> Func(f).argNum, cstPool |-> Func(f).cstPool, names |-> Func(f).names]

\* How many instructions stand in the first n entries of a code.
Before(code, n) == Cardinality({k \in 1..n : code[k].e # "label"})
Size(f) == Before(Func(f).code, Len(Func(f).code))
\* The instruction that has so many instructions before it.
Instruction(f, at) ==
    LET code == Func(f).code
    IN code[CHOOSE k \in DOMAIN code : code[k].e # "label" /\ Before(code, k) = at + 1]
\* How many instructions of the function stand before the label.
Place(f, label) ==
    LET code == Func(f).code
    IN Before(code, CHOOSE k \in DOMAIN code : code[k].e = "label" /\ code[k].label = label)

Call(f, frame) == [func |-> f, at |-> 0, data |-> frame.data, vars |-> frame.vars]
Current == Last(calls)
Inst == Instruction(Current.func, Current.at)
Running == status = "running" /\ Current.at < Size(Current.func)
AtWork(c) == [data |-> c.data, vars |-> c.vars, heap |-> heap, out |-> out, jump |-> FALSE, thrown |-> FALSE]
NameOf(inst) == Meta(Current.func).names[inst.arg + 1]

Init ==
    /\ calls = <<>> /\ heap = <<>> /\ out = <<>> /\ status = "idle"

Start ==
    /\ status = "idle" /\ Known("main")
    /\ calls' = <<Call("main", EmptyFrame(Meta("main")))>>
    /\ status' = "running"
    /\ UNCHANGED <<text, heap, out>>

Step ==
    /\ Running /\ Inst.op \notin Calls \cup {"RETURN_VALUE"}
    /\ LET x == Execute(AtWork(Current), Meta(Current.func), Inst)
           at == IF x.jump THEN Place(Current.func, Inst.label) ELSE Current.at + 1
       IN /\ ~x.thrown
          /\ calls' = Append(Front(calls), [Current EXCEPT !.data = x.data, !.vars = x.vars, !.at = at])
          /\ heap' = x.heap /\ out' = x.out
    /\ UNCHANGED <<text, status>>

Invoke ==
    /\ Running /\ Inst.op \in Calls
    /\ Inst.arg < Len(Meta(Current.func).names) /\ Known(NameOf(Inst))
    /\ LET c == CallResult(AtWork(Current), Meta(NameOf(Inst)), Inst, NameOf(Inst))
       IN /\ ~c.x.thrown
          /\ calls' = Front(calls) \o <<[Current EXCEPT !.data = c.x.data, !.at = @ + 1], Call(NameOf(Inst), c.frame)>>
          /\ heap' = c.x.heap
    /\ UNCHANGED <<text, out, status>>

\* One value goes to the caller, or the program ends.
Return ==
    /\ Running /\ Inst.op = "RETURN_VALUE" /\ Current.data # <<>>
    /\ LET c == Clone(AtWork(Current), Last(Current.data))
           rest == Front(calls)
       IN /\ heap' = c.x.heap
          /\ calls' = IF rest = <<>> THEN <<>> ELSE [rest EXCEPT ![Len(rest)].data = Append(@, c.obj)]
          /\ status' = IF rest = <<>> THEN "done" ELSE status
    /\ UNCHANGED <<text, out>>

\* What the instruction needs is not there.
Stuck ==
    \/ Current.at >= Size(Current.func)
    \/ /\ Current.at < Size(Current.func)
       /\ \/ /\ Inst.op \in Calls
             /\ (Inst.arg < Len(Meta(Current.func).names) /\ Known(NameOf(Inst))) =>
                    CallResult(AtWork(Current), Meta(NameOf(Inst)), Inst, NameOf(Inst)).x.thrown
          \/ Inst.op = "RETURN_VALUE" /\ Current.data = <<>>
          \/ /\ Inst.op \notin Calls \cup {"RETURN_VALUE"}
             /\ Execute(AtWork(Current), Meta(Current.func), Inst).thrown

\* Such an instruction ends everything, and a program may be refused before it starts.
Fail ==
    /\ status = "idle" \/ (status = "running" /\ Stuck)
    /\ status' = "failed"
    /\ UNCHANGED <<text, calls, heap, out>>

Next == Start \/ Step \/ Invoke \/ Return \/ Fail

Spec == Init /\ [][Next]_vars
=============================================================================
