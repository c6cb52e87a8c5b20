------------------------------- MODULE LeechVM -------------------------------
(***************************************************************************)
(* leechVM: a text is parsed and run, or dumped to disk, read back by      *)
(* another call of the program and run.                                    *)
(***************************************************************************)
EXTENDS LeechFrame

CONSTANT
    \* What the program is called with: a text and whether it is dumped first.
    Commands

ASSUME CommandsAssumption == \A c \in Commands : IsText(c.text)

VARIABLES
    command,    \* the member of Commands
    file,       \* the LeechFile in memory
    disk,       \* what was dumped
    frames,     \* funcStack
    pc, nextPC,
    heap,       \* the objects that were created
    out,        \* what was printed
    status      \* start, ready, dumped, running, done or failed

vars == <<command, file, disk, frames, pc, nextPC, heap, out, status>>

NoFile == [funcs |-> NoFuncs, code |-> <<>>]
NoPC == -1

StackFrame(f) == EmptyFrame(file.funcs[f])
Frame(f, frame) == [func |-> f, ret |-> 0, data |-> frame.data, vars |-> frame.vars]
CurFrame == Last(frames)
Inst == file.code[pc + 1]
Meta == file.funcs[CurFrame.func]
AtWork == [data |-> CurFrame.data, vars |-> CurFrame.vars, heap |-> heap, out |-> out, jump |-> FALSE, thrown |-> FALSE]

Init ==
    /\ command \in Commands
    /\ file = NoFile /\ disk = <<>> /\ frames = <<>> /\ pc = 0 /\ nextPC = NoPC
    /\ heap = <<>> /\ out = <<>> /\ status = "start"

-----------------------------------------------------------------------------
(* Files.                                                                  *)

GenerateFromText ==
    /\ status = "start"
    /\ IF Parses(command.text) THEN file' = Parse(command.text) /\ status' = "ready"
       ELSE status' = "failed" /\ UNCHANGED file
    /\ UNCHANGED <<command, disk, frames, pc, nextPC, heap, out>>

Orders == {o \in [1..Cardinality(DOMAIN file.funcs) -> DOMAIN file.funcs] : IsInjective(o)}
\* Nobody looks whether everything was written: a part of it may be missing.
DumpBinary ==
    /\ status = "ready" /\ command.dump /\ disk = <<>>
    /\ \E order \in Orders :
         LET all == Serialize(file, order)
         IN \E n \in 1..Len(all) : disk' = SubSeq(all, 1, n)
    /\ status' = "dumped" /\ file' = NoFile
    /\ UNCHANGED <<command, frames, pc, nextPC, heap, out>>

GenerateFromBinary ==
    /\ status = "dumped"
    /\ LET d == Deserialize(disk)
       IN IF d.failed THEN status' = "failed" /\ UNCHANGED file ELSE status' = "ready" /\ file' = d.file
    /\ UNCHANGED <<command, disk, frames, pc, nextPC, heap, out>>

-----------------------------------------------------------------------------
(* The executor.                                                           *)

\* A file without main is refused.
Run ==
    /\ status = "ready" /\ (command.dump => disk # <<>>)
    /\ IF "main" \in DOMAIN file.funcs
       THEN /\ frames' = <<Frame("main", StackFrame("main"))>>
            /\ pc' = file.funcs["main"].addr /\ status' = "running"
       ELSE status' = "failed" /\ UNCHANGED <<frames, pc>>
    /\ UNCHANGED <<command, file, disk, nextPC, heap, out>>

Running == status = "running" /\ pc < Len(file.code)
Reset == NoPC
Goto(next) == nextPC' = next /\ pc' = IF next = NoPC THEN pc + 1 ELSE next

Step ==
    /\ Running /\ Inst.op \notin Calls \cup {"RETURN_VALUE"}
    /\ LET x == Execute(AtWork, Meta, Inst)
       IN /\ ~x.thrown
          /\ frames' = Append(Front(frames), [CurFrame EXCEPT !.data = x.data, !.vars = x.vars])
          /\ heap' = x.heap /\ out' = x.out
          /\ Goto(IF x.jump THEN Inst.arg ELSE Reset)
    /\ UNCHANGED <<command, file, disk, status>>

Callee == Meta.names[Inst.arg + 1]
CalleeKnown == Inst.arg < Len(Meta.names) /\ Callee \in DOMAIN file.funcs
Called == CallResult(AtWork, file.funcs[Callee], Inst, Callee)
\* Mutant: the call is made again.
RetAtCall == pc
RetAddr == pc + 1
CALL ==
    /\ Running /\ Inst.op \in Calls /\ CalleeKnown /\ ~Called.x.thrown
    /\ frames' = Front(frames) \o <<[CurFrame EXCEPT !.data = Called.x.data, !.ret = RetAddr], Frame(Callee, Called.frame)>>
    /\ heap' = Called.x.heap
    /\ Goto(file.funcs[Callee].addr)
    /\ UNCHANGED <<command, file, disk, out, status>>

RETURN_VALUE ==
    /\ Running /\ Inst.op = "RETURN_VALUE" /\ CurFrame.data # <<>>
    /\ LET c == Clone(AtWork, Top(CurFrame))
           rest == Front(frames)
       IN /\ heap' = c.x.heap
          /\ frames' = IF rest = <<>> THEN <<>> ELSE [rest EXCEPT ![Len(rest)].data = Append(@, c.obj)]
          /\ status' = IF rest = <<>> THEN "done" ELSE status
          /\ Goto(IF rest = <<>> THEN Reset ELSE Last(rest).ret)
    /\ UNCHANGED <<command, file, disk, out>>

Throwing ==
    \/ pc >= Len(file.code)
    \/ /\ pc < Len(file.code)
       /\ \/ Inst.op \in Calls /\ (CalleeKnown => Called.x.thrown)
          \/ Inst.op = "RETURN_VALUE" /\ CurFrame.data = <<>>
          \/ Inst.op \notin Calls \cup {"RETURN_VALUE"} /\ Execute(AtWork, Meta, Inst).thrown
\* An exception leaves main.
THROW ==
    /\ status = "running" /\ Throwing /\ status' = "failed"
    /\ UNCHANGED <<command, file, disk, frames, pc, nextPC, heap, out>>

Finished == status \in {"done", "failed"} /\ UNCHANGED vars

Execution == Step \/ CALL \/ RETURN_VALUE \/ THROW
Next == GenerateFromText \/ DumpBinary \/ GenerateFromBinary \/ Run \/ Execution \/ Finished

\* The loop of Executor::execute runs on; when the program is called is up to its user.
Spec == Init /\ [][Next]_vars /\ WF_vars(Execution)

-----------------------------------------------------------------------------
(* Properties.                                                             *)

\* Every call has its place in its function: the running one by pc, a waiting one by ret.
PlaceOf(n) == (IF n = Len(frames) THEN pc ELSE frames[n].ret) - file.funcs[frames[n].func].addr
SourceCalls ==
    [n \in DOMAIN frames |->
        [func |-> frames[n].func, at |-> PlaceOf(n), data |-> frames[n].data, vars |-> frames[n].vars]]
Source == INSTANCE LeechSource WITH
    text <- command.text, calls <- SourceCalls,
    status <- IF status \in {"start", "ready", "dumped"} THEN "idle" ELSE status

\* The executor on the flat code, from memory or from disk, does what the text says: labels,
\* addresses and return addresses lead where the names and calls of the text do.
Implements == Source!Spec

\* That holds of texts whose functions have different names and end in an instruction that
\* does not go on to the next function, in which only the first function branches (labels
\* count from its beginning, the program counter from the beginning of the code), no label stands
\* twice or has two branches ahead of it (only the last is patched), and arguments fit in
\* their byte.
IsLabel(e, label) == e.e = "label" /\ e.label = label
BranchesTo(e, label) == e.e = "branch" /\ e.label = label
SafeLabel(code, k) ==
    /\ \A i \in DOMAIN code : IsLabel(code[i], code[k].label) => i = k
    /\ \A i, j \in 1..(k - 1) : BranchesTo(code[i], code[k].label) /\ BranchesTo(code[j], code[k].label) => i = j
    /\ Source!Before(code, k) < ArgLimit
SafeEntry(n, code, k) ==
    LET e == code[k] IN
    /\ e.e = "label" => SafeLabel(code, k)
    /\ e.e = "instruction" => e.op \notin Branches /\ (e.op \in Implemented => e.arg < ArgLimit)
    /\ e.e = "branch" =>
         e.op \notin Implemented \/ (e.op \in Branches /\ n = 1 /\ \E i \in DOMAIN code : IsLabel(code[i], e.label))
Leaves(e) == e.e # "label" /\ e.op \notin Implemented \ {"RETURN_VALUE"}
SafeText(text) ==
    /\ \A m, n \in DOMAIN text : text[m].name = text[n].name => m = n
    /\ \A n \in DOMAIN text : LET code == text[n].code IN
         code # <<>> /\ Leaves(Last(code)) /\ \A k \in DOMAIN code : SafeEntry(n, code, k)
\* A file on disk does not keep how many arguments a method has.
SafeCommand(c) ==
    /\ SafeText(c.text)
    /\ c.dump => \/ \A n \in DOMAIN c.text : c.text[n].argNum = 0
                 \/ \A n \in DOMAIN c.text : \A k \in DOMAIN c.text[n].code : c.text[n].code[k].op # "CALL_METHOD"

\* A file that is accepted from disk is a whole one and has the code, addresses, constants
\* and names of the text; a dump that was cut anywhere is refused.
LoadedWhole ==
    (disk # <<>> /\ status \in {"ready", "running", "done"}) =>
        LET parsed == Parse(command.text)
        IN /\ file.code = parsed.code /\ DOMAIN file.funcs = DOMAIN parsed.funcs
           /\ \A f \in DOMAIN file.funcs : file.funcs[f] = [parsed.funcs[f] EXCEPT !.argNum = file.funcs[f].argNum]

\* A frame below another one waits behind the call that made the other one, without operands
\* if it called a function and with the object on top if it called a method.
CallersWait ==
    \A n \in 1..(Len(frames) - 1) :
        LET call == file.code[frames[n].ret]
            name == file.funcs[frames[n].func].names[call.arg + 1]
        IN /\ frames[n].ret \in DOMAIN file.code /\ call.op \in Calls /\ name = frames[n + 1].func
           /\ IF call.op = "CALL_FUNCTION" THEN frames[n].data = <<>>
              ELSE TopIsClass(frames[n]) /\ name \in heap[Top(frames[n]).v].methods

\* The executor comes to an end on programs that do.
Ends == status = "running" ~> status \in {"done", "failed"}
=============================================================================
