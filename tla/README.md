# TLA+ models of best-practices

The repository is a collection of nine independent projects that share no code.
This directory holds the TLA+ specifications of the parts whose control is worth
model checking, the TLC configurations that check them on small instances, and
TLAPS proofs of the results that hold for every instance. `PROJECT.json` names
the source lines behind every definition.

## 1. Inventory

### riscv-pipelined-cpu-sim (modelled)

A five-stage pipeline for RV32I. `Pipeline::run` calls `tick` until an exception.
A tick runs memory, execute, decode and fetch in this order, then clocks the
stage registers, then lets the hazard unit look at the registers as the clock has
left them.

- State: the program counter, four stage registers (each with an enable flag), the
  two bypass selections, the shutdown flag and counter, the register file, the data
  memory, the instruction section.
- Interaction: the stages write signals that earlier stages read *in the same tick*
  (`pc_r`, `pc_disp`, `bp_mem`, the write-back port of the register file), so the
  order of the calls in `tick` is part of the behaviour.
- Hard: bypasses and the load stall (chosen again in the stalled tick), the flush
  behind a taken branch, the shutdown when the pc leaves the section, exceptions in
  the middle of a tick.
- Correct when: each program leaves the registers and memory the one-instruction
  machine leaves; nothing in flight is lost; the pipeline never stands still.

### JIT-AOT-Compilers-master (modelled)

- `ir/`: graph, basic blocks, SSA instructions with users, phis, markers. Edits of
  the graph must keep predecessors, successors, phi sources, inputs and users in
  agreement; the four marker slots must not run out.
- `analysis/`: dominators, loops, linear ordering, liveness, graph checker. Each is
  an algorithm with a plain definition to check it against. `PassManager::Run` skips an
  analysis while its flag is valid; the passes clear, or set, the flags.
- `codegen/`: linear-scan allocation over the live intervals, spills to the stack,
  the resolution of phis by moves on edges, a checker. State of the scan: the sorted
  list of active intervals, the bit map of free registers, the slot counter and
  the location of each interval. Overlapping intervals may never share a place.
- `optimization/`: seven passes that edit the graph and invalidate analyses, in any order.
- Hard: an analysis that is stale when it is used, lists that are edited while they are
  walked, phis at an edge that goes, moves that get in each other's way.

### leechVM-master (modelled)

A Python-like VM: a front end that turns text into one flat code with labels and
addresses, a binary file, an executor with a stack of frames (data stack, variables,
return address), callbacks per opcode, objects whose fields are shared. Hard: labels that
are not yet known, values shared between frames and instances, `CALL_FUNCTION` taking the
whole data stack as arguments, what a dumped file keeps. Correct when a text, run
at once or from disk, does what its labels and names say.

### BinaryTranslator-main and ProgrammingLanguage-main (modelled)

A toy language: front end, code generator to stack assembly, two-pass assembler,
a stack processor, each a program of its own that reads the file of the one before; and a
translator from the processor's bytecode to x86-64 with
constant folding and push/pop merging. Hard: jump resolution after commands were
removed, folding over removed commands, the unresized operand stack, operand
order, stale variable counts in the code generator, the return address on the operand
stack. Correct when the compiled program prints what the source means and translated code
does what the processor does.

### Derivative-Calculator-main (modelled)

A formula is parsed, differentiated, simplified until nothing changes, printed for
LaTeX, evaluated and expanded at 0. The state is a heap of nodes: derivatives share nodes
with the input, the simplifier frees nodes. The program has a protected stack of its own
(canaries, hashes, resizing), which the repository's other projects copy. Hard: shared nodes that
are freed, the boundaries of the resizing, verification before hashing.

### Load-Screen-Application-master, Mandelbrot-Fractal-main, bash_utils_course (not modelled)

Spirals drawn into a frame buffer: trigonometry and one flag per spiral. The
Mandelbrot viewer is floating point and drawing, the bash notes are not a program.

## 2. What is modelled

| Module | Models |
| --- | --- |
| `RvInstr` | instruction formats, immediates and control signals over records instead of bit fields |
| `RvDatapath` | `ALU` and `Cmp` on words of any size |
| `RvPipeline` | `Pipeline::tick`: one action for a tick that completes, one per stage that throws |
| `RvIsa` | abstract specification: one instruction per step, without stages |
| `RvRefinement` | the refinement mapping, the `SafeProgram` conditions, the properties |
| `MCRv` | small instances of the pipeline and their programs |
| `RvRefinementProofs` | type correctness of the pipeline; it implements `RvIsa` and leaves nothing behind |
| `LinearScan` | `allocateAndAssignRegs`: a visit expires, then assigns, spills, takes over or aborts |
| `MCLinearScan` | small instances: all sequences of interval hulls in scan order |
| `LinearScanProofs` | the safety of the allocator |
| `JirGraph` | the IR: instructions, users, blocks, graphs, and every operation that edits them |
| `JirAnalysis` | traversals, dominators, loops, the linear order, the graph checker |
| `JirPasses`, `JirInlining` | constant folding, peepholes, dead code, checks, decided branches, empty blocks; the copy of a graph and inlining |
| `JirRegAlloc` | liveness, the scan on a function's intervals, moves for phis |
| `JirMeaning` | reference: what a function calls, where it traps and what it returns, on values or, once allocated, on registers and slots |
| `JirCompiler` | a function and the passes run on it, one pass per step; the properties |
| `MCJir` | functions built with the builder, and all small control-flow graphs |
| `LeechFile` | the grammar's actions, the file, dump and load |
| `LeechFrame` | what each opcode does to a frame and to the objects |
| `LeechSource` | abstract specification: text with labels and names, calls that nest |
| `LeechVM` | the program: parse, dump, load, `Executor::execute` one instruction per step; the refinement mapping |
| `MCLeech` | the texts |
| `FoldInduction` | what `FoldLeft` computes place by place, for any operator |
| `LeechProofs` | the file is read back as it was written, what the front end builds, and that only whole dumps are loaded |
| `LeechFrameProofs` | what every opcode leaves whole, and that callers wait behind their calls |
| `LeechSourceProofs` | places in the flat code are places in the text: the VM implements `LeechSource` |
| `StackCode` | the commands of the stack processor and the byte layout the assembler gives a program |
| `StackMachine` | abstract specification: `CPU`, one command of the guest program per step |
| `PlTree`, `PlFrontend` | trees, tokens, the recursive descent, the tree on disk, the printer of trees |
| `PlBackend` | the reader of `tree.txt`, the code generator, the assembler |
| `PlMeaning` | reference: what a program of the language prints |
| `PlToolchain`, `MCPl` | `run.sh`: a step each for the front end and the back end, one per line of each lap of the assembler and one per command of the processor; the programs |
| `Translator` | `main` of the translator, one pass of one of its loops per step, then the emitted code, one command per step; the refinement mapping, the `SafeProgram` conditions and the properties |
| `MCTranslator` | small instances of the translator and their programs |
| `TranslatorProofs` | labels and code addresses of the translation, and the refinement |
| `DerivMath` | nodes, derivatives, the simplifier, values, printing |
| `DerivCalc` | the parser and `main`, one step per call it makes |
| `DerivMeaning`, `MCDeriv` | reference: truncated Taylor series, a reader of formulas in print; the formulas |
| `LifoStack` | abstract specification: a stack that may be lost |
| `ProtectedStack`, `MCStack` | the protected stack in its eight builds, and stray bytes; small instances |
| `ProtectedStackProofs` | the safety of the protected stack and its refinement of `LifoStack` |

### The pipeline

The variables of `RvPipeline` are what lasts from one tick to the next; what a tick
writes before reading (`pc_r`, `bp_mem`, every `Register::next`) is a state
function named for the code. `Tick` composes the stages in the order of the code.
The register file is written before it is read. `hu_rs1` and `hu_rs2`
are variables because the hazard unit's early return after a redirect leaves them
as they were. The tick in which a stage throws changes only what the stages before
it wrote.

An instruction is a record of its fields, words have `WordMod` values, and `Alu` and
`Cmp` are constants of the pipeline, given by `RvDatapath` in the runs: the
pipeline's correctness does not depend on what the ALU computes. Byte and half-word
accesses are left out.

`RvRefinement` maps the pipeline to `RvIsa`: an instruction takes effect when it
leaves execute, results still in memory and write-back are laid over the register
file and the data memory, and the architectural pc is that of the oldest instruction
that has not left execute. `ImplementsIsa` holds for *safe* programs. The four
conditions are exactly where the code departs from the architecture:

- `NoFalseForward`: the hazard unit forwards from stores and branches too, whose
  rd field is a part of the immediate.
- `NoStalledBranch`: a branch that stalls behind a load redirects on a stale operand.
- `BypassSurvivesStall`: the bypasses are chosen again in the stalled tick.
- `PaddedEnd`: the shutdown loses the result of the last instruction but one and
  leaves a loop whose branch is at the end. Two nops behind the program avoid both,
  provided the first does not read the target of a load right before it (a nop is any
  `op_imm` to `x0`): it would stall, and the second nop would be dropped in the stall.

### The allocator

An interval is the hull of its ranges. Intervals are visited in descending order of
begin although the comment at `LinearScanRegAlloc.cpp:24` says ascending: the
iterator is `rbegin`. As a consequence an active interval expires only when the new
interval is the empty hull of an unused phi. A visit is one action with four
alternatives, which are the branches of the code, including both assertions.
The model assumes at most 31 registers: `RegMap` builds 64-bit masks by shifting an
`int`. The repository's architecture has 31.

### The JIT

Everything the compiler reaches by a pointer lives in one heap of instructions,
blocks, graphs and loops, and an operation of the code is an operator from heap to heap.
An `ASSERT` that fails makes the heap *failed* and ends the run: a debug build aborts
there, and the properties speak of heaps that have not failed. `JirCompiler` takes one
step per pass, in any order, at most `MaxPasses` times, with the analyses that a pass
itself asks for inside the step. Words have `Width` bits; types are kept as far as
folding looks at them. `JirMeaning` is the reference and shares only the heap with the
passes: it follows `ir/docs/instructions.md`.

The properties relate a heap to the source (`MeaningKept`), to the checker
(`WellFormed`), and a flag that says an analysis is valid to what paths of the graph
define (`RPOFresh`, `DomTreeFresh`, `LoopsFresh`). `AllocationKept` computes the
allocated function on its registers and slots. It leaves out the three cases in which the
moves of an edge really get in each other's way: a phi nobody reads has the hull
[0, 0) and shares its place, so its move clobbers a live value; a phi that takes an earlier
phi of its block gets the overwritten value (`jit_moves`); a move pushed behind the `JMP`
of a block that the linear order inserted is never made.

Departures met on the way, all part of the model:

- the dominator tree is wrong on some graphs of six blocks (`jit_domtree`) and right on
  all of five;
- the linear order puts an inner loop that is the true successor in front of the false
  one, so that a jump which should fall through does not; a condition that must
  be inverted both before and after its inversion makes the recursion endless; a block
  inserted in front of the last one fails an assertion;
- `LT` is inverted to `GT` with the operands exchanged (marked TODO in the code), `LE` and
  `GT` are unreachable in `compare`, and `evaluateComparison` takes equal inputs of `LE`
  for false;
- `BranchElimination` puts the old validity of the dominator tree back after it has removed blocks;
- dead code elimination never gives its marker back, and removes unused `ARG`s, so that
  inlining matches arguments to the wrong places;
- the loop analysis does not unhook the loops of an earlier run, and its second run fails an
  assertion; the dominator builder meets a removed block;
- two peepholes register a user twice, and a later replacement fails;
- `FixPHIAfterDisconnect` unlinks phis while it walks them, `InsertBetween` does not
  invalidate, `AddBasicBlockBefore` does not register its block, `SplitAfterInstruction` does
  not rename the sources of phis behind it;
- `fixPhis` iterates over a vector that `breakCriticalEdge` appends to: where the loop then ends is
  undefined and the model tries both; a second phi at a critical edge is looked up
  by a renamed source and fails; a move may be put into the first block, which the
  checker (not run again) refuses.

### leechVM

`LeechSource` is what a text promises: a branch goes to a label by name, a call to a
function by name and back behind the call. `LeechVM` parses the text to flat code
with the labels patched as `parser.y` patches them, may dump it, cut the dump anywhere, load it in
another process and run it, one instruction per step. Immutable values are values,
class instances are places in a heap. The refinement (`Implements`) shows addresses
as names. Its premises are `SafeCommand`: functions have different names and end in an instruction
that does not go on to the next one; only the first function of a text branches (labels count from
the beginning of the function, the program counter from the beginning of the code), to labels it
has; a label stands once and has at most one branch ahead of it (only the last is patched);
arguments and labels fit in their byte; and what is run from disk has no arguments or calls no method
(`FuncMeta` loses `argNum` when it is copied). `CommandsAreSafe` has TLC check that the texts of the
run meet them but for one, whose argument is too large. These departures, and
the shallow clones of `INSTANCE_CLASS`, the stack a loop of `STORE_FAST` leaves behind, and a
function without `RETURN_VALUE` running into the next, are what the code does; the model has them.

### The language

`PlToolchain` is `run.sh`: front end, back end, assembler and processor. The assembler takes
a step per line, in each of its two laps, and the processor a step per command. A source is a sequence of words;
a name is the sequence of its letters and is transliterated. The reference `PlMeaning`
reads the meaning off the author's tree: parameters are passed last first, as the
repository's example needs it, and numbers are rounded to six digits wherever they are
printed. Programs that use what generates no code (`WHILE`, `POW`, `EQ`, `IS_GE`, `IS_BE`,
`IS_GT`) or wrong code (`COS` emits `sin`; `IS_BT` emits `jae`, which the assembler's
prefix match takes for `ja`) are left out of the runs; names in `>` and `>=` are read as such,
and two names can have one transliteration. `RecToOrigin` prints the back end's tree, without
brackets, and the name of a call with a second pair of brackets, because `RecGetChild` makes it a `NAME_T`: such a call does not read
back. `PrintedReadsBack` says what does. The calls of `RecToOrigin` and `SimplifyTree` are commented out in the back
end's `main`; the printer is checked as a function, the simplifier is not modelled.
Malformed sources (on which the parser may not return), more than a hundred labels, and the two
cells of the processor's operand stack are not modelled.

### The derivative calculator

`DerivCalc` is `main`, one call per step, over a heap of nodes with a flag for freed
ones. The order in which a compiler evaluates two arguments, and whether a `-` in the middle of a scanset is a
character, are choices of the build. A value is a number modulo P * P. The multiples
of P stand for the numbers that `isZero` and `isEqual` take for zero, being within
`ACCURACY` (1e-6) of it: their sums and products are again such numbers, every other number has
an inverse, and only 0 is zero. So the simplifier's tests for 0 and 1 and the zero test of
`CalcOneOp`'s division accept numbers that are only near, and the derivative of x * 0.0000001
is 0 here as in the code. Derivatives and rules of the simplifier are otherwise identities of a
ring, and `Sin`, `Cos` and `Ln` are any functions. `x.rounded` is not in the code: it
records that a factor near 0 or 1 was taken for it, which `DerivativeRight` excludes; a
denominator near zero makes the formula undefined in `DerivMeaning`, where the code answers 0.
Negative powers of numbers near zero are left out with it.

`DerivMeaning` computes Taylor series of formulas directly and shares nothing
with the rules. The premises name the departures: a power that is not a number, `tg`,
`ctg` and unknown names have no derivative (the README says any function); an input that can
itself be simplified loses nodes of its own tree (`CopyNode` is shallow and `TransformNode`
frees), which are then read or freed again; a leaf evaluates to 0. A `Compilation error` is
printed and the partial tree used. Three functions end without `return`. `GoesThrough` says
that nothing else goes wrong: outside these premises a read of a freed node, a second
`free`, a missing child or a phrase beyond the table ends in the step `failed`.

`PrintInOrder` writes LaTeX, which the program never reads: `\frac`, `^`, brackets and braces, and a
negative number as a minus sign and digits. `Seen` and `Read` are a human reader of the
typeset formula: braces do not show, what follows `^` is raised, `\frac` is a bar, the rest
goes by precedence. `PrintedReadsBack` says that reader sees the tree. It leaves out
a - (b + c), which the code prints without brackets, and numbers that are not whole, whose `%lg`
text (1e-07 for a tiny one) is not modelled.

### The protected stack

`ProtectedStack` has the three build options as state that never changes, an action per
operation and one for a stray byte, once between two operations: in a cell of the array, the size, the
capacity, the pointer to the array, a canary or a hash. `HashFunc` stops in front of the last byte
of what it is given (`stack.cpp:332`), so the byte that ends the array, and the one that ends the right
canary, are not in a hash: `Low` is a cell without it. For one byte anywhere else the hashes are exact,
because `SALT` is prime to `HASH_MOD`; two bytes could cancel each other, so they are written in
different intervals. `hit` records the parts that were written, `asLeft` the stack as the last operation left it.

A size, capacity or pointer that was written may lead an operation out of the array. That is the
state `"outside"`, behind which the model follows the program no further: the verification may already read
outside (a capacity beyond the array), or resizing, poison or the access does.
`StaysInside` says when that can happen. `Trusted` is what a caller knows: the stack was never
called corrupted, or, in a build that does not look, nothing was written. While it is trusted it
implements `LifoStack`, even with the one byte changed that no hash sees, because the last cell of the array
is never one of a value. Not followed: bytes of `stack_info` (names and the mark itself).
A stack created with capacity 0 never grows, popping an empty one reads in front of the array (both left
to the caller), verification complains about every empty stack (`NoFalseAlarm` says so),
and `is_valid` answers true for a corrupted one. With `DEBUG` the poison is an `int` passed as a pointer, which
only a permissive compiler accepts.

### The translator

`Translator` goes through the phases of `main` in their order: `ParseOnStructs`
(`parse`), `OptimizeCmdFlow` (`optimize`), `FillCmdIp` (`place`), `FillJumpLables`
(`link`) and `StartTranslation` (`emit`). The optimiser, the placing and the emission take
one step per pass of their loop: a fold or a merge looks at neighbours that earlier
passes have changed, and the counters are what is proved about. Parsing and linking treat
each command by itself and are one step each.
Then the program runs (`run`): one kept command of the array per step, at the address it
was written to. A command keeps two native addresses, `x86_ip` as counted by
`FillCmdIp` with the size table of `parser.h`, and `pos` as written by the translation
functions. A jump goes by the former, the processor executes what is at the latter.

Numbers are abstract: `Arith`, `Func`, `Trunc`, `Round` and `Shown` (what the processor's `printf`
shows of a number) are constants. Which operand a binary command pops first is left to
the compiler by `cmds.h`, hence the constant `LeftFirst`; the translator has fixed its own
choice and the refinement holds for this one. What the code leaves undefined (a stack read
below its bottom, a jump out of the code, a number used as an address) is the
status `"wild"`.

Input and output are sequences of numbers, one per line. The processor reads and prints doubles;
the routines linked into the translated program (`data/printf.bin`, `data/scanf.bin`,
`write_in_elf.cpp:17`) do not: the one prints the int a number rounds to (`PrintfShows`), the other
makes the first character of what it has read a digit (`ScanfReads`). The latter is an older routine than
`data/asm_sources/scanf.s`, which is not linked: it reads 16 bytes from descriptor 0 and has no loop
over the digits. What they do is taken from their bytes as a constant operator each. A `read` that gets more than one line (input from a file)
and the buffer of either, which lies at a fixed address behind the start of the code, are not modelled.

The refinement mapping shows the guest's registers, memory, input and output as they
are, return addresses on the stack as the guest addresses of the commands behind the
calls, and the guest's instruction pointer as the first command of the group the command at
`rip` has replaced, so the pushes of a folded group are steps of the processor that the
translated program makes at once. `ImplementsProcessor` holds for *safe* programs. Each
of the six conditions of `SafeProgram` names a place where the code departs from the processor:

- `NoRefold`: folding looks at the two commands before an operation, also at one that an
  earlier fold has removed.
- `NoJumpInside`: only the first command of a folded or merged group can be found as a
  jump target.
- `WholeFolds`: a folded constant is an `int`. Operations in a row fold into one constant
  (`FoldsTo`), and what the processor computes up to any of them has to be whole (a quotient by
  zero is not).
- `NoRaxWhenPrinting`: `TranslateOut` overwrites `rax`, which compiled programs use.
- `AllTranslated`: `push num+reg` is dropped, `pop num` becomes a push, and the parser
  stops at commands it does not know.
- `NoSignedJumps`: the opcodes of `jb` and `jbe` are translated as `jg` and `jge`.

And the program has to mean something on its input (`MeansSomething`): the processor never
gets to a state that the translation would not follow it to (`Followed`). Nothing it does is
undefined; only `hlt` stops it, because behind the translated commands there is other code; and
where a register is part of an address, rounding it and cutting it give the same word
(`SameWord`); and it prints and reads only numbers that both sides print and read alike
(`SameText`): 0.5 is printed as 0, 2.5 is read as 2 and 12 as 1.

## 3. The runs

| Run | Shows |
| --- | --- |
| `rv_safe` | every safe padded program of three words from all formats, of four core words, or of two core words and a nop that reads a register: the pipeline implements `RvIsa`, loses nothing on shutdown and keeps executing |
| `rv_last_three` (violation) | straight-line programs without the nops: a result is lost, contrary to the comment in `tests/integration_test.cpp:260` |
| `ls_scan` | no clash, sorted active list, agreement of list, bits and locations, termination |
| `jit_passes` | every order of three of ten passes on straight code, branches, loops, checks, empty blocks and calls: meaning, well-formedness, validity of the order, no check made twice |
| `jit_orders` | all control-flow graphs of five blocks and functions whose values live across branches and loops, with two of the dominator, loop, order, liveness and allocation passes: right trees, exact live ranges, allocated code that computes the same |
| `jit_domtree` (violation) | a graph of six blocks on which the dominator tree is wrong |
| `jit_moves` (violation) | two phis of a loop header of which the second takes the first: allocated code answers differently |
| `leech` | the repository's example programs made small and every main of three instructions, run at once and through a dump cut at every place: the VM implements the text, loads only whole files, resumes callers as they were left, and ends |
| `pl_compile` | programs with nested conditions, declarations in branches, recursion and exchanged arguments, in two ways of writing: parsed as meant, kept on disk, compiled to what they mean; what the printer can write reads back |
| `bt_translate` | about 4300 safe programs: a kept command is found under the guest address it ends at, lies where it was counted to lie, the translated program does what the processor does, and halts when it does |
| `deriv` | about a thousand formulas of up to five operations, some with numbers near 0 and 1, and sums of as many operators as there are phrases and one more, in four builds: parsed as meant, right derivatives and values, the input's tree left alone, no freed or missing node used, the LaTeX shows the tree that was printed |
| `stack` | all eight builds, every sequence of operations on up to five values, one stray byte: a stack as long as it is trusted, which leaves its array only for a size, capacity or pointer that was written, notices every byte but the last of the array at once and reports nothing else |

Bounds. RISC-V: five-bit words (`WordMod = 32`), four registers, so that x0, a
destination and two different sources exist; three or four free words followed by two
nops, so that every stage holds an instruction under test at once and a load, its
user, the user's successor and a writer two places ahead fit; `MemCap = 12`, so that
some address is bad. Linear scan: two registers, two slots, up to five intervals with
ends up to 4: both registers are exhausted, two take-overs empty the list, and the
slots run out.

Translator: numbers are the halves from -4 to 3.5, so that a fold can lose a fraction;
three registers, one of them `rax`; two memory words. Every sequence of up to five
commands that fold and merge (`FoldLen`), so that two folds, a fold with a merge and a
merge next to an operation fit; every sequence of up to four jumps, calls, returns and
their operands (`FlowLen`), so that a loop, a call with its return and a jump over a
group fit, each closed by `hlt`; and three longer programs with input (one digit a line), memory, a call
and a counting loop. Only programs that mean something on the processor are translated
(`MeansSomethingSoon`; `ProgramsAreTranslatable` has TLC check all of the theorem's premises): within
`Fuel` commands they halt or come back to an earlier state, with at most `MaxDepth`
values on the stack and `MaxOut` in the output.

JIT: words of two bits, so that shifts and signs wrap; `MaxPasses = 3` for the
passes, so that one pass prepares, one edits and one relies on what is left, and 2 for the
analyses, which keep to one edit (the linear order) each; five blocks hold every shape of a
branch, a diamond, nested and entangled loops; four pairs of arguments tell every branch
of the functions apart; `Fuel = 12` blocks let each loop come back. Eight registers are enough for every
value of the allocation programs to have its own, because with fewer the scan runs into its
assertion, which `ls_scan` reaches with two. Leech: three instructions are enough for a value, its use and a branch
over either. Language: two functions, two parameters, one of them declared
where it is passed; numbers of two digits so that six digits of `%lg`, scaled to one, can
lose something; the memory of 25 words holds the deepest frame. Derivatives: four
operations are enough for a product inside a difference inside a difference, and a fifth gives
each of them a neighbour; `P = 11` is above the orders of the series and the numbers of the
formulas; `PhraseCount = 27` is the length of the code's table, and sums of 27 and 28 operators
stand on either side of it. Numbers near 0 and 1 are P and P + 1. Stack: capacities 1 and 5 with up to five values grow twice
and shrink twice; a stray byte makes a size or capacity negative, zero, too small or too large (-1, 0, 3, 9), and
the two elements differ from a cell of `calloc` and from a poisoned one in their last byte.

Deadlock is not checked: a run of the pipeline ends with an exception, the
allocation ends with the pass, the passes with their bound, a translated or compiled
program halts, a stack is destroyed. `leech` and `deriv` do check it: their last states stutter.

Fairness. `Pipeline::run` calls `tick` in a loop, `allocateAndAssignRegs` and
`Executor::execute` are loops, the
translator is sequential and the machine executes the program it is given: nothing else
runs and nothing can make them wait, hence `WF_vars(Next)`, and `WF_vars(Execution)` for the
executor, whose start is left to the user.

Further departures of the code, part of the models but of no run of their own. Pipeline:
a load stall makes the held instruction lose its other bypass; a loop whose branch ends
the section is left after one iteration. Translator: an operation folds a removed
command a second time; `out` loses `rax`; out-of-range folds truncate. Scan: after as many take-overs as there are
registers the active list is empty and `ASSERT(spilled)` reads its `back()`.

## 4. The proofs

`RvRefinementProofs` proves `Typing`: `Spec => []TypeOK` for every word size, number of
registers, memory and set of programs that satisfy the named assumptions and every `Alu`
and `Cmp` that return words and Booleans. `TypeOK` is inductive; the proof goes stage
by stage, and the memory access needs that a tick gets past memory only when the
address is not bad. The bound of the shutdown counter needs that a tick that drains throws.

It also proves `ImplementsIsa` and `NothingLeftBehind` for every set of programs
that are all safe (`AllSafe`), of any length, and the same parameters; of `Alu` it needs in
addition that a nop has the result 0 (`NopAssumption`, `alu.h`), because a bubble in memory
offers its result to the bypass of `x0`. Neither property is inductive: what a tick does
to the architecture depends on what all five stages hold. The inductive invariant
`FlightInv`, checked by TLC on the programs of `rv_safe` before it was proved, says that the
pipeline is in one of seven phases and what the stage registers hold in each:

- `Empty` at the start and behind a redirect, when only a jump may be in memory;
  `Fetched(k)` with word k in decode; `Flowing(k)` with k in execute, k + 1 in decode and
  k - 1 or a bubble in memory; `Stalled(k)`, the same while k waits for the load k - 1.
- `LastExecutes`, `LastLeaves` and `Gone`, by the three values of the shutdown counter.

Beyond the words, a phase carries what the bypasses must get right. In `Flowing(k)` the
operands selected for k are those of the register file with memory and write-back
laid over it (`OperandsRight`; `Forwards` proves it of the bypass choice, where
`NoFalseForward` is needed, and `Arrives` for the next word). In `Stalled(k)` the operand that does
not come from the load is in the execute register already (`OperandsWait`), and
`BypassSurvivesStall` keeps the second choice of bypasses from undoing it. There is one
lemma per phase (`FromEmpty` to `FromLastLeaves`); each gives the phase after the tick and that
the tick is a step of `RvIsa` or a stutter. `Executed` is the step itself: the word that
leaves execute changes registers, memory and pc as `RvIsa` does. A tick cut short by an exception
is a stutter or the halt (`CutShort`), and `LeftBehind` reads the property off `Gone`.

The proof corrected the model once: without the last conjunct of `PaddedEnd` the phase after a stall on the
last word but one is not one of the seven, and TLC then found a program that loses a
result with both its nops in place. `rv_safe` has such programs since.

`LinearScanProofs` proves the four safety properties of `ls_scan` and typing for every number of
registers and slots and every sequence in scan order. None is inductive alone: a take-over
gives a register to an interval that the active list does not name, so
what is free, what is listed and what is held are three sets. The inductive
invariant adds that a slot number is below the counter and given once (`SlotsOnce`),
that two overlapping visited intervals never hold the same register and a register
marked free is held by nobody live (`RegistersOnce`), that active intervals hold
different registers (`ActiveHoldRegisters`) and appear once (`ActiveOnce`).
`ExpireLemma` is the key: since begins descend, only a dead phi can make an interval
expire, and then every visit that follows is of a dead phi as well, so the register may be reused.

`TranslatorProofs` proves that labels and code addresses are right, for every assembled
program with `AllTranslated`, of any length, and any numbers and registers, and from this that
the translated program does what the processor does:

- `LabelsCorrect`: `LabelsAgree` always holds if also `NoRefold` does. `LabelsInv` adds that ahead of
  the optimiser nothing is skipped and nothing behind the next command is changed
  (`Ahead`), that a kept command has the bytes of all the commands skipped before it
  (`Groups`), and that the counter of `FillCmdIp` stands at the end of the last kept command
  (`Labels`). A group is described by the last kept command before it (`Gap`), which is
  unique; `NoRefold` is what makes the two members of a fold kept pushes (`FoldsKept`), so
  that their groups are not counted twice.
- `CodeCorrect`: `CodeAgrees` always holds, with `NoRefold` or without. `CodeInv` says that
  the table of `parser.h` agrees with what the translation functions write (`Sizes`; `TableAgrees`
  goes through the commands), that each kept command is placed behind the kept one before it
  (`Chain`, `Counted`), and that `StartTranslation` follows (`Written`).
- `TranslationCorrect`: `ImplementsProcessor` holds for every program and input of `Translatable`, which is
  an assembled `SafeProgram` that means something (so by `SameText` it prints and reads what both sides
  print and read alike), and `LeftFirst`. It holds for any arithmetic, so it does not rest on the
  numbers of the run. It adds two parts to the invariants above (`RunInv`):
  - `StandInv`: what a kept command stands for (`StandsFor`) in every phase. It is the program's
    own (`Single`), a push merged into a pop (`Mov`), or a constant (`Computed`) that the
    processor pushes as well when it executes the commands of the group (`PushesTo`).
    `FoldComputes` is the step for a fold: by `NoRefold` its members are a push and a push
    or an earlier fold, and by `WholeFolds` nothing is lost when the result becomes an `int`.
  - `Following`: while the code runs, some number of commands takes the processor to a state
    that agrees with the machine's (`Follows`): `rip` is at the end of a kept command, `ip` at the end of
    the group, stacks agree but for the addresses calls have left, and registers but for `rax`
    in a program that prints.
- One kept command is simulated by all that it stands for (`CommandFollows`: `SingleFollows`,
  `MovFollows`, `ComputedFollows`). A command by itself does the same to both (`EffectAgrees`) and leads
  both to the same place (`NextAgrees`): a jump goes to a label that opens its group
  (`NoJumpInside`), at the address it was written to (`CodeCorrect`'s invariant). What holds at `hlt`,
  `ret` and undefined commands comes from `MeansSomething`. `Guest` is then the state the
  processor has (`GuestIs`), whichever number of commands `Following` names, and a step of the machine one
  of `StackMachine` (`StepMaps`).

`ProtectedStackProofs` proves all four properties of `stack` from `StackAssumption` alone: for every
set of elements, every `Low`, all capacities above zero, all eight builds, any number of stray
bytes and whatever integers they make of size and capacity. The inductive invariant `IInv` gives the fields their types and
says that the stack is what the last operation left but for at most one byte, in a part that has
been hit (`Touched`). What was left (`LeftInOrder`) has its size below its capacity and that many cells (`Within`)
unless size or capacity were hit; and also then, if the build looks and has seen nothing (`Guarded`),
with the right hashes.

- `OneByteSeen`: of two stacks that differ in one byte both can have the right hashes and whole canaries
  only if the byte is the last one of the array. `Unnoticed` draws from it what verification lets pass.
- `StaysInsideHolds`: growing happens before a push needs the cell (`IncreaseHolds`), halving
  only when the values fit (`DecreaseHolds`), so who leaves the array found a stack that is not `Within`.
- `NoFalseAlarmHolds`: every operation on a clean stack leaves a clean one, hashing last.
- `NoticedAtOnceHolds`: verification comes before resizing, which hashes again (`StepNotices`).
- `ImplementsLifoHolds`: what an operation finds on a trusted stack are the values the last one left
  (`TrustKept`). Resizing keeps the cells below the size, because poison starts behind them
  (`ResizedKeeps`); a push appends to them (`ItemsPushed`), a pop returns and removes the last (`ItemsPopped`),
  verification and a byte nobody sees stutter, and anything else is `Lose`.

`LeechProofs` proves `LoadedWhole` for every set of texts the grammar allows (`CommandsAssumption`,
what `parser.y` and `lLexer.l` let through: lists, natural numbers, tuples that are
not empty) and any `ArgLimit`: however long the file is, in whatever order its hash map lists the
functions and wherever the dump was cut. Parser, writer and reader are folds, and what a fold
computes is an induction over its length with the folded operator as a parameter.
`FoldInduction` takes the operator as its CONSTANT and proves once what a fold holds after each item
(`FoldSteps`); the module instantiates it with each loop of the reader and the writer.

- A reader `q` behind `r` is `RestoredBy(r, w, x, q)`: where `w` lies ahead of `r`, as far as the
  stream goes, `q` has read it and found `x`, or has failed because the stream ends before `w` does;
  and once failed a reader stays so. `ReadBehind` composes two of them, `ManyRestored` repeats one
  as often as a count says; strings, primitives, tuples, meta data and instructions follow,
  and `FileRestored` for the whole file. The order of the functions is a bijection
  (`OrderCovers`), so nothing is put into the map twice or left out (`PutAll`).
- `ParsedIsFile`: what the front end builds is a file in that sense. The instruction a label patches
  lies in the code, or nothing is patched, and arguments stay below `ArgLimit`.
- `FileInv` joins them: what is on disk is the beginning of the parsed file in some order, and what
  runs is the parsed file or its copy, which has lost `argNum`. Loading needs the first half
  and the executor keeps the second, so that `LoadedWhole` holds at every step behind.

`LeechFrameProofs` proves `CallersWait` from the same assumptions: for every text, any depth of
calls and whatever functions and methods do to the objects they share with their callers.
A caller waits with an object on top, and the callee can reach that object through variables,
fields and the heap; so the frames can only be vouched for together with the whole heap.

- `Leads(x, y)`: what a callback makes of a frame is a frame with the same names whose operands
  and variables are values over a heap that has grown, in which every reference leads to an
  object, fields hold values, and no object has lost a method. It is proved of every opcode
  (`LeadsExecute`) from lemmas on pushing, popping and copying; callbacks that pop one or
  two values are of one form each (`LeadsBehind1`, `LeadsBehind2`).
- Taking arguments is a fold, so `FoldInduction` serves again (`TakenFacts`: a call of a function
  leaves no operand behind); `FilledVariables` gives the names their values.
- `FramesInv`: the stack of frames is made of frames of functions of the file, each waiting behind
  the call of the one above. `StackGrows` keeps the waiting ones while the heap grows,
  which is where no method may be lost; `StackFront` and `StackPush` take the frame at work
  off and put one or two back, for an instruction, a call and a return alike. The addresses, names
  and constants it needs are those of the file that runs, which `FileInv` vouches for
  (`RunningFile`): parsed, or loaded from a whole dump.

`LeechSourceProofs` proves `ImplementsHolds`: under `SafeCommand`, every behaviour of the VM, run from
memory or from a dump that was read back, is one of `LeechSource` under the mapping of `LeechVM`. The
program counter and the return addresses of all frames are places in the flat code; the mapping
shows them as so many instructions behind the beginning of a function of the text.

- The front end. `Before` counts the instructions ahead of an entry of a text; each lemma on the parser's
  fold is an invariant of it. Behind `k` entries of a function (`EntryMet`) the code is that of the functions
  before it and `Before(code, k)` instructions more, the labels met map to their places, and a
  branch that waits is in the code at the place the table of forward branches names; the label patches exactly
  that one (`LabelMet`). `FileRight` collects what is left of that when the text ends (`ParsedRight`): functions
  lie one behind the other, an instruction is the entry it came from, a branch carries the place
  of its label. The copy that disk makes of the file has it too, but for `argNum` (`CopiedRight`).
- The calls. `CallsOf(frames, pc, file)` is the mapping as a function of the three, so that it can be
  taken apart: a frame pushed is a call appended (`CallPushed`), and the calls below the last do not
  depend on the counter (`CallsSplit`).
- The invariant `SourceInv` is `FileInv` and `FramesInv` with `PlacesInv`: every call of the mapping stands at
  an instruction of its function. That the file which runs is `FileRight` follows (`RunningRight`).
  The last entry of a function leaves it, so the instruction behind any other one is in
  the same function (`NextPlace`), and a branch leads to a place in it (`BranchPlace`, `PlaceBelow`).
- One lemma per action: `RunSimulated`, `StepSimulated`, `CallSimulated`, `ReturnSimulated`, `ThrowSimulated`. They rest on
  `EntrySame` (the instruction at the counter is the entry of the text but for the argument of a
  branch), `ExecuteSame` and `CallSame` (callbacks read neither that argument nor the address or,
  for a function, `argNum`). What a thrown instruction is in the VM is `Stuck` in the text.

Only model-checked: everything about the JIT's graph, the language and the derivatives, which is
recursive, and the liveness properties `KeepsExecuting`, `AllPlaced`, `HaltsToo` and `Ends`, which are beyond the
prover.

## 5. Plan

1. Byte and half-word accesses of the data memory; the processor's operand stack of two cells.
2. The load screen's controller, if its curves are abstracted to when a spiral leaves the screen.

Not modelled: instruction encodings and ELF headers, characters of source texts (words and tokens
are the alphabet), DOT graphs, logs and plots, malformed programs on which the
front end does not return, arena and bump allocators, the third-party `TXLib.h`, the load screen
(floating-point curves around one flag per spiral) and the Mandelbrot viewer.
