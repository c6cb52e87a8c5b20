---------------------------- MODULE StackMachine ----------------------------
(***************************************************************************)
(* The stack processor as the specification that translated code has to    *)
(* implement.  A step executes one command, or the few in a row that       *)
(* translated code does the work of at once.                               *)
(***************************************************************************)
EXTENDS StackCode

VARIABLES program, input, state

Init == state = Started(input)

Next == /\ \E n \in 1..Len(program) : state' = Run(program, state, n)
        /\ UNCHANGED <<program, input>>

Spec == Init /\ [][Next]_<<program, input, state>>
=============================================================================
