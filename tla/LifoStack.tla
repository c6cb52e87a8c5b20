------------------------------ MODULE LifoStack ------------------------------
(* A stack: values come back in the opposite order.  It may be lost for good. *)
EXTENDS Naturals, Sequences

CONSTANTS Elements, None
VARIABLES items, popped, lost

Init == items = <<>> /\ popped = None /\ lost = FALSE
Push(v) == ~lost /\ items' = Append(items, v) /\ UNCHANGED <<popped, lost>>
Pop == ~lost /\ items # <<>> /\ popped' = items[Len(items)] /\ items' = SubSeq(items, 1, Len(items) - 1) /\ UNCHANGED lost
Lose == lost' = TRUE /\ items' = <<>> /\ popped' = None
Next == (\E v \in Elements : Push(v)) \/ Pop \/ Lose
Spec == Init /\ [][Next]_<<items, popped, lost>>
=============================================================================
