------------------------------- MODULE MCStack -------------------------------
EXTENDS ProtectedStack

CONSTANTS a, b

\* Two pointers that differ from a cell of calloc and from a poisoned one in their last byte.
MCElements == {a, b}
MCLow(cell) == CASE cell = a -> "zero" [] cell = b -> "poison" [] OTHER -> cell
MCStraySizes == {-1, 0, 3, 9}
=============================================================================
