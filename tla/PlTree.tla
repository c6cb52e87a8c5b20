------------------------------- MODULE PlTree -------------------------------
(***************************************************************************)
(* The syntax trees of ProgrammingLanguage, which its front end and its    *)
(* back end build (utils/tree.cpp, params.h), and their tokens.  A missing *)
(* child is Nil.                                                           *)
(***************************************************************************)
EXTENDS Integers, Sequences

CONSTANT Lg(_)              \* a number printed with %lg, six digits, and read again

\* The kinds of a token and of a node; SPEC_T is never made.
NUM_T        == "num"
VAR_T        == "var"
OP_T         == "op"
NAME_T       == "name"
NAME_SHORT_T == "call name"

Nil == [type |-> "nil", op |-> "", num |-> 0, name |-> <<>>, kids |-> <<>>]

CreateNode(type, dbl_val, op_val, var_name, left, right) ==
    [type |-> type, op |-> op_val, num |-> dbl_val, name |-> var_name, kids |-> <<left, right>>]

DIGIT_NODE(n)          == CreateNode(NUM_T, n, "", <<>>, Nil, Nil)
VAR_NODE(x)            == CreateNode(VAR_T, 0, "", x, Nil, Nil)
OP_NODE(op, l, r)      == CreateNode(OP_T, 0, op, <<>>, l, r)
NAME_NODE(x, l, r)     == CreateNode(NAME_T, 0, "", x, l, r)

IsNil(n) == n.type = "nil"
left(n)  == n.kids[1]
right(n) == n.kids[2]

(***************************************************************************)
(* A token is a number, a name or an operation.  The parsers read op_val   *)
(* of any token; what they find there in a number or in the address of a   *)
(* name is no operation of the language.                                   *)
(***************************************************************************)
NumToken(n) == [type |-> NUM_T, op |-> "UNKNOWN", num |-> n, name |-> <<>>]
VarToken(x) == [type |-> VAR_T, op |-> "UNKNOWN", num |-> 0, name |-> x]
OpToken(op) == [type |-> OP_T, op |-> op, num |-> 0, name |-> <<>>]

Comparisons == {"EQ", "IS_EE", "IS_GE", "IS_BE", "IS_GT", "IS_BT", "IS_NE"}
=============================================================================
