----------------------------- MODULE RvDatapath -----------------------------
(***************************************************************************)
(* The arithmetic of modules/alu.h and modules/cmp.h on words of WordMod   *)
(* values.  A word is unsigned; Signed reads it as two's complement.       *)
(* WordMod is 2^Width, and a shift uses the amount modulo Width.           *)
(***************************************************************************)
EXTENDS Integers

CONSTANTS WordMod, Width

Signed(a) == IF 2 * a >= WordMod THEN a - WordMod ELSE a
Flag(b) == IF b THEN 1 ELSE 0
Bit(a, k) == (a \div 2^k) % 2

\* A word from the value of each of its bits.
FromBits(bit) ==
    LET sum[k \in 0 .. Width] == IF k = 0 THEN 0 ELSE sum[k - 1] + bit[k - 1] * 2^(k - 1)
    IN  sum[Width]

Bits == 0 .. Width - 1

AluOf(op, a, b) ==
    LET shift == b % Width IN
    CASE op = "NOP" -> 0
      [] op = "ADD" -> (a + b) % WordMod
      [] op = "SUB" -> (a - b) % WordMod
      [] op = "AND" -> FromBits([k \in Bits |-> Bit(a, k) * Bit(b, k)])
      [] op = "OR"  -> FromBits([k \in Bits |-> Flag(Bit(a, k) + Bit(b, k) > 0)])
      [] op = "XOR" -> FromBits([k \in Bits |-> (Bit(a, k) + Bit(b, k)) % 2])
      [] op = "SLL" -> (a * 2^shift) % WordMod
      [] op = "SRL" -> a \div 2^shift
      [] op = "SRA" -> (Signed(a) \div 2^shift) % WordMod
      [] op = "SLT" -> Flag(Signed(a) < Signed(b))
      [] op = "SLTU" -> Flag(a < b)

\* Cmp compares word_ values, so LT and GE are the unsigned comparisons too.
CmpOf(op, a, b) ==
    CASE op = "NOP" -> FALSE
      [] op = "EQ" -> a = b
      [] op = "NE" -> a # b
      [] op \in {"LT", "LTU"} -> a < b
      [] op \in {"GE", "GEU"} -> a >= b
============================================================================
