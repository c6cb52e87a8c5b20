---------------------------- MODULE MCLinearScan ----------------------------
EXTENDS LinearScan

CONSTANTS MaxEnd, MaxLen

(***************************************************************************)
(* Every sequence in scan order of at most MaxLen hulls ending by MaxEnd.  *)
(***************************************************************************)
SmallHull == {h \in [begin : 0..MaxEnd - 1, end : 0..MaxEnd] :
                 Dead(h) \/ (0 < h.begin /\ h.begin < h.end)}

MCHulls == {s \in UNION {[1..n -> SmallHull] : n \in 0..MaxLen} : ScanOrder(s)}

=============================================================================
