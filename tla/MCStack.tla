------------------------------ MODULE MCStack ------------------------------
(***************************************************************************)
(* The instance of Stack for TLC: memory for three entries, two strings.   *)
(***************************************************************************)
EXTENDS Stack

CONSTANTS t1, n1, n2, n3, v1, v2

OneThread == {t1}
ThreeNodes == {n1, n2, n3}
TwoValues == {v1, v2}
=============================================================================
