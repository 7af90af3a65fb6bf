------------------------------- MODULE MCMessages -------------------------------
(***************************************************************************)
(* Messages for TLC: lengths at their bounds and beyond.                    *)
(***************************************************************************)
EXTENDS Messages

Boundary == {0, 1, 58, 485, 486, 487, 947, 948, 957, 958, 959}
===============================================================================
