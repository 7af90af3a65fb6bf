-------------------------------- MODULE MCScanner --------------------------------
(***************************************************************************)
(* Small instances of Scanner for TLC: a length field of two bytes.         *)
(***************************************************************************)
EXTENDS Scanner

\* Short, exactly as long as the cap, and one byte and two bytes too long.
Lengths == {3, 6, 7, 8}
===============================================================================
