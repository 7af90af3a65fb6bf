----------------------------- MODULE MCServerFiles -----------------------------
(***************************************************************************)
(* Small instances of ServerFiles for TLC.                                  *)
(***************************************************************************)
EXTENDS ServerFiles, TLC

CONSTANTS a, b  \* uploaders

\* With chunks of 2: a last chunk that is short, and several whole ones.
Lengths == (a :> 3) @@ (b :> 4)

Interchangeable == Permutations(Downloaders) \union Permutations(Names)
===============================================================================
