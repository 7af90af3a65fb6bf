--------------------------------- MODULE Archive ---------------------------------
(***************************************************************************)
(* What the server promises of its directory: a file is begun once, it is  *)
(* filled piece by piece with one original, it is announced in the step     *)
(* that completes it, and from then on it never changes.                   *)
(***************************************************************************)
EXTENDS Naturals, Sequences

CONSTANTS
  Names,      \* names of files
  Originals,  \* what files are filled with: sequences of pieces
  Kept,       \* the files that are there from the beginning
  None        \* no file

VARIABLES
  files,     \* the content of each name, or None
  announced  \* the names announced

vars == <<files, announced>>

Init ==
  /\ files = [name \in Names |-> IF name \in DOMAIN Kept THEN Kept[name] ELSE None]
  /\ announced = {}

Begin(name) ==
  /\ files[name] = None
  /\ files' = [files EXCEPT ![name] = <<>>]
  /\ UNCHANGED announced

Open(name) == name \notin DOMAIN Kept \union announced

\* The next piece is put behind the first n; with the last one the file is announced.
Fill(name, original, n) ==
  /\ Open(name)
  /\ files[name] = SubSeq(original, 1, n)
  /\ files' = [files EXCEPT ![name] = SubSeq(original, 1, n + 1)]
  /\ announced' = IF n + 1 = Len(original) THEN announced \union {name} ELSE announced

\* An empty original has no piece.
FillNothing(name) ==
  /\ Open(name)
  /\ <<>> \in Originals
  /\ files[name] = <<>>
  /\ announced' = announced \union {name}
  /\ UNCHANGED files

Next ==
  \E name \in Names :
    \/ Begin(name)
    \/ \E original \in Originals : \E n \in 0..(Len(original) - 1) : Fill(name, original, n)
    \/ FillNothing(name)

Spec == Init /\ [][Next]_vars
================================================================================
