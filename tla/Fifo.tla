---------------------------------- MODULE Fifo ----------------------------------
(***************************************************************************)
(* What a connection promises for messages in one direction: those that    *)
(* come out are those that went in, in the same order.                     *)
(***************************************************************************)
EXTENDS Naturals, Sequences

VARIABLES
  input,  \* the messages written so far
  output  \* the messages read so far

vars == <<input, output>>

Init ==
  /\ input = <<>>
  /\ output = <<>>

\* Some message is added at the end.
Write ==
  /\ input' # <<>>
  /\ input' = Append(input, input'[Len(input')])
  /\ UNCHANGED output

Read ==
  /\ Len(output) < Len(input)
  /\ output' = Append(output, input[Len(output) + 1])
  /\ UNCHANGED input

Next == Write \/ Read

Spec == Init /\ [][Next]_vars
===============================================================================
