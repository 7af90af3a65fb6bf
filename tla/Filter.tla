--------------------------------- MODULE Filter ---------------------------------
(***************************************************************************)
(* Sequences with some of their places left out.                            *)
(***************************************************************************)
EXTENDS Naturals, Sequences

\* The numbers of S from 1 to n in ascending order.
Ascending(S, n) ==
  LET order[i \in Nat] ==
        IF i = 0 THEN <<>>
        ELSE IF i \in S THEN Append(order[i - 1], i) ELSE order[i - 1]
  IN  order[n]

\* What remains of a sequence without some values.
Without(s, values) ==
  LET order == Ascending({i \in DOMAIN s : s[i] \notin values}, Len(s))
  IN  [n \in 1..Len(order) |-> s[order[n]]]
===============================================================================
