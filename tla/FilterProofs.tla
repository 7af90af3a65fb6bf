------------------------------ MODULE FilterProofs ------------------------------
(***************************************************************************)
(* Lemmas about Filter, by induction over natural numbers, which is stated  *)
(* for sets of numbers: T = Nat if 0 is in T and n + 1 whenever n is.       *)
(***************************************************************************)
EXTENDS Filter, SequenceTheorems, WellFoundedInduction, TLAPS

(* Numbers *)

\* A set of numbers that is not empty has a least one.
LEMMA Least ==
  ASSUME NEW T \in SUBSET Nat, T # {}
  PROVE  \E n \in T : \A m \in T : n <= m
<1> DEFINE R == OpToRel(<, Nat)
<1>1. IsWellFoundedOn(R, Nat)
  BY NatLessThanWellFounded
<1>2. R = {p \in Nat \X Nat : p[1] < p[2]}
  BY DEF OpToRel
<1> HIDE DEF R
<1>3. PICK n \in T : \A m \in T : ~(<<m, n>> \in R)
  BY <1>1, WFMin
<1>4. \A m \in T : n <= m
  <2> SUFFICES ASSUME NEW m \in T
               PROVE  n <= m
    OBVIOUS
  <2>1. <<m, n>> \notin R /\ m \in Nat /\ n \in Nat
    BY <1>3
  <2>2. ~(m < n)
    BY <2>1, <1>2
  <2> QED BY <2>1, <2>2
<1> QED BY <1>4

\* Induction: a set of numbers that has 0 and every successor has all.
LEMMA Induct ==
  ASSUME NEW T \in SUBSET Nat, 0 \in T, \A n \in T : n + 1 \in T
  PROVE  T = Nat
<1> SUFFICES ASSUME Nat \ T # {}
             PROVE  FALSE
  OBVIOUS
<1>1. PICK n \in Nat \ T : \A m \in Nat \ T : n <= m
  BY Least
<1>2. n # 0 /\ n - 1 \in Nat /\ n - 1 \notin Nat \ T
  BY <1>1
<1>3. (n - 1) + 1 = n
  BY <1>2
<1> QED BY <1>1, <1>2, <1>3

\* A bounded set of numbers that is not empty has a greatest one.
LEMMA Greatest ==
  ASSUME NEW T \in SUBSET Nat, T # {}, NEW bound \in Nat, \A n \in T : n <= bound
  PROVE  \E n \in T : \A m \in T : n >= m
<1> DEFINE U == {bound - n : n \in T}
<1>1. U \in SUBSET Nat /\ U # {}
  <2>1. \A n \in T : bound - n \in Nat
    OBVIOUS
  <2>2. U # {}
    OBVIOUS
  <2> QED BY <2>1, <2>2
<1>2. PICK u \in U : \A m \in U : u <= m
  BY <1>1, Least
<1>3. PICK n \in T : u = bound - n
  BY <1>2
<1>4. \A m \in T : n >= m
  <2> SUFFICES ASSUME NEW m \in T
               PROVE  n >= m
    OBVIOUS
  <2>1. u <= bound - m
    BY <1>2
  <2> QED BY <2>1, <1>3
<1> QED BY <1>4

(* Ascending *)

\* The function that Ascending is defined by.
Order(S) ==
  CHOOSE order : order = [i \in Nat |->
    IF i = 0 THEN <<>>
    ELSE IF i \in S THEN Append(order[i - 1], i) ELSE order[i - 1]]

\* Ascending is the function Order at n.
LEMMA AscendingIsOrder ==
  ASSUME NEW S, NEW n
  PROVE  Ascending(S, n) = Order(S)[n]
BY DEF Ascending, Order

\* The beginning of it, up to n.
Begun(S, n) ==
  {f \in [0..n -> Seq(Nat)] :
     /\ f[0] = <<>>
     /\ \A i \in 1..n : f[i] = IF i \in S THEN Append(f[i - 1], i) ELSE f[i - 1]}

\* There is one beginning of that function at most for each number...
LEMMA BegunIsUnique ==
  ASSUME NEW S, NEW n \in Nat, NEW m \in Nat, NEW f \in Begun(S, n), NEW g \in Begun(S, m)
  PROVE  \A i \in 0..n : i \in 0..m => f[i] = g[i]
<1> DEFINE T == {i \in Nat : i <= n /\ i <= m => f[i] = g[i]}
<1>0. /\ f[0] = <<>> /\ g[0] = <<>>
      /\ \A i \in 1..n : f[i] = IF i \in S THEN Append(f[i - 1], i) ELSE f[i - 1]
      /\ \A i \in 1..m : g[i] = IF i \in S THEN Append(g[i - 1], i) ELSE g[i - 1]
  BY DEF Begun
<1>1. 0 \in T
  BY <1>0
<1>2. ASSUME NEW i \in T
      PROVE  i + 1 \in T
  <2> SUFFICES ASSUME i + 1 <= n /\ i + 1 <= m
               PROVE  f[i + 1] = g[i + 1]
    OBVIOUS
  <2>1. f[i] = g[i]
    OBVIOUS
  <2>2. i + 1 \in 1..n /\ i + 1 \in 1..m /\ i + 1 - 1 = i
    OBVIOUS
  <2>3. /\ f[i + 1] = IF i + 1 \in S THEN Append(f[i], i + 1) ELSE f[i]
        /\ g[i + 1] = IF i + 1 \in S THEN Append(g[i], i + 1) ELSE g[i]
    BY <1>0, <2>2
  <2> QED BY <2>1, <2>3
<1> HIDE DEF T
<1>3. T = Nat
  BY <1>1, <1>2, Induct DEF T
<1> QED BY <1>3 DEF T

\* ... and one at least.
LEMMA BegunExists ==
  ASSUME NEW S
  PROVE  \A n \in Nat : Begun(S, n) # {}
<1> DEFINE T == {n \in Nat : Begun(S, n) # {}}
<1>1. 0 \in T
  <2>1. [i \in 0..0 |-> <<>>] \in Begun(S, 0)
    BY DEF Begun
  <2> QED BY <2>1
<1>2. ASSUME NEW n \in T
      PROVE  n + 1 \in T
  <2>1. PICK f : f \in Begun(S, n)
    OBVIOUS
  <2> DEFINE g == [i \in 0..(n + 1) |->
                     IF i <= n THEN f[i] ELSE IF i \in S THEN Append(f[n], i) ELSE f[n]]
  <2>2. f \in [0..n -> Seq(Nat)] /\ f[0] = <<>>
    BY <2>1 DEF Begun
  <2>3. g \in [0..(n + 1) -> Seq(Nat)]
    <3> SUFFICES ASSUME NEW i \in 0..(n + 1)
                 PROVE  g[i] \in Seq(Nat)
      OBVIOUS
    <3>1. f[n] \in Seq(Nat) /\ (i <= n => f[i] \in Seq(Nat)) /\ i \in Nat
      BY <2>2
    <3> QED BY <3>1
  <2>4. g[0] = <<>>
    BY <2>2
  <2>5. \A i \in 1..(n + 1) : g[i] = IF i \in S THEN Append(g[i - 1], i) ELSE g[i - 1]
    <3> SUFFICES ASSUME NEW i \in 1..(n + 1)
                 PROVE  g[i] = IF i \in S THEN Append(g[i - 1], i) ELSE g[i - 1]
      OBVIOUS
    <3>1. g[i - 1] = f[i - 1]
      OBVIOUS
    <3>2. CASE i \in 1..n
      <4>1. f[i] = IF i \in S THEN Append(f[i - 1], i) ELSE f[i - 1]
        BY <2>1, <3>2 DEF Begun
      <4>2. g[i] = f[i]
        BY <3>2
      <4> HIDE DEF g
      <4> QED BY <3>1, <4>1, <4>2
    <3>3. CASE i = n + 1
      <4>1. g[i] = IF i \in S THEN Append(f[n], i) ELSE f[n]
        BY <3>3
      <4>2. i - 1 = n
        BY <3>3
      <4> HIDE DEF g
      <4> QED BY <3>1, <4>1, <4>2
    <3> QED BY <3>2, <3>3
  <2> HIDE DEF g
  <2>6. g \in Begun(S, n + 1)
    BY <2>3, <2>4, <2>5 DEF Begun
  <2> QED BY <2>6
<1> HIDE DEF T
<1>3. T = Nat
  BY <1>1, <1>2, Induct DEF T
<1> QED BY <1>3 DEF T

\* The recursive definition has a solution, so that Order(S) is one.
LEMMA OrderEquation ==
  ASSUME NEW S
  PROVE  Order(S) = [i \in Nat |->
           IF i = 0 THEN <<>>
           ELSE IF i \in S THEN Append(Order(S)[i - 1], i) ELSE Order(S)[i - 1]]
<1> DEFINE B(n) == CHOOSE f : f \in Begun(S, n)
           order == [n \in Nat |-> B(n)[n]]
<1>1. \A n \in Nat : B(n) \in Begun(S, n)
  BY BegunExists
<1> HIDE DEF B
<1>2. order[0] = <<>>
  BY <1>1 DEF Begun
<1>3. ASSUME NEW n \in Nat, n # 0
      PROVE  order[n] = IF n \in S THEN Append(order[n - 1], n) ELSE order[n - 1]
  <2>1. n - 1 \in Nat /\ n \in 1..n /\ n - 1 \in 0..n /\ n - 1 \in 0..(n - 1)
    BY <1>3
  <2>2. B(n)[n] = IF n \in S THEN Append(B(n)[n - 1], n) ELSE B(n)[n - 1]
    BY <1>1, <2>1 DEF Begun
  <2>3. B(n)[n - 1] = B(n - 1)[n - 1]
    BY <1>1, <2>1, BegunIsUnique
  <2> QED BY <2>1, <2>2, <2>3
<1>4. order = [i \in Nat |->
        IF i = 0 THEN <<>>
        ELSE IF i \in S THEN Append(order[i - 1], i) ELSE order[i - 1]]
  <2> DEFINE f(i) == IF i = 0 THEN <<>>
                     ELSE IF i \in S THEN Append(order[i - 1], i) ELSE order[i - 1]
  <2>1. \A i \in Nat : order[i] = f(i)
    <3> HIDE DEF order
    <3> QED BY <1>2, <1>3
  <2> HIDE DEF f
  <2>2. order = [i \in Nat |-> f(i)]
    BY <2>1
  <2> QED BY <2>2 DEF f
<1> HIDE DEF order
<1> QED BY <1>4 DEF Order

\* The numbers up to n + 1 are those up to n and perhaps n + 1.
LEMMA AscendingStep ==
  ASSUME NEW S
  PROVE  /\ Ascending(S, 0) = <<>>
         /\ \A n \in Nat : Ascending(S, n + 1) = IF n + 1 \in S THEN Append(Ascending(S, n), n + 1)
                                                               ELSE Ascending(S, n)
<1> DEFINE f == Order(S)
<1>1. f = [i \in Nat |-> IF i = 0 THEN <<>>
                         ELSE IF i \in S THEN Append(f[i - 1], i) ELSE f[i - 1]]
  BY OrderEquation
<1> HIDE DEF f
<1>0. \A i \in Nat : f[i] = IF i = 0 THEN <<>>
                          ELSE IF i \in S THEN Append(f[i - 1], i) ELSE f[i - 1]
  <2> DEFINE g(i) == IF i = 0 THEN <<>>
                     ELSE IF i \in S THEN Append(f[i - 1], i) ELSE f[i - 1]
  <2>1. f = [i \in Nat |-> g(i)]
    BY <1>1
  <2> HIDE DEF g
  <2>2. \A i \in Nat : f[i] = g(i)
    BY <2>1
  <2> QED BY <2>2 DEF g
<1>2. \A n : Ascending(S, n) = f[n]
  BY AscendingIsOrder DEF f
<1>3. f[0] = <<>>
  BY <1>0
<1>4. ASSUME NEW n \in Nat
      PROVE  f[n + 1] = IF n + 1 \in S THEN Append(f[n], n + 1) ELSE f[n]
  <2>1. n + 1 \in Nat /\ n + 1 # 0 /\ n + 1 - 1 = n
    OBVIOUS
  <2> QED BY <1>0, <2>1
<1> QED BY <1>2, <1>3, <1>4

\* They are numbers of S up to n, each greater than the one before it.
LEMMA AscendingRange ==
  ASSUME NEW S
  PROVE  \A n \in Nat :
           /\ Ascending(S, n) \in Seq(Nat)
           /\ \A k \in 1..Len(Ascending(S, n)) : Ascending(S, n)[k] \in S /\ Ascending(S, n)[k] \in 1..n
           /\ \A j, k \in 1..Len(Ascending(S, n)) : j < k => Ascending(S, n)[j] < Ascending(S, n)[k]
<1> DEFINE A(n) == Ascending(S, n)
           P(n) == /\ A(n) \in Seq(Nat)
                   /\ \A k \in 1..Len(A(n)) : A(n)[k] \in S /\ A(n)[k] \in 1..n
                   /\ \A j, k \in 1..Len(A(n)) : j < k => A(n)[j] < A(n)[k]
           T == {n \in Nat : P(n)}
<1>0. A(0) = <<>> /\ \A n \in Nat : A(n + 1) = IF n + 1 \in S THEN Append(A(n), n + 1) ELSE A(n)
  BY AscendingStep
<1> HIDE DEF A
<1>1. 0 \in T
  <2> DEFINE a == A(0)
  <2>1. a = <<>>
    BY <1>0
  <2> HIDE DEF a
  <2>2. a \in Seq(Nat) /\ Len(a) = 0
    BY <2>1
  <2>3. P(0)
    BY <2>2 DEF a
  <2> QED BY <2>3
<1>2. ASSUME NEW n \in T
      PROVE  n + 1 \in T
  <2>0. P(n) /\ n \in Nat /\ n + 1 \in Nat /\ \A i \in 1..n : i \in 1..(n + 1) /\ i < n + 1
    OBVIOUS
  <2> SUFFICES P(n + 1)
    BY <2>0
  <2>1. CASE n + 1 \in S
    <3>1. A(n + 1) = Append(A(n), n + 1)
      BY <1>0, <2>0, <2>1
    <3>2. /\ A(n + 1) \in Seq(Nat) /\ Len(A(n + 1)) = Len(A(n)) + 1 /\ Len(A(n)) \in Nat
          /\ \A k \in 1..Len(A(n)) : A(n + 1)[k] = A(n)[k]
          /\ A(n + 1)[Len(A(n)) + 1] = n + 1
      <4> DEFINE a == A(n)
                 m == n + 1
      <4>1. a \in Seq(Nat) /\ m \in Nat
        BY <2>0
      <4>2. A(n + 1) = Append(a, m)
        BY <3>1
      <4> HIDE DEF a, m
      <4>3. /\ Append(a, m) \in Seq(Nat) /\ Len(Append(a, m)) = Len(a) + 1 /\ Len(a) \in Nat
            /\ \A k \in 1..Len(a) : Append(a, m)[k] = a[k]
            /\ Append(a, m)[Len(a) + 1] = m
        BY <4>1, AppendProperties, LenProperties
      <4> DEFINE b == Append(a, m)
      <4> HIDE DEF b
      <4>4. /\ b \in Seq(Nat) /\ Len(b) = Len(a) + 1 /\ Len(a) \in Nat
            /\ \A k \in 1..Len(a) : b[k] = a[k]
            /\ b[Len(a) + 1] = m
        BY <4>3 DEF b
      <4>5. A(n + 1) = b
        BY <4>2 DEF b
      <4> QED BY <4>4, <4>5 DEF a, m
    <3>3. \A k \in 1..Len(A(n + 1)) : k \in 1..Len(A(n)) \/ k = Len(A(n)) + 1
      BY <3>2
    <3>4. \A k \in 1..Len(A(n + 1)) : A(n + 1)[k] \in S /\ A(n + 1)[k] \in 1..(n + 1)
      BY <2>0, <2>1, <3>2, <3>3
    <3>5. ASSUME NEW j \in 1..Len(A(n + 1)), NEW k \in 1..Len(A(n + 1)), j < k
          PROVE  A(n + 1)[j] < A(n + 1)[k]
      <4>1. j \in 1..Len(A(n))
        BY <3>2, <3>5
      <4>2. CASE k \in 1..Len(A(n))
        BY <4>1, <4>2, <3>2, <3>5, <2>0
      <4>3. CASE k = Len(A(n)) + 1
        <5>1. A(n)[j] \in 1..n
          BY <4>1, <2>0
        <5> QED BY <4>1, <4>3, <3>2, <5>1, <2>0
      <4> QED BY <4>2, <4>3, <3>3
    <3> QED BY <3>2, <3>4, <3>5
  <2>2. CASE n + 1 \notin S
    BY <1>0, <2>0, <2>2
  <2> QED BY <2>1, <2>2
<1> HIDE DEF T
<1>3. T = Nat
  BY <1>1, <1>2, Induct DEF T
<1> QED BY <1>3 DEF T, A

\* Only the members of S up to n count.
LEMMA AscendingSame ==
  ASSUME NEW S, NEW U, NEW m \in Nat, \A i \in 1..m : i \in S <=> i \in U
  PROVE  Ascending(S, m) = Ascending(U, m)
<1> DEFINE A(n) == Ascending(S, n)
           B(n) == Ascending(U, n)
           T == {n \in Nat : n <= m => A(n) = B(n)}
<1>0. /\ A(0) = <<>> /\ \A n \in Nat : A(n + 1) = IF n + 1 \in S THEN Append(A(n), n + 1) ELSE A(n)
      /\ B(0) = <<>> /\ \A n \in Nat : B(n + 1) = IF n + 1 \in U THEN Append(B(n), n + 1) ELSE B(n)
  BY AscendingStep
<1> HIDE DEF A, B
<1>1. 0 \in T
  BY <1>0
<1>2. ASSUME NEW n \in T
      PROVE  n + 1 \in T
  <2> SUFFICES ASSUME n + 1 <= m
               PROVE  A(n + 1) = B(n + 1)
    OBVIOUS
  <2>1. A(n) = B(n) /\ n + 1 \in 1..m /\ n \in Nat
    OBVIOUS
  <2> QED BY <2>1, <1>0
<1> HIDE DEF T
<1>3. T = Nat
  BY <1>1, <1>2, Induct DEF T
<1> QED BY <1>3 DEF T, A, B

\* One number more to choose from.
LEMMA AscendingMore ==
  ASSUME NEW S, NEW U, NEW n \in Nat, \A i \in 1..n : i \in S <=> i \in U
  PROVE  Ascending(U, n + 1) = IF n + 1 \in U THEN Append(Ascending(S, n), n + 1) ELSE Ascending(S, n)
<1>1. Ascending(S, n) = Ascending(U, n)
  BY AscendingSame
<1> QED BY <1>1, AscendingStep

\* None of them is missing.
LEMMA AscendingAll ==
  ASSUME NEW S
  PROVE  \A n \in Nat : \A i \in 1..n :
           i \in S => \E k \in 1..Len(Ascending(S, n)) : Ascending(S, n)[k] = i
<1> DEFINE A(n) == Ascending(S, n)
           P(n) == \A i \in 1..n : i \in S => \E k \in 1..Len(A(n)) : A(n)[k] = i
           T == {n \in Nat : P(n)}
<1>0. \A n \in Nat : A(n + 1) = IF n + 1 \in S THEN Append(A(n), n + 1) ELSE A(n)
  BY AscendingStep
<1>1. \A n \in Nat : A(n) \in Seq(Nat)
  BY AscendingRange
<1> HIDE DEF A
<1>2. 0 \in T
  OBVIOUS
<1>3. ASSUME NEW n \in T
      PROVE  n + 1 \in T
  <2>1. P(n) /\ n \in Nat
    OBVIOUS
  <2> SUFFICES ASSUME NEW i \in 1..(n + 1), i \in S
               PROVE  \E k \in 1..Len(A(n + 1)) : A(n + 1)[k] = i
    OBVIOUS
  <2> DEFINE a == A(n)
             b == A(n + 1)
  <2>2. a \in Seq(Nat) /\ (n + 1 \in S => b = Append(a, n + 1)) /\ (n + 1 \notin S => b = a)
    BY <1>0, <1>1, <2>1
  <2>3. i \in 1..n => \E k \in 1..Len(a) : a[k] = i
    BY <2>1
  <2> HIDE DEF a, b
  <2>4. CASE n + 1 \in S
    <3>1. /\ Len(b) = Len(a) + 1 /\ Len(a) \in Nat
          /\ \A k \in 1..Len(a) : b[k] = a[k]
          /\ b[Len(a) + 1] = n + 1
      BY <2>1, <2>2, <2>4, AppendProperties, LenProperties
    <3>2. CASE i \in 1..n
      <4>1. PICK k \in 1..Len(a) : a[k] = i
        BY <2>3, <3>2
      <4>2. k \in 1..Len(b) /\ b[k] = i
        BY <3>1, <4>1
      <4> QED BY <4>2 DEF b
    <3>3. CASE i = n + 1
      <4>1. Len(a) + 1 \in 1..Len(b) /\ b[Len(a) + 1] = i
        BY <3>1, <3>3
      <4> QED BY <4>1 DEF b
    <3> QED BY <2>1, <3>2, <3>3
  <2>5. CASE n + 1 \notin S
    <3>1. i \in 1..n
      BY <2>1, <2>5
    <3>2. b = a
      BY <2>2, <2>5
    <3> QED BY <2>3, <3>1, <3>2 DEF b
  <2> QED BY <2>4, <2>5
<1> HIDE DEF T
<1>4. T = Nat
  BY <1>2, <1>3, Induct DEF T
<1> QED BY <1>4 DEF T, A

(* Without *)

LEMMA WithoutEmpty ==
  ASSUME NEW values
  PROVE  Without(<<>>, values) = <<>>
<1>1. Ascending({i \in DOMAIN <<>> : <<>>[i] \notin values}, 0) = <<>>
  BY AscendingStep
<1>2. Len(<<>>) = 0
  OBVIOUS
<1>3. [n \in 1..0 |-> <<>>[<<>>[n]]] = <<>>
  OBVIOUS
<1> QED BY <1>1, <1>2, <1>3 DEF Without

\* What is left out is left out.
LEMMA WithoutRange ==
  ASSUME NEW X, NEW s \in Seq(X), NEW values
  PROVE  Without(s, values) \in Seq(X \ values)
<1> DEFINE S == {i \in DOMAIN s : s[i] \notin values}
           order == Ascending(S, Len(s))
<1>1. order \in Seq(Nat) /\ \A k \in 1..Len(order) : order[k] \in S
  <2>1. Len(s) \in Nat
    OBVIOUS
  <2> HIDE DEF S
  <2> QED BY <2>1, AscendingRange
<1>2. \A i \in S : s[i] \in X \ values
  OBVIOUS
<1>3. Without(s, values) = [n \in 1..Len(order) |-> s[order[n]]]
  BY DEF Without
<1> HIDE DEF order, S
<1>4. Len(order) \in Nat /\ \A n \in 1..Len(order) : s[order[n]] \in X \ values
  BY <1>1, <1>2
<1> QED BY <1>3, <1>4

LEMMA WithoutType ==
  ASSUME NEW X, NEW s \in Seq(X), NEW values
  PROVE  Without(s, values) \in Seq(X)
<1>1. Without(s, values) \in Seq(X \ values)
  BY WithoutRange
<1> HIDE DEF Without
<1> DEFINE r == Without(s, values)
<1>2. r \in Seq(X \ values)
  BY <1>1
<1> HIDE DEF r
<1>3. r \in Seq(X)
  BY <1>2
<1> QED BY <1>3 DEF r

\* A value at the end stays if it is none of those left out.
LEMMA WithoutAppend ==
  ASSUME NEW X, NEW s \in Seq(X), NEW x \in X, NEW values
  PROVE  Without(Append(s, x), values) =
           IF x \in values THEN Without(s, values) ELSE Append(Without(s, values), x)
<1> DEFINE t == Append(s, x)
           S == {i \in DOMAIN s : s[i] \notin values}
           U == {i \in DOMAIN t : t[i] \notin values}
           old == Ascending(S, Len(s))
           new == Ascending(U, Len(t))
<1>1. /\ t \in Seq(X) /\ Len(t) = Len(s) + 1 /\ Len(s) \in Nat
      /\ DOMAIN s = 1..Len(s) /\ DOMAIN t = 1..(Len(s) + 1)
      /\ \A i \in 1..Len(s) : t[i] = s[i]
      /\ t[Len(s) + 1] = x
  OBVIOUS
<1>2. Without(s, values) = [n \in 1..Len(old) |-> s[old[n]]]
  BY DEF Without
<1>3. Without(t, values) = [n \in 1..Len(new) |-> t[new[n]]]
  BY DEF Without
<1> HIDE DEF t
<1>4. \A i \in 1..Len(s) : i \in S <=> i \in U
  BY <1>1
<1>5. Len(s) + 1 \in U <=> x \notin values
  BY <1>1
<1>6. \A k \in 1..Len(old) : old[k] \in 1..Len(s)
  <2> HIDE DEF S
  <2> QED BY <1>1, AscendingRange
<1>7. old \in Seq(Nat)
  <2> HIDE DEF S
  <2> QED BY <1>1, AscendingRange
<1>8. new = IF Len(s) + 1 \in U THEN Append(old, Len(s) + 1) ELSE old
  <2> HIDE DEF S, U
  <2>1. Ascending(U, Len(s)) = old
    BY <1>1, <1>4, AscendingSame
  <2> QED BY <2>1, <1>1, AscendingStep
<1>9. Without(s, values) \in Seq(X)
  BY WithoutType
<1> HIDE DEF old, new, S, U
<1>10. CASE x \in values
  <2>1. new = old
    BY <1>5, <1>8, <1>10
  <2> QED BY <2>1, <1>1, <1>2, <1>3, <1>6, <1>10 DEF t
<1>11. CASE x \notin values
  <2>1. new = Append(old, Len(s) + 1)
    BY <1>5, <1>8, <1>11
  <2>2. /\ Len(new) = Len(old) + 1 /\ Len(old) \in Nat
        /\ \A k \in 1..Len(old) : new[k] = old[k]
        /\ new[Len(old) + 1] = Len(s) + 1
    BY <2>1, <1>7, <1>1
  <2> DEFINE a == Without(s, values)
             b == Without(t, values)
             c == Append(a, x)
  <2>3. Len(a) = Len(old) /\ \A k \in 1..Len(old) : a[k] = s[old[k]]
    BY <1>2, <2>2
  <2>4. /\ b \in Seq(X) /\ Len(b) = Len(old) + 1
        /\ \A k \in 1..(Len(old) + 1) : b[k] = t[new[k]]
    <3>1. b \in Seq(X)
      BY <1>1, WithoutType
    <3> QED BY <1>3, <2>2, <3>1
  <2> HIDE DEF a, b
  <2>5. /\ c \in Seq(X) /\ Len(c) = Len(old) + 1 /\ c[Len(old) + 1] = x
        /\ \A k \in 1..Len(old) : c[k] = a[k]
    BY <1>9, <2>3 DEF a
  <2> HIDE DEF c
  <2>6. \A k \in 1..Len(b) : b[k] = c[k]
    <3> SUFFICES ASSUME NEW k \in 1..Len(b)
                 PROVE  b[k] = c[k]
      OBVIOUS
    <3>1. CASE k \in 1..Len(old)
      BY <3>1, <2>2, <2>3, <2>4, <2>5, <1>1, <1>6
    <3>2. CASE k = Len(old) + 1
      BY <3>2, <2>2, <2>4, <2>5, <1>1
    <3> QED BY <3>1, <3>2, <2>2, <2>4
  <2>7. b = c
    BY <2>4, <2>5, <2>6, SeqEqual
  <2> QED BY <2>7, <1>11 DEF a, b, c, t
<1> QED BY <1>10, <1>11

\* What remains of two sequences in a row is what remains of each.
LEMMA WithoutConcat ==
  ASSUME NEW X, NEW s \in Seq(X), NEW t \in Seq(X), NEW values
  PROVE  Without(s \o t, values) = Without(s, values) \o Without(t, values)
<1> DEFINE u(n) == SubSeq(t, 1, n)
           P(n) == Without(s \o u(n), values) = Without(s, values) \o Without(u(n), values)
           T == {n \in Nat : n <= Len(t) => P(n)}
<1>0. Without(s, values) \in Seq(X)
  BY WithoutType
<1>1. 0 \in T
  <2>1. u(0) = <<>>
    OBVIOUS
  <2>2. s \o <<>> = s /\ Without(s, values) \o <<>> = Without(s, values)
    BY <1>0, ConcatEmptySeq
  <2>3. P(0)
    BY <2>1, <2>2, WithoutEmpty
  <2> QED BY <2>3
<1>2. ASSUME NEW n \in T
      PROVE  n + 1 \in T
  <2> SUFFICES ASSUME n + 1 <= Len(t)
               PROVE  P(n + 1)
    OBVIOUS
  <2>1. P(n) /\ n \in Nat
    OBVIOUS
  <2> DEFINE v == u(n)
             y == t[n + 1]
             a == Without(s, values)
             b == Without(v, values)
  <2>2. /\ u(n + 1) = Append(v, y) /\ v \in Seq(X) /\ y \in X
    OBVIOUS
  <2>3. b \in Seq(X)
    BY <2>2, WithoutType
  <2>4. Without(s \o v, values) = a \o b
    BY <2>1
  <2>5. s \o v \in Seq(X)
    BY <2>2
  <2> HIDE DEF v, y, a, b
  <2>6. s \o Append(v, y) = Append(s \o v, y)
    BY <2>2
  <2>7. a \in Seq(X)
    BY <1>0 DEF a
  <2>8. Without(s \o Append(v, y), values) = IF y \in values THEN a \o b ELSE Append(a \o b, y)
    <3> DEFINE w == s \o v
    <3>1. w \in Seq(X) /\ y \in X
      BY <2>2, <2>5
    <3> HIDE DEF w
    <3>2. Without(Append(w, y), values) =
            IF y \in values THEN Without(w, values) ELSE Append(Without(w, values), y)
      BY <3>1, WithoutAppend
    <3> QED BY <3>2, <2>4, <2>6 DEF w
  <2>9. Without(Append(v, y), values) = IF y \in values THEN b ELSE Append(b, y)
    BY <2>2, WithoutAppend DEF b
  <2>10. Append(a \o b, y) = a \o Append(b, y)
    <3>1. y \in X
      BY <2>2
    <3>2. a \in Seq(X)
      BY <2>7
    <3>3. b \in Seq(X)
      BY <2>3
    <3>4. (a \o b) \o <<y>> = a \o (b \o <<y>>)
      <4>1. <<y>> \in Seq(X)
        BY <3>1
      <4> HIDE DEF u, P, T
      <4> QED BY <4>1, <3>2, <3>3, ConcatAssociative
    <3>5. a \o b \in Seq(X)
      BY <3>2, <3>3, ConcatProperties
    <3>6. Append(a \o b, y) = (a \o b) \o <<y>>
      BY <3>1, <3>5, AppendIsConcat
    <3>7. Append(b, y) = b \o <<y>>
      BY <3>1, <3>3, AppendIsConcat
    <3> QED BY <3>4, <3>6, <3>7
  <2>11. Without(s \o Append(v, y), values) = a \o Without(Append(v, y), values)
    BY <2>8, <2>9, <2>10
  <2> QED BY <2>2, <2>11 DEF a
<1>3. T = Nat
  <2> HIDE DEF P
  <2> QED BY <1>1, <1>2, Induct
<1> HIDE DEF T
<1>4. u(Len(t)) = t
  OBVIOUS
<1>5. Len(t) \in Nat
  OBVIOUS
<1>6. P(Len(t))
  <2> HIDE DEF P
  <2> QED BY <1>3, <1>5 DEF T
<1> QED BY <1>4, <1>6
===============================================================================
