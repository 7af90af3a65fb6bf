--------------------------- MODULE FileTransferProofs ---------------------------
(***************************************************************************)
(* What uploads and downloads over one connection leave on the two sides,   *)
(* for any number of commands and files of any length.                      *)
(*                                                                         *)
(* The invariant is built in layers, each kept by every step if the ones    *)
(* before it hold:                                                          *)
(*   Basic      what the variables are, and what a sharer can be where it   *)
(*              is filed;                                                   *)
(*   Uploading  an upload is in one place at a time, and the server has of  *)
(*              it what the number of its position says;                    *)
(*   Alone      without downloads: what the client counts is underway or    *)
(*              there;                                                      *)
(*   Fetches    a download is in one place at a time, and what comes        *)
(*              continues what the client has;                              *)
(*   Saves      what is at a place is the beginning of a file of the server.*)
(* The last three need that no name is a number.                            *)
(***************************************************************************)
EXTENDS FileTransfer, SequenceTheorems, FiniteSetTheorems, TLAPS

-----------------------------------------------------------------------------
(* Messages on their way *)

\* How many of the messages before the i-th, and of all, are in S.
Before(q, S, i) == Cardinality({j \in 1..(i - 1) : q[j] \in S})
Count(q, S) == Before(q, S, Len(q) + 1)

LEMMA BeforeType ==
  ASSUME NEW q, NEW S, NEW i \in Nat
  PROVE  IsFiniteSet({j \in 1..(i - 1) : q[j] \in S}) /\ Before(q, S, i) \in Nat
<1>1. IsFiniteSet(1..(i - 1))
  BY FS_Interval
<1>2. {j \in 1..(i - 1) : q[j] \in S} \in SUBSET (1..(i - 1))
  OBVIOUS
<1>3. IsFiniteSet({j \in 1..(i - 1) : q[j] \in S})
  BY <1>1, <1>2, FS_Subset, Zenon
<1> QED BY <1>3, FS_CardinalityType DEF Before

LEMMA NoneBefore ==
  ASSUME NEW q, NEW S, NEW i \in Nat, \A j \in 1..(i - 1) : q[j] \notin S
  PROVE  Before(q, S, i) = 0
<1>1. {j \in 1..(i - 1) : q[j] \in S} = {}
  OBVIOUS
<1> QED BY <1>1, FS_EmptySet, Zenon DEF Before

LEMMA SomeBefore ==
  ASSUME NEW q, NEW S, NEW i \in Nat, NEW j \in 1..(i - 1), q[j] \in S
  PROVE  Before(q, S, i) > 0
<1>1. j \in {n \in 1..(i - 1) : q[n] \in S}
  OBVIOUS
<1> DEFINE A == {n \in 1..(i - 1) : q[n] \in S}
<1>2. IsFiniteSet(A) /\ Before(q, S, i) \in Nat
  BY BeforeType
<1>3. A # {} /\ Cardinality(A) = Before(q, S, i)
  BY <1>1 DEF Before
<1> HIDE DEF A
<1>4. Before(q, S, i) # 0
  BY <1>2, <1>3, FS_EmptySet, Zenon
<1> QED BY <1>2, <1>4

\* The next message behind the i-th.
LEMMA BeforeNext ==
  ASSUME NEW q, NEW S, NEW i \in Nat \ {0}
  PROVE  Before(q, S, i + 1) = Before(q, S, i) + (IF q[i] \in S THEN 1 ELSE 0)
<1> DEFINE B(n) == {j \in 1..(n - 1) : q[j] \in S}
<1>1. IsFiniteSet(B(i)) /\ Cardinality(B(i)) \in Nat
  BY BeforeType DEF Before
<1>2. i \notin B(i)
  OBVIOUS
<1>3. CASE q[i] \in S
  <2>1. B(i + 1) = B(i) \union {i}
    BY <1>3
  <2> HIDE DEF B
  <2>2. Cardinality(B(i) \union {i}) = Cardinality(B(i)) + 1
    BY <1>1, <1>2, FS_AddElement
  <2>3. Cardinality(B(i + 1)) = Cardinality(B(i)) + 1
    BY <2>1, <2>2
  <2> QED BY <1>3, <2>3 DEF Before, B
<1>4. CASE q[i] \notin S
  <2>1. B(i + 1) = B(i)
    BY <1>4
  <2>2. Before(q, S, i + 1) = Before(q, S, i)
    BY <2>1 DEF Before
  <2>3. Before(q, S, i) \in Nat
    BY <1>1 DEF Before, B
  <2> QED BY <1>4, <2>2, <2>3
<1> QED BY <1>3, <1>4

LEMMA BeforeAppend ==
  ASSUME NEW M, NEW q \in Seq(M), NEW m \in M, NEW S
  PROVE  /\ \A i \in 1..(Len(q) + 1) : Before(Append(q, m), S, i) = Before(q, S, i)
         /\ Count(Append(q, m), S) = Count(q, S) + (IF m \in S THEN 1 ELSE 0)
<1> DEFINE r == Append(q, m)
<1>1. /\ Len(r) = Len(q) + 1 /\ r[Len(q) + 1] = m /\ Len(q) \in Nat
      /\ \A i \in 1..Len(q) : r[i] = q[i]
  BY AppendProperties
<1> HIDE DEF r
<1>2. ASSUME NEW i \in 1..(Len(q) + 1) PROVE Before(r, S, i) = Before(q, S, i)
  <2>1. {j \in 1..(i - 1) : r[j] \in S} = {j \in 1..(i - 1) : q[j] \in S}
    BY <1>1
  <2> QED BY <2>1 DEF Before
<1>3. Len(q) + 1 \in Nat \ {0}
  BY <1>1
<1>4. Before(r, S, (Len(q) + 1) + 1) = Before(r, S, Len(q) + 1) + (IF m \in S THEN 1 ELSE 0)
  BY <1>1, <1>3, BeforeNext
<1>5. Before(r, S, Len(q) + 1) = Before(q, S, Len(q) + 1)
  BY <1>1, <1>2
<1> QED BY <1>1, <1>2, <1>4, <1>5 DEF Count, r

LEMMA BeforeTail ==
  ASSUME NEW M, NEW q \in Seq(M), q # <<>>, NEW S
  PROVE  /\ \A i \in 1..Len(q) :
              Before(q, S, i + 1) = Before(Tail(q), S, i) + (IF Head(q) \in S THEN 1 ELSE 0)
         /\ Count(q, S) = Count(Tail(q), S) + (IF Head(q) \in S THEN 1 ELSE 0)
<1> DEFINE r == Tail(q)
           d == IF q[1] \in S THEN 1 ELSE 0
<1>1. /\ Len(q) \in Nat \ {0} /\ Len(r) = Len(q) - 1 /\ Head(q) = q[1]
      /\ \A i \in 1..Len(r) : r[i] = q[i + 1]
  BY HeadTailProperties, EmptySeq
<1> HIDE DEF r
<1>2. ASSUME NEW i \in 1..Len(q) PROVE Before(q, S, i + 1) = Before(r, S, i) + d
  <2> DEFINE A == {j \in 1..(i - 1) : r[j] \in S}
             B == {j \in 2..i : q[j] \in S}
  <2>1. [j \in A |-> j + 1] \in Bijection(A, B)
    <3> DEFINE f == [j \in A |-> j + 1]
    <3>1. \A j \in A : f[j] \in B
      BY <1>1
    <3>2. \A j \in B : j - 1 \in A /\ f[j - 1] = j
      BY <1>1
    <3>3. \A j, n \in A : f[j] = f[n] => j = n
      OBVIOUS
    <3>4. f \in [A -> B]
      BY <3>1
    <3> HIDE DEF f, A, B
    <3>5. f \in Injection(A, B) /\ f \in Surjection(A, B)
      BY <3>2, <3>3, <3>4 DEF Injection, Surjection, IsInjective
    <3> QED BY <3>5 DEF Bijection, f
  <2>2. IsFiniteSet(A) /\ Cardinality(A) = Before(r, S, i)
    <3>1. i \in Nat
      OBVIOUS
    <3>2. IsFiniteSet(A)
      BY <3>1, BeforeType
    <3> QED BY <3>2 DEF Before
  <2> HIDE DEF A
  <2>3. IsFiniteSet(B) /\ Cardinality(B) = Cardinality(A)
    BY <2>1, <2>2, FS_Bijection DEF ExistsBijection
  <2>4. Cardinality(A) \in Nat
    BY <2>2, FS_CardinalityType
  <2>5. CASE q[1] \in S
    <3>1. {j \in 1..((i + 1) - 1) : q[j] \in S} = B \union {1}
      BY <2>5
    <3>2. 1 \notin B
      OBVIOUS
    <3> HIDE DEF B
    <3>3. Cardinality(B \union {1}) = Cardinality(B) + 1
      BY <2>3, <3>2, FS_AddElement
    <3> QED BY <2>2, <2>3, <2>5, <3>1, <3>3 DEF Before
  <2>6. CASE q[1] \notin S
    <3>1. {j \in 1..((i + 1) - 1) : q[j] \in S} = B
      BY <2>6
    <3>2. Before(q, S, i + 1) = Cardinality(B)
      BY <3>1 DEF Before
    <3> HIDE DEF B
    <3> QED BY <2>2, <2>3, <2>4, <2>6, <3>2
  <2> QED BY <2>5, <2>6
<1>3. Before(q, S, Len(q) + 1) = Before(r, S, Len(r) + 1) + d
  BY <1>1, <1>2
<1> QED BY <1>1, <1>2, <1>3 DEF Count, r

-----------------------------------------------------------------------------
(* Contents of files *)

\* The first w pieces.
Begun(content, w) == [n \in 1..w |-> content[n]]

\* A function on 1..n is a sequence of length n.
LEMMA FunctionIsSeq ==
  ASSUME NEW S, NEW n \in Nat, NEW f \in [1..n -> S]
  PROVE  f \in Seq(S) /\ Len(f) = n
<1>1. f \in Seq(S)
  BY SeqDef
<1>2. DOMAIN f = 1..Len(f) /\ DOMAIN f = 1..n /\ Len(f) \in Nat
  BY <1>1, LenProperties
<1> QED BY <1>1, <1>2

LEMMA OriginalFacts ==
  ASSUME NEW file \in Paths \union Stored
  PROVE  /\ Original(file) \in Seq(Piece) /\ Len(Original(file)) = Size[file]
         /\ Size[file] \in Nat
<1>1. Size[file] \in Nat
  BY TransferAssumption
<1>2. Original(file) \in [1..Size[file] -> Piece]
  BY <1>1 DEF Original, Piece
<1> QED BY <1>1, <1>2, FunctionIsSeq

LEMMA BegunFacts ==
  ASSUME NEW c \in Seq(Piece), NEW w \in 0..Len(c)
  PROVE  /\ Begun(c, w) \in Seq(Piece) /\ Len(Begun(c, w)) = w
         /\ \A n \in 1..w : Begun(c, w)[n] = c[n]
<1>1. Begun(c, w) \in [1..w -> Piece] /\ \A n \in 1..w : Begun(c, w)[n] = c[n]
  BY DEF Begun
<1> QED BY <1>1, FunctionIsSeq

LEMMA BegunNothing == ASSUME NEW c PROVE Begun(c, 0) = <<>>
<1>1. Begun(c, 0) \in [1..0 -> {}]
  BY DEF Begun
<1>2. Begun(c, 0) \in Seq({}) /\ Len(Begun(c, 0)) = 0
  BY <1>1, FunctionIsSeq
<1> QED BY <1>2, EmptySeq

LEMMA BegunAll == ASSUME NEW c \in Seq(Piece) PROVE Begun(c, Len(c)) = c
<1>1. /\ Begun(c, Len(c)) \in Seq(Piece) /\ Len(Begun(c, Len(c))) = Len(c)
      /\ \A n \in 1..Len(c) : Begun(c, Len(c))[n] = c[n]
  BY BegunFacts
<1> QED BY <1>1, SeqEqual

LEMMA BegunPrefix ==
  ASSUME NEW c \in Seq(Piece), NEW w \in 0..Len(c)
  PROVE  IsPrefix(Begun(c, w), c)
<1>1. /\ Begun(c, w) \in Seq(Piece) /\ Len(Begun(c, w)) = w
      /\ \A n \in 1..w : Begun(c, w)[n] = c[n]
  BY BegunFacts
<1> DEFINE b == Begun(c, w)
<1> HIDE DEF b
<1>2. b \in Seq(Piece) /\ Len(b) = w /\ \A n \in 1..w : b[n] = c[n]
  BY <1>1 DEF b
<1>3. SubSeq(b, 1, w) = SubSeq(c, 1, w)
  <2>1. /\ SubSeq(b, 1, w) \in Seq(Piece) /\ Len(SubSeq(b, 1, w)) = w
        /\ \A i \in 1..w : SubSeq(b, 1, w)[i] = b[i]
    BY <1>2
  <2>2. /\ SubSeq(c, 1, w) \in Seq(Piece) /\ Len(SubSeq(c, 1, w)) = w
        /\ \A i \in 1..w : SubSeq(c, 1, w)[i] = c[i]
    OBVIOUS
  <2>3. \A i \in 1..Len(SubSeq(b, 1, w)) : SubSeq(b, 1, w)[i] = SubSeq(c, 1, w)[i]
    BY <1>2, <2>1, <2>2
  <2> QED BY <2>1, <2>2, <2>3, SeqEqual
<1> QED BY <1>2, <1>3 DEF IsPrefix, b

LEMMA PortionFacts ==
  ASSUME NEW c \in Seq(Piece), NEW w \in Nat
  PROVE  /\ Portion(c, w) \in Seq(Piece)
         /\ w < Len(c) => Portion(c, w) = <<c[w + 1]>> /\ Len(Portion(c, w)) = 1
         /\ w >= Len(c) => Portion(c, w) = <<>> /\ Len(Portion(c, w)) = 0
BY DEF Portion

LEMMA OverwrittenType ==
  ASSUME NEW c \in Seq(Piece), NEW w \in Nat, NEW x \in Seq(Piece)
  PROVE  Overwritten(c, w, x) \in Seq(Piece) /\ Len(c) <= Len(Overwritten(c, w, x))
<1> DEFINE end == w + Len(x)
           n == IF end > Len(c) THEN end ELSE Len(c)
           at(k) == CASE w < k /\ k <= end -> x[k - w]
                      [] k <= w /\ k > Len(c) -> Hole
                      [] OTHER -> c[k]
<1>1. n \in Nat /\ Len(c) <= n
  OBVIOUS
<1>2. \A k \in 1..n : at(k) \in Piece
  <2> SUFFICES ASSUME NEW k \in 1..n PROVE at(k) \in Piece
    OBVIOUS
  <2>1. CASE w < k /\ k <= end
    <3>1. k - w \in 1..Len(x)
      BY <2>1
    <3> QED BY <2>1, <3>1
  <2>2. CASE ~(w < k /\ k <= end) /\ k > Len(c)
    <3>1. k <= w /\ Hole \in Piece
      BY <2>2 DEF Piece
    <3> QED BY <2>2, <3>1
  <2>3. CASE ~(w < k /\ k <= end) /\ k <= Len(c)
    BY <2>3
  <2> QED BY <2>1, <2>2, <2>3
<1>3. Overwritten(c, w, x) = [k \in 1..n |-> at(k)]
  BY DEF Overwritten
<1> HIDE DEF n, at
<1>4. [k \in 1..n |-> at(k)] \in [1..n -> Piece]
  BY <1>2
<1> QED BY <1>1, <1>3, <1>4, FunctionIsSeq

\* A read is written behind what was written before.
LEMMA WriteOf ==
  ASSUME NEW c \in Seq(Piece), NEW w \in 0..Len(c)
  PROVE  Overwritten(Begun(c, w), w, Portion(c, w)) = Begun(c, w + Len(Portion(c, w)))
<1> DEFINE b == Begun(c, w)
           x == Portion(c, w)
           d == Len(x)
<1>1. Len(b) = w /\ \A n \in 1..w : b[n] = c[n]
  BY BegunFacts
<1>2. /\ d \in Nat /\ w + d <= Len(c)
      /\ \A n \in (w + 1)..(w + d) : x[n - w] = c[n]
  <2>1. CASE w < Len(c)
    <3>1. x = <<c[w + 1]>> /\ d = 1
      BY <2>1 DEF Portion
    <3> HIDE DEF x, d
    <3>2. \A n \in (w + 1)..(w + d) : n - w = 1 /\ n = w + 1
      BY <3>1
    <3> QED BY <2>1, <3>1, <3>2
  <2>2. CASE w >= Len(c)
    <3>1. x = <<>> /\ d = 0
      BY <2>2 DEF Portion
    <3> HIDE DEF x, d
    <3> QED BY <2>2, <3>1
  <2> QED BY <2>1, <2>2
<1> HIDE DEF b, x, d
<1>3. Overwritten(b, w, x) =
        [k \in 1..(w + d) |-> CASE w < k /\ k <= w + d -> x[k - w]
                                [] k <= w /\ k > w -> Hole
                                [] OTHER -> b[k]]
  <2>1. (IF w + d > w THEN w + d ELSE w) = w + d
    BY <1>2
  <2> QED BY <1>1, <1>2, <2>1 DEF Overwritten, d
<1>4. \A k \in 1..(w + d) :
        (CASE w < k /\ k <= w + d -> x[k - w]
           [] k <= w /\ k > w -> Hole
           [] OTHER -> b[k]) = c[k]
  <2> SUFFICES ASSUME NEW k \in 1..(w + d)
               PROVE  (CASE w < k /\ k <= w + d -> x[k - w]
                         [] k <= w /\ k > w -> Hole
                         [] OTHER -> b[k]) = c[k]
    OBVIOUS
  <2>1. CASE w < k
    BY <1>2, <2>1
  <2>2. CASE k <= w
    BY <1>1, <2>2
  <2> QED BY <1>2, <2>1, <2>2
<1> QED BY <1>3, <1>4 DEF Begun, b, x, d

LEMMA AcceptedFacts ==
  ASSUME NEW s \in Sharer, NEW x \in Seq(Piece)
  PROVE  /\ Accepted(s, x) \in Seq(Piece) /\ Len(Accepted(s, x)) \in Nat
         /\ s.written <= s.size => s.written + Len(Accepted(s, x)) <= s.size
         /\ s.written + Len(x) <= s.size => Accepted(s, x) = x
<1>1. s.size \in Nat /\ s.written \in Nat /\ rest(s) = s.size - s.written /\ Len(x) \in Nat
  BY DEF Sharer, rest
<1>2. CASE Len(x) <= rest(s)
  <2>1. Accepted(s, x) = x
    BY <1>2, SubSeqFull DEF Accepted
  <2> QED BY <1>1, <1>2, <2>1
<1>3. CASE ~(Len(x) <= rest(s))
  <2>1. Accepted(s, x) = SubSeq(x, 1, rest(s)) /\ rest(s) \in Int
    BY <1>1, <1>3 DEF Accepted
  <2>2. \A i \in 1..rest(s) : x[i] \in Piece
    BY <1>1, <1>3
  <2>3. /\ SubSeq(x, 1, rest(s)) \in Seq(Piece)
        /\ Len(SubSeq(x, 1, rest(s))) = IF 1 <= rest(s) THEN rest(s) - 1 + 1 ELSE 0
    BY <2>1, <2>2, SubSeqProperties
  <2> QED BY <1>1, <1>3, <2>1, <2>3
<1> QED BY <1>2, <1>3

-----------------------------------------------------------------------------
(* Sharers *)

LEMMA SharerFields ==
  ASSUME NEW s \in Sharer
  PROVE  /\ s # None /\ s.mode \in {"read", "write"} /\ s.file \in Files /\ s.name \in Names
         /\ s.size \in Nat /\ s.id \in Nat /\ s.written \in Nat
         /\ \A n \in Nat : [s EXCEPT !.written = n] \in Sharer
         /\ \A n, k \in Nat : [s EXCEPT !.size = n, !.id = k] \in Sharer
BY TransferAssumption DEF Sharer

LEMMA SameSharer ==
  ASSUME NEW s \in Sharer, NEW t \in Sharer, s.file = t.file, s.mode = t.mode, s.name = t.name,
         s.size = t.size, s.id = t.id, s.written = t.written
  PROVE  s = t
BY DEF Sharer

\* The fields of a sharer.
Is(s, file, mode, name, size, id, written) ==
  /\ s \in Sharer /\ s # None
  /\ s.file = file /\ s.mode = mode /\ s.name = name
  /\ s.size = size /\ s.id = id /\ s.written = written

LEMMA Opened ==
  ASSUME NEW file \in Files, NEW mode \in {"read", "write"}, NEW name \in Names
  PROVE  Is(FileSharer(file, mode, name), file, mode, name, 0, 0, 0)
<1>1. FileSharer(file, mode, name) \in Sharer
  BY DEF FileSharer, Sharer
<1> QED BY <1>1, SharerFields DEF FileSharer, Is

LEMMA Numbered ==
  ASSUME NEW s \in Sharer, NEW size \in Nat, NEW id \in Nat
  PROVE  Is([s EXCEPT !.size = size, !.id = id], s.file, s.mode, s.name, size, id, s.written)
<1>1. [s EXCEPT !.size = size, !.id = id] \in Sharer
  BY SharerFields
<1> QED BY <1>1, SharerFields DEF Sharer, Is

LEMMA Moved ==
  ASSUME NEW s \in Sharer, NEW written \in Nat
  PROVE  Is([s EXCEPT !.written = written], s.file, s.mode, s.name, s.size, s.id, written)
<1>1. [s EXCEPT !.written = written] \in Sharer
  BY SharerFields
<1> QED BY <1>1, SharerFields DEF Sharer, Is

Map == [Keys -> Sharer \union {None}]

LEMMA Promoted ==
  ASSUME NEW map \in Map, NEW name \in Names, NEW size \in Nat, NEW id \in Ids,
         NEW new, new = promote_sharer(map, name, size, id)
  PROVE  /\ new \in Map
         /\ map[name] = None => new = map
         /\ map[name] # None =>
              /\ map[name] \in Sharer
              /\ Is(new[id], map[name].file, map[name].mode, map[name].name, size, id,
                    map[name].written)
              /\ \A key \in Keys : key # id => new[key] = IF key = name THEN None ELSE map[key]
<1>1. name \in Keys /\ id \in Keys /\ id \in Nat
  BY DEF Keys, Ids
<1>2. CASE map[name] = None
  BY <1>1, <1>2 DEF promote_sharer
<1>3. CASE map[name] # None
  <2>1. map[name] \in Sharer
    BY <1>1, <1>3 DEF Map
  <2> DEFINE s == [map[name] EXCEPT !.size = size, !.id = id]
  <2>2. Is(s, map[name].file, map[name].mode, map[name].name, size, id, map[name].written)
    BY <1>1, <2>1, Numbered
  <2>3. new = [map EXCEPT ![name] = None, ![id] = s]
    BY <1>3 DEF promote_sharer, s
  <2>4. s \in Sharer
    BY <2>2 DEF Is
  <2> HIDE DEF s
  <2>5. /\ new \in Map /\ new[id] = s
        /\ \A key \in Keys : key # id => new[key] = IF key = name THEN None ELSE map[key]
    BY <1>1, <2>3, <2>4 DEF Map
  <2> QED BY <1>3, <2>1, <2>2, <2>5
<1> QED BY <1>2, <1>3

\* A sharer that is filed under its name and promoted at once.
LEMMA Filed ==
  ASSUME NEW map \in Map, NEW file \in Files, NEW mode \in {"read", "write"},
         NEW name \in Names, NEW size \in Nat, NEW id \in Ids,
         NEW new, new = promote_sharer(prepare_sharer(map, FileSharer(file, mode, name)),
                                       name, size, id)
  PROVE  /\ new \in Map
         /\ Is(new[id], file, mode, name, size, id, 0)
         /\ \A key \in Keys : key # id => new[key] = IF key = name THEN None ELSE map[key]
<1> DEFINE s == FileSharer(file, mode, name)
           m == prepare_sharer(map, s)
<1>1. Is(s, file, mode, name, 0, 0, 0)
  BY Opened
<1> HIDE DEF s
<1>2. name \in Keys /\ s \in Sharer /\ s # None /\ s.name = name
  BY <1>1 DEF Keys, Is
<1>3. m \in Map /\ m[name] = s /\ \A key \in Keys : key # name => m[key] = map[key]
  BY <1>2 DEF prepare_sharer, Map
<1>4. new = promote_sharer(m, name, size, id)
  BY DEF m, s
<1> HIDE DEF m
<1>5. /\ new \in Map
      /\ Is(new[id], s.file, s.mode, s.name, size, id, s.written)
      /\ \A key \in Keys : key # id => new[key] = IF key = name THEN None ELSE m[key]
  BY <1>2, <1>3, <1>4, Promoted
<1>6. \A key \in Keys : key # id => new[key] = IF key = name THEN None ELSE map[key]
  BY <1>3, <1>5
<1>7. Is(new[id], file, mode, name, size, id, 0)
  BY <1>1, <1>5 DEF Is
<1> QED BY <1>5, <1>6, <1>7

LEMMA Prepared ==
  ASSUME NEW map \in Map, NEW file \in Files, NEW mode \in {"read", "write"}, NEW name \in Names,
         NEW new, new = prepare_sharer(map, FileSharer(file, mode, name))
  PROVE  /\ new \in Map
         /\ Is(new[name], file, mode, name, 0, 0, 0)
         /\ \A key \in Keys : key # name => new[key] = map[key]
<1> DEFINE s == FileSharer(file, mode, name)
<1>1. Is(s, file, mode, name, 0, 0, 0)
  BY Opened
<1>2. new = prepare_sharer(map, s)
  OBVIOUS
<1> HIDE DEF s
<1>3. name \in Keys /\ s \in Sharer /\ s # None /\ s.name = name
  BY <1>1 DEF Keys, Is
<1>4. new \in Map /\ new[name] = s /\ \A key \in Keys : key # name => new[key] = map[key]
  BY <1>2, <1>3 DEF prepare_sharer, Map
<1> QED BY <1>1, <1>4

\* The map after a chunk: what is done is removed.
LEMMA Advance ==
  ASSUME NEW map \in Map, NEW id \in Keys, map[id] # None, NEW x \in Seq(Piece),
         NEW new, new = Advanced(map, id, x)
  PROVE  /\ new \in Map
         /\ \A key \in Keys : key # id => new[key] = map[key]
         /\ done(map[id], x) <=> map[id].written + Len(Accepted(map[id], x)) >= map[id].size
         /\ done(map[id], x) => new[id] = None
         /\ ~done(map[id], x) => Is(new[id], map[id].file, map[id].mode, map[id].name,
                                    map[id].size, map[id].id,
                                    map[id].written + Len(Accepted(map[id], x)))
<1> DEFINE d == Len(Accepted(map[id], x))
<1>1. map[id] \in Sharer /\ map[id].written \in Nat
  BY SharerFields DEF Map
<1>2. d \in Nat /\ map[id].written + d \in Nat
  BY <1>1, AcceptedFacts
<1> DEFINE s == [map[id] EXCEPT !.written = @ + d]
<1>3. Is(s, map[id].file, map[id].mode, map[id].name, map[id].size, map[id].id,
         map[id].written + d)
  BY <1>1, <1>2, Moved
<1>4. new = [map EXCEPT ![id] = IF done(map[id], x) THEN None ELSE s]
  BY DEF Advanced
<1> HIDE DEF s
<1>5. s \in Sharer
  BY <1>3 DEF Is
<1>6. /\ new \in Map /\ \A key \in Keys : key # id => new[key] = map[key]
      /\ done(map[id], x) => new[id] = None
      /\ ~done(map[id], x) => new[id] = s
  BY <1>4, <1>5 DEF Map
<1> QED BY <1>3, <1>6 DEF done

LEMMA Taken ==
  ASSUME NEW map \in Map, NEW key \in Keys, NEW new, new = remove_sharer(map, key)
  PROVE  /\ new \in Map /\ new[key] = None
         /\ \A other \in Keys : other # key => new[other] = map[other]
BY DEF remove_sharer, Map

-----------------------------------------------------------------------------
(* Messages, by kind *)

\* Chunks with number k that bring something; requests of downloads.
Pieces(k) == {m \in ChunkMessages : m.id = k /\ m.data # <<>>}
Wants == [kind : {"RequestFileDownload"}, name : Names]

Carries(m, k) == m.kind = "Chunk" /\ m.id = k
Asks(m, k)    == m.kind = "RequestFileUpload" /\ m.id = k
Agrees(m, k)  == m.kind = "AgreeFileDownload" /\ m.id = k
Grants(m, k)  == m.kind = "AgreeFileUpload" /\ m.id = k

LEMMA ToServer ==
  ASSUME NEW m \in ClientMessages
  PROVE  /\ m.kind \in {"RequestFileUpload", "RequestFileDownload", "AgreeFileDownload", "Chunk",
                        "Part"}
         /\ m.kind = "RequestFileUpload" => m.name \in Names /\ m.size \in Nat /\ m.id \in Ids
         /\ m.kind = "RequestFileDownload" => m.name \in Names
         /\ m.kind = "AgreeFileDownload" => m.id \in Ids
         /\ m.kind = "Chunk" => m \in ChunkMessages /\ m.id \in Ids /\ m.data \in Seq(Piece)
         /\ m \in Wants <=> m.kind = "RequestFileDownload"
         /\ \A k : m \in Pieces(k) <=> Carries(m, k) /\ m.data # <<>>
<1>1. m \in [kind : {"RequestFileUpload"}, name : Names, size : Nat, id : Ids] =>
        m.kind = "RequestFileUpload" /\ m.name \in Names /\ m.size \in Nat /\ m.id \in Ids
  OBVIOUS
<1>2. m \in Wants => m.kind = "RequestFileDownload" /\ m.name \in Names
  BY DEF Wants
<1>3. m \in [kind : {"AgreeFileDownload"}, id : Ids] => m.kind = "AgreeFileDownload" /\ m.id \in Ids
  OBVIOUS
<1>4. m \in ChunkMessages => m.kind = "Chunk" /\ m.id \in Ids /\ m.data \in Seq(Piece)
  BY DEF ChunkMessages
<1>5. \/ m \in [kind : {"RequestFileUpload"}, name : Names, size : Nat, id : Ids]
      \/ m \in Wants \/ m \in [kind : {"AgreeFileDownload"}, id : Ids] \/ m \in ChunkMessages
      \/ m = Part
  BY DEF ClientMessages, Wants
<1>6. m = Part => m.kind = "Part"
  BY DEF Part
<1>7. m \in Wants <=> m.kind = "RequestFileDownload"
  BY <1>1, <1>2, <1>3, <1>4, <1>5, <1>6
<1>8. \A k : m \in Pieces(k) <=> Carries(m, k) /\ m.data # <<>>
  BY <1>1, <1>2, <1>3, <1>4, <1>5, <1>6 DEF Pieces, Carries
<1> QED BY <1>1, <1>2, <1>3, <1>4, <1>5, <1>6, <1>7, <1>8

LEMMA ToClient ==
  ASSUME NEW m \in ServerMessages
  PROVE  /\ m.kind \in {"AgreeFileUpload", "DeclineFileUpload", "AgreeFileDownload",
                        "DeclineFileDownload", "Chunk"}
         /\ m.kind \in {"AgreeFileUpload", "DeclineFileUpload"} => m.id \in Ids
         /\ m.kind = "AgreeFileDownload" => m.name \in Names /\ m.size \in Nat /\ m.id \in Ids
         /\ m.kind = "DeclineFileDownload" => m.name \in Names
         /\ m.kind = "Chunk" => m \in ChunkMessages /\ m.id \in Ids /\ m.data \in Seq(Piece)
         /\ \A k : m \in Pieces(k) <=> Carries(m, k) /\ m.data # <<>>
<1>1. m \in [kind : {"AgreeFileUpload", "DeclineFileUpload"}, id : Ids] =>
        m.kind \in {"AgreeFileUpload", "DeclineFileUpload"} /\ m.id \in Ids
  OBVIOUS
<1>2. m \in [kind : {"AgreeFileDownload"}, name : Names, size : Nat, id : Ids] =>
        m.kind = "AgreeFileDownload" /\ m.name \in Names /\ m.size \in Nat /\ m.id \in Ids
  OBVIOUS
<1>3. m \in [kind : {"DeclineFileDownload"}, name : Names] =>
        m.kind = "DeclineFileDownload" /\ m.name \in Names
  OBVIOUS
<1>4. m \in ChunkMessages => m.kind = "Chunk" /\ m.id \in Ids /\ m.data \in Seq(Piece)
  BY DEF ChunkMessages
<1>5. \/ m \in [kind : {"AgreeFileUpload", "DeclineFileUpload"}, id : Ids]
      \/ m \in [kind : {"AgreeFileDownload"}, name : Names, size : Nat, id : Ids]
      \/ m \in [kind : {"DeclineFileDownload"}, name : Names] \/ m \in ChunkMessages
  BY DEF ServerMessages
<1> QED BY <1>1, <1>2, <1>3, <1>4, <1>5 DEF Pieces, Carries

-----------------------------------------------------------------------------
(* What the two sides can hold *)

IsRead(sharer)  == sharer # None /\ sharer.mode = "read"
IsWrite(sharer) == sharer # None /\ sharer.mode = "write"

\* A file that is read by the client is filed under its number, and nothing of it
\* was sent; what is written has been created.
ClientShape(key) ==
  /\ IsRead(sharers[key]) =>
       /\ key \in Ids /\ sharers[key].id = key /\ sharers[key].written = 0
       /\ sharers[key].file \in Paths
       /\ NamesAreNoNumbers => sharers[key].size = Size[sharers[key].file]
  /\ IsWrite(sharers[key]) =>
       /\ [name |-> sharers[key].name, place |-> sharers[key].file] \in Downloads
       /\ sharers[key].file \in Places /\ home[sharers[key].file] # None
       /\ sharers[key].id \in Ids
       /\ NamesAreNoNumbers =>
            /\ sharers[key].written <= sharers[key].size
            /\ key \in Names => sharers[key].written = 0

QueueShape(i) ==
  /\ queue[i].mode = "read" => queue[i].id \in Ids /\ queue[i].file \in Paths
  /\ NamesAreNoNumbers =>
       /\ queue[i].written <= queue[i].size
       /\ queue[i].mode = "read" => queue[i].size = Size[queue[i].file]

ClientSide ==
  /\ client \in {"command", "read", "send", "exited"}
  /\ turn \in Nat \ {0}
  /\ sharers \in Map
  /\ queue \in Seq(Sharer)
  /\ home \in [Places -> Seq(Piece) \union {None}]
  /\ \A key \in Keys : ClientShape(key)
  /\ \A i \in 1..Len(queue) : QueueShape(i)

\* A file of the server that may be sent has at least `size' pieces.
Readable(sharer) ==
  /\ sharer.file \in Names /\ sharer.name = sharer.file
  /\ store[sharer.file] # None /\ sharer.size <= Len(store[sharer.file])
  /\ sharer.file \in Stored => sharer.size = Len(store[sharer.file])

\* The server files all under numbers; what it writes was not there before.
ServerShape(key) ==
  offers[key] # None =>
    /\ key \in Ids /\ offers[key].id = key /\ offers[key].written <= offers[key].size
    /\ offers[key].file \in Names /\ offers[key].name = offers[key].file
    /\ store[offers[key].file] # None
    /\ IsRead(offers[key]) => offers[key].written = 0 /\ Readable(offers[key])
    /\ IsWrite(offers[key]) => offers[key].file \notin Stored

SenderShape(s) == s.id \in Ids /\ s.written <= s.size /\ (s.mode = "read" => Readable(s))

StoredIsKept == \A name \in Stored : store[name] = Original(name)

ServerSide ==
  /\ server \in {"serving", "ended"}
  /\ offers \in Map
  /\ senders \subseteq Sharer
  /\ store \in [Names -> Seq(Piece) \union {None}]
  /\ \A key \in Keys : ServerShape(key)
  /\ \A s \in senders : SenderShape(s)
  /\ StoredIsKept

Between == toServer \in Seq(ClientMessages) /\ toClient \in Seq(ServerMessages)

History ==
  /\ typed \in Seq(Commands)
  /\ asked \in Seq(Uploads)
  /\ sought \subseteq Downloads
  /\ refused \subseteq [upload : Ids] \union [download : Names]
  /\ announced \subseteq Names
  /\ saved \subseteq Downloads
  /\ given \in Seq(Commands) /\ Len(given) <= MaxCommands

\* Every number goes back to a command of its own.
Numbers ==
  /\ next \in Nat /\ free \in Nat
  /\ next + free + Count(toServer, Wants) + Len(typed) <= Len(given)
  /\ client # "exited" => next = Len(asked)
  /\ Len(asked) <= next

Basic == ClientSide /\ ServerSide /\ Between /\ History /\ Numbers

LEMMA NumbersAreIds ==
  ASSUME Basic
  PROVE  /\ next \in Ids /\ free \in Ids /\ Count(toServer, Wants) \in Nat
         /\ typed # <<>> => next + 1 \in Ids
         /\ Count(toServer, Wants) > 0 => free + 1 \in Ids
         /\ 0 \in Ids
<1>1. /\ toServer \in Seq(ClientMessages) /\ typed \in Seq(Commands)
      /\ given \in Seq(Commands) /\ Len(given) <= MaxCommands /\ next \in Nat /\ free \in Nat
      /\ next + free + Count(toServer, Wants) + Len(typed) <= Len(given)
  BY DEF Basic, Between, History, Numbers
<1>2. Len(toServer) + 1 \in Nat /\ Len(typed) \in Nat /\ Len(given) \in Nat /\ MaxCommands \in Nat
  BY <1>1, LenProperties, TransferAssumption
<1>3. Count(toServer, Wants) \in Nat
  BY <1>2, BeforeType DEF Count
<1>4. typed # <<>> => Len(typed) > 0
  BY <1>1, EmptySeq
<1> QED BY <1>1, <1>2, <1>3, <1>4 DEF Ids

LEMMA RangeOf ==
  ASSUME NEW S, NEW q \in Seq(S), NEW x \in Range(q)
  PROVE  \E i \in 1..Len(q) : q[i] = x
BY RangeEquality

LEMMA BasicIsTyped == ASSUME Basic PROVE TypeOK
<1>1. /\ client \in {"command", "read", "send", "exited"} /\ turn \in Nat
      /\ sharers \in [Keys -> Sharer \union {None}] /\ queue \in Seq(Sharer)
      /\ home \in [Places -> Seq(Piece) \union {None}]
  BY DEF Basic, ClientSide, Map
<1>2. /\ server \in {"serving", "ended"} /\ offers \in [Keys -> Sharer \union {None}]
      /\ senders \subseteq Sharer /\ store \in [Names -> Seq(Piece) \union {None}]
  BY DEF Basic, ServerSide, Map
<1>3. toServer \in Seq(ClientMessages) /\ toClient \in Seq(ServerMessages)
  BY DEF Basic, Between
<1>4. next \in Ids /\ free \in Ids
  BY NumbersAreIds
<1>5. \A s \in senders : s.written <= s.size
  BY DEF Basic, ServerSide, SenderShape
<1>6. NamesAreNoNumbers => \A s \in Range(queue) : s.written <= s.size
  <2> SUFFICES ASSUME NamesAreNoNumbers, NEW s \in Range(queue) PROVE s.written <= s.size
    OBVIOUS
  <2>1. PICK i \in 1..Len(queue) : queue[i] = s
    BY <1>1, RangeOf
  <2> QED BY <2>1 DEF Basic, ClientSide, QueueShape
<1> QED BY <1>1, <1>2, <1>3, <1>4, <1>5, <1>6 DEF TypeOK, Basic, History

LEMMA InitBasic == Init => Basic
<1> SUFFICES ASSUME Init PROVE Basic
  OBVIOUS
<1>1. \A file \in Stored : Original(file) \in Seq(Piece)
  BY OriginalFacts
<1>2. ClientSide
  <2>1. sharers \in Map /\ home \in [Places -> Seq(Piece) \union {None}] /\ queue \in Seq(Sharer)
    BY DEF Init, Map
  <2> QED BY <2>1 DEF Init, ClientSide, ClientShape, IsRead, IsWrite
<1>3. ServerSide
  <2>1. offers \in Map /\ store \in [Names -> Seq(Piece) \union {None}]
    BY <1>1 DEF Init, Map
  <2>2. StoredIsKept
    BY TransferAssumption DEF Init, StoredIsKept
  <2> QED BY <2>1, <2>2 DEF Init, ServerSide, ServerShape
<1>4. Between /\ History
  BY TransferAssumption DEF Init, Between, History
<1>5. Count(toServer, Wants) = 0
  BY NoneBefore DEF Init, Count
<1>6. Numbers
  BY <1>5 DEF Init, Numbers
<1> QED BY <1>2, <1>3, <1>4, <1>6 DEF Basic

-----------------------------------------------------------------------------
(* What the steps do, key by key *)

LEMMA RemoveFacts ==
  ASSUME NEW S, NEW q \in Seq(S), NEW i \in 1..Len(q)
  PROVE  /\ RemoveAt(q, i) \in Seq(S) /\ Len(RemoveAt(q, i)) = Len(q) - 1
         /\ \A j \in 1..(Len(q) - 1) : RemoveAt(q, i)[j] = IF j < i THEN q[j] ELSE q[j + 1]
<1> DEFINE a == SubSeq(q, 1, i - 1)
           b == SubSeq(q, i + 1, Len(q))
<1>1. a \in Seq(S) /\ Len(a) = i - 1 /\ \A j \in 1..(i - 1) : a[j] = q[j]
  OBVIOUS
<1>2. b \in Seq(S) /\ Len(b) = Len(q) - i /\ \A j \in 1..(Len(q) - i) : b[j] = q[i + j]
  OBVIOUS
<1>3. RemoveAt(q, i) = a \o b
  BY DEF RemoveAt
<1> HIDE DEF a, b
<1>4. /\ a \o b \in Seq(S) /\ Len(a \o b) = Len(q) - 1
      /\ \A j \in 1..(Len(q) - 1) : (a \o b)[j] = IF j <= Len(a) THEN a[j] ELSE b[j - Len(a)]
  <2>1. /\ a \o b \in Seq(S) /\ Len(a \o b) = Len(a) + Len(b)
        /\ \A j \in 1..(Len(a) + Len(b)) :
             (a \o b)[j] = IF j <= Len(a) THEN a[j] ELSE b[j - Len(a)]
    BY <1>1, <1>2, ConcatProperties
  <2>2. Len(a) + Len(b) = Len(q) - 1
    BY <1>1, <1>2
  <2> QED BY <2>1, <2>2
<1>5. ASSUME NEW j \in 1..(Len(q) - 1) PROVE (a \o b)[j] = IF j < i THEN q[j] ELSE q[j + 1]
  <2>1. CASE j < i
    BY <1>1, <1>4, <2>1
  <2>2. CASE ~(j < i)
    <3>1. j - Len(a) \in 1..(Len(q) - i) /\ i + (j - Len(a)) = j + 1
      BY <1>1, <2>2
    <3> QED BY <1>1, <1>2, <1>4, <2>2, <3>1
  <2> QED BY <2>1, <2>2
<1> QED BY <1>3, <1>4, <1>5

\* No transfer moves.
Quiet ==
  /\ client' \in {"command", "read", "send", "exited"}
  /\ client = "exited" => client' = "exited"
  /\ turn' \in Nat \ {0} /\ server' \in {"serving", "ended"}
  /\ UNCHANGED <<typed, local, toServer, offers, free, senders, store, toClient, past, given>>

\* The socket took a part of a chunk.
PartSent ==
  /\ turn' \in Nat \ {0}
  /\ toServer' = Append(toServer, Part)
  /\ UNCHANGED <<typed, client, local, remote, toClient, past, given>>

CommandTyped(c) ==
  /\ c \in Commands /\ Len(given) < MaxCommands
  /\ "download" \in DOMAIN c => home[c.download.place] = None
  /\ typed' = Append(typed, c) /\ given' = Append(given, c)
  /\ UNCHANGED <<client, turn, local, toServer, remote, toClient, past>>

Commanded ==
  /\ client = "command" /\ client' \in {"read", "exited"}
  /\ typed # <<>> /\ typed' = Tail(typed)
  /\ UNCHANGED <<turn, queue, remote, toClient, refused, announced, saved, given>>

UploadBegins(u) ==
  /\ Commanded /\ u \in Uploads /\ Head(typed) = [upload |-> u]
  /\ next' = next + 1
  /\ sharers' \in Map
  /\ Is(sharers'[next], u.path, "read", u.name, Size[u.path], next, 0)
  /\ \A key \in Keys : key # next => sharers'[key] = IF key = u.name THEN None ELSE sharers[key]
  /\ \/ /\ client' = "read" /\ asked' = Append(asked, u)
        /\ toServer' = Append(toServer, [kind |-> "RequestFileUpload",
             name |-> u.name, size |-> Size[u.path], id |-> next])
     \/ client' = "exited" /\ UNCHANGED <<toServer, asked>>
  /\ UNCHANGED <<home, sought>>

DownloadBegins(d) ==
  /\ Commanded /\ d \in Downloads /\ Head(typed) = [download |-> d]
  /\ home' = [home EXCEPT ![d.place] = <<>>]
  /\ sharers' \in Map
  /\ Is(sharers'[d.name], d.place, "write", d.name, 0, 0, 0)
  /\ \A key \in Keys : key # d.name => sharers'[key] = sharers[key]
  /\ \/ /\ client' = "read" /\ sought' = sought \union {d}
        /\ toServer' = Append(toServer, [kind |-> "RequestFileDownload", name |-> d.name])
     \/ client' = "exited" /\ UNCHANGED <<toServer, sought>>
  /\ UNCHANGED <<next, asked>>

Received(m) ==
  /\ client = "read" /\ client' \in {"send", "exited"}
  /\ toClient # <<>> /\ m = Head(toClient) /\ m \in ServerMessages /\ toClient' = Tail(toClient)
  /\ UNCHANGED <<typed, turn, next, remote, asked, sought, announced, given>>

ChunkIgnored(m) ==
  /\ Received(m) /\ m.kind = "Chunk" /\ ~IsWrite(sharers[m.id])
  /\ UNCHANGED <<sharers, home, saved, queue, toServer, refused>>

ChunkSaved(m) ==
  /\ Received(m) /\ m.kind = "Chunk" /\ IsWrite(sharers[m.id])
  /\ LET s == sharers[m.id]
         x == Accepted(s, m.data)
     IN  /\ home' = [home EXCEPT ![s.file] = Overwritten(@, s.written, x)]
         /\ sharers' \in Map
         /\ \A key \in Keys : key # m.id => sharers'[key] = sharers[key]
         /\ \/ /\ s.written + Len(x) >= s.size
               /\ sharers'[m.id] = None
               /\ saved' = saved \union {[name |-> s.name, place |-> s.file]}
            \/ /\ s.written + Len(x) < s.size
               /\ Is(sharers'[m.id], s.file, "write", s.name, s.size, s.id, s.written + Len(x))
               /\ saved' = saved
  /\ UNCHANGED <<queue, toServer, refused>>

UploadAgreed(m) ==
  /\ Received(m) /\ m.kind = "AgreeFileUpload"
  /\ queue' = IF sharers[m.id] = None THEN queue ELSE Append(queue, sharers[m.id])
  /\ sharers' \in Map /\ sharers'[m.id] = None
  /\ \A key \in Keys : key # m.id => sharers'[key] = sharers[key]
  /\ UNCHANGED <<home, toServer, refused, saved>>

UploadDeclined(m) ==
  /\ Received(m) /\ m.kind = "DeclineFileUpload"
  /\ sharers' \in Map /\ sharers'[m.id] = None
  /\ \A key \in Keys : key # m.id => sharers'[key] = sharers[key]
  /\ refused' = refused \union {[upload |-> m.id]}
  /\ UNCHANGED <<queue, home, toServer, saved>>

DownloadOffered(m) ==
  /\ Received(m) /\ m.kind = "AgreeFileDownload"
  /\ sharers' \in Map
  /\ sharers[m.name] = None => sharers' = sharers
  /\ sharers[m.name] # None =>
       /\ Is(sharers'[m.id], sharers[m.name].file, sharers[m.name].mode, sharers[m.name].name,
             m.size, m.id, sharers[m.name].written)
       /\ \A key \in Keys : key # m.id =>
            sharers'[key] = IF key = m.name THEN None ELSE sharers[key]
  /\ \/ toServer' = Append(toServer, [kind |-> "AgreeFileDownload", id |-> m.id])
     \/ client' = "exited" /\ UNCHANGED toServer
  /\ UNCHANGED <<queue, home, refused, saved>>

DownloadDeclined(m) ==
  /\ Received(m) /\ m.kind = "DeclineFileDownload"
  /\ sharers' \in Map /\ sharers'[m.name] = None
  /\ \A key \in Keys : key # m.name => sharers'[key] = sharers[key]
  /\ refused' = refused \union {[download |-> m.name]}
  /\ UNCHANGED <<queue, home, toServer, saved>>

\* w is what was sent of the i-th of the queue then.
ChunkSent(i, w) ==
  /\ client = "send" /\ client' \in {"send", "exited"}
  /\ i \in 1..Len(queue) /\ queue[i].mode = "read" /\ turn' \in Nat \ {0}
  /\ LET data == Portion(Original(queue[i].file), queue[i].written) IN
       /\ w = queue[i].written + Len(data)
       /\ toServer' = Append(toServer, Chunk(queue[i].id, data))
  /\ \/ /\ queue[i].size = w
        /\ Len(queue') = Len(queue) - 1
        /\ \A j \in 1..(Len(queue) - 1) : queue'[j] = IF j < i THEN queue[j] ELSE queue[j + 1]
     \/ /\ queue[i].size # w
        /\ Len(queue') = Len(queue)
        /\ Is(queue'[i], queue[i].file, "read", queue[i].name, queue[i].size, queue[i].id, w)
        /\ \A j \in 1..Len(queue) : j # i => queue'[j] = queue[j]
     \/ client' = "exited" /\ queue' = queue
  /\ queue' \in Seq(Sharer)
  /\ UNCHANGED <<typed, sharers, next, home, remote, toClient, past, given>>

Served(m) ==
  /\ toServer # <<>> /\ m = Head(toServer) /\ m \in ClientMessages /\ toServer' = Tail(toServer)
  /\ UNCHANGED <<typed, client, turn, local, asked, sought, refused, saved, given>>

UploadRefused(m) ==
  /\ Served(m) /\ m.kind = "RequestFileUpload"
  /\ toClient' = Append(toClient, [kind |-> "DeclineFileUpload", id |-> m.id])
  /\ UNCHANGED <<remote, announced>>

UploadGranted(m) ==
  /\ Served(m) /\ m.kind = "RequestFileUpload"
  /\ store[m.name] = None /\ store' = [store EXCEPT ![m.name] = <<>>]
  /\ offers' \in Map
  /\ Is(offers'[m.id], m.name, "write", m.name, m.size, m.id, 0)
  /\ \A key \in Keys : key # m.id => offers'[key] = IF key = m.name THEN None ELSE offers[key]
  /\ toClient' = Append(toClient, [kind |-> "AgreeFileUpload", id |-> m.id])
  /\ UNCHANGED <<server, free, senders, announced>>

DownloadRefused(m) ==
  /\ Served(m) /\ m.kind = "RequestFileDownload"
  /\ toClient' = Append(toClient, [kind |-> "DeclineFileDownload", name |-> m.name])
  /\ UNCHANGED <<remote, announced>>

DownloadGranted(m) ==
  /\ Served(m) /\ m.kind = "RequestFileDownload"
  /\ store[m.name] # None /\ free' = free + 1
  /\ offers' \in Map
  /\ Is(offers'[free], m.name, "read", m.name, Len(store[m.name]), free, 0)
  /\ \A key \in Keys : key # free => offers'[key] = IF key = m.name THEN None ELSE offers[key]
  /\ toClient' = Append(toClient, [kind |-> "AgreeFileDownload", name |-> m.name,
                                   size |-> Len(store[m.name]), id |-> free])
  /\ UNCHANGED <<server, senders, store, announced>>

SenderStarts(m) ==
  /\ Served(m) /\ m.kind = "AgreeFileDownload"
  /\ senders' = IF offers[m.id] = None THEN senders ELSE senders \union {offers[m.id]}
  /\ offers' \in Map /\ offers'[m.id] = None
  /\ \A key \in Keys : key # m.id => offers'[key] = offers[key]
  /\ UNCHANGED <<server, free, store, toClient, announced>>

\* A chunk no upload waits for, or a part of one.
ChunkDropped(m) ==
  /\ Served(m) /\ (m.kind = "Part" \/ (m.kind = "Chunk" /\ ~IsWrite(offers[m.id])))
  /\ server' \in {"serving", "ended"}
  /\ UNCHANGED <<offers, free, senders, store, toClient, announced>>

ChunkStored(m) ==
  /\ Served(m) /\ m.kind = "Chunk" /\ IsWrite(offers[m.id])
  /\ LET s == offers[m.id]
         x == Accepted(s, m.data)
     IN  /\ store' = [store EXCEPT ![s.file] = Overwritten(@, s.written, x)]
         /\ offers' \in Map
         /\ \A key \in Keys : key # m.id => offers'[key] = offers[key]
         /\ \/ /\ s.written + Len(x) >= s.size
               /\ offers'[m.id] = None
               /\ announced' = announced \union {s.name}
            \/ /\ s.written + Len(x) < s.size
               /\ Is(offers'[m.id], s.file, "write", s.name, s.size, s.id, s.written + Len(x))
               /\ announced' = announced
  /\ UNCHANGED <<server, free, senders, toClient>>

ChunkForwarded(s, t) ==
  /\ s \in senders /\ s.mode = "read" /\ s.written < s.size
  /\ Is(t, s.file, "read", s.name, s.size, s.id, s.written + 1)
  /\ senders' = (senders \ {s}) \union {t}
  /\ toClient' = Append(toClient, Chunk(s.id, Portion(store[s.file], s.written)))
  /\ Len(Portion(store[s.file], s.written)) = 1
  /\ UNCHANGED <<typed, client, turn, local, toServer, server, offers, free, store, past, given>>

SenderStops(s) ==
  /\ senders' = senders \ {s}
  /\ UNCHANGED <<typed, client, turn, local, toServer, server, offers, free, store, toClient,
                 past, given>>

OfClient ==
  \/ Quiet \/ PartSent
  \/ \E c \in Commands : CommandTyped(c)
  \/ \E u \in Uploads : UploadBegins(u)
  \/ \E d \in Downloads : DownloadBegins(d)
  \/ \E m \in ServerMessages :
       \/ ChunkIgnored(m) \/ ChunkSaved(m) \/ UploadAgreed(m) \/ UploadDeclined(m)
       \/ DownloadOffered(m) \/ DownloadDeclined(m)
  \/ \E i \in 1..Len(queue), w \in Nat : ChunkSent(i, w)

OfServer ==
  \/ \E m \in ClientMessages :
       \/ UploadRefused(m) \/ UploadGranted(m) \/ DownloadRefused(m) \/ DownloadGranted(m)
       \/ SenderStarts(m) \/ ChunkDropped(m) \/ ChunkStored(m)
  \/ \E s, t \in Sharer : ChunkForwarded(s, t)
  \/ \E s \in Sharer : SenderStops(s)

Step == OfClient \/ OfServer

-----------------------------------------------------------------------------

LEMMA QuietStep ==
  ASSUME Basic,
         \/ command_ends \/ no_command \/ no_message \/ send_chunk_fails \/ all_served
         \/ read_fails \/ UNCHANGED vars
  PROVE  Quiet
<1> USE DEF Quiet, local, remote, past
<1>1. /\ client \in {"command", "read", "send", "exited"} /\ server \in {"serving", "ended"}
      /\ turn \in Nat \ {0}
  BY DEF Basic, ClientSide, ServerSide
<1>2. CASE no_command
  BY <1>1, <1>2 DEF no_command
<1>3. CASE no_message
  BY <1>1, <1>3 DEF no_message
<1>4. CASE command_ends
  BY <1>1, <1>4 DEF command_ends, exits
<1>5. CASE send_chunk_fails
  BY <1>1, <1>5 DEF send_chunk_fails, exits, Sending
<1>6. CASE all_served
  BY <1>1, <1>6 DEF all_served
<1>7. CASE read_fails
  BY <1>1, <1>7 DEF read_fails
<1>8. CASE UNCHANGED vars
  BY <1>1, <1>8 DEF vars
<1> QED BY <1>2, <1>3, <1>4, <1>5, <1>6, <1>7, <1>8

LEMMA LaterStep == ASSUME Basic, send_chunk_later PROVE Quiet \/ PartSent
<1>1. client \in {"command", "read", "send", "exited"} /\ server \in {"serving", "ended"}
      /\ turn' \in Nat \ {0}
  BY DEF Basic, ClientSide, ServerSide, send_chunk_later
<1>2. \/ UNCHANGED toServer
      \/ toServer' = Append(toServer, Part)
  BY DEF send_chunk_later, Refused
<1>3. UNCHANGED <<typed, client, local, remote, toClient, past, given>>
  BY DEF send_chunk_later
<1>4. CASE UNCHANGED toServer
  BY <1>1, <1>3, <1>4 DEF Quiet, local, remote, past
<1>5. CASE toServer' = Append(toServer, Part)
  BY <1>1, <1>3, <1>5 DEF PartSent
<1> QED BY <1>2, <1>4, <1>5

LEMMA TypeStep == ASSUME type_command PROVE \E c \in Commands : CommandTyped(c)
BY DEF type_command, CommandTyped

LEMMA CommandStep ==
  ASSUME Basic, handle_user_command
  PROVE  \/ \E u \in Uploads : UploadBegins(u)
         \/ \E d \in Downloads : DownloadBegins(d)
<1>1. /\ sharers \in Map /\ next \in Ids /\ next \in Nat
      /\ typed \in Seq(Commands) /\ typed # <<>> /\ Head(typed) \in Commands
  <2>1. typed \in Seq(Commands) /\ typed # <<>>
    BY DEF Basic, History, handle_user_command
  <2> QED BY <2>1, HeadTailProperties, NumbersAreIds DEF Basic, ClientSide, Numbers
<1>2. ASSUME NEW u \in Uploads, Head(typed) = [upload |-> u] PROVE UploadBegins(u)
  <2>1. perform_upload_file(u)
    BY <1>2 DEF handle_user_command
  <2>2. /\ u.path \in Files /\ u.name \in Names /\ Size[u.path] \in Nat
    BY TransferAssumption DEF Files
  <2>3. sharers' = promote_sharer(prepare_sharer(sharers, FileSharer(u.path, "read", u.name)),
                                  u.name, Size[u.path], next)
    BY <2>1 DEF perform_upload_file
  <2>4. /\ sharers' \in Map
        /\ Is(sharers'[next], u.path, "read", u.name, Size[u.path], next, 0)
        /\ \A key \in Keys : key # next =>
             sharers'[key] = IF key = u.name THEN None ELSE sharers[key]
    BY <1>1, <2>2, <2>3, Filed
  <2>5. Commanded /\ next' = next + 1 /\ UNCHANGED <<home, sought>>
    BY <2>1 DEF perform_upload_file, handle_user_command, Commanded, exits, free_id
  <2>6. \/ /\ client' = "read" /\ asked' = Append(asked, u)
           /\ toServer' = Append(toServer, [kind |-> "RequestFileUpload",
                name |-> u.name, size |-> Size[u.path], id |-> next])
        \/ client' = "exited" /\ UNCHANGED <<toServer, asked>>
    BY <2>1 DEF perform_upload_file, exits
  <2> QED BY <1>2, <2>4, <2>5, <2>6 DEF UploadBegins
<1>3. ASSUME NEW d \in Downloads, Head(typed) = [download |-> d] PROVE DownloadBegins(d)
  <2>1. perform_download_file(d)
    BY <1>3 DEF handle_user_command
  <2>2. d.place \in Files /\ d.name \in Names
    BY TransferAssumption DEF Files
  <2>3. sharers' = prepare_sharer(sharers, FileSharer(d.place, "write", d.name))
    BY <2>1 DEF perform_download_file
  <2>4. /\ sharers' \in Map
        /\ Is(sharers'[d.name], d.place, "write", d.name, 0, 0, 0)
        /\ \A key \in Keys : key # d.name => sharers'[key] = sharers[key]
    BY <1>1, <2>2, <2>3, Prepared
  <2>5. /\ Commanded /\ home' = [home EXCEPT ![d.place] = <<>>] /\ UNCHANGED <<next, asked>>
    BY <2>1 DEF perform_download_file, handle_user_command, Commanded, exits
  <2>6. \/ /\ client' = "read" /\ sought' = sought \union {d}
           /\ toServer' = Append(toServer, [kind |-> "RequestFileDownload", name |-> d.name])
        \/ client' = "exited" /\ UNCHANGED <<toServer, sought>>
    BY <2>1 DEF perform_download_file, exits
  <2> QED BY <1>3, <2>4, <2>5, <2>6 DEF DownloadBegins
<1>4. \/ \E u \in Uploads : Head(typed) = [upload |-> u]
      \/ \E d \in Downloads : Head(typed) = [download |-> d]
  BY <1>1 DEF Commands
<1> QED BY <1>2, <1>3, <1>4

LEMMA ReceiveStep ==
  ASSUME Basic, read_and_handle_server_message
  PROVE  \E m \in ServerMessages :
           \/ ChunkIgnored(m) \/ ChunkSaved(m) \/ UploadAgreed(m) \/ UploadDeclined(m)
           \/ DownloadOffered(m) \/ DownloadDeclined(m)
<1> DEFINE m == Head(toClient)
<1>1. /\ toClient \in Seq(ServerMessages) /\ toClient # <<>> /\ sharers \in Map
  BY DEF read_and_handle_server_message, Basic, Between, ClientSide
<1>2. m \in ServerMessages
  BY <1>1, HeadTailProperties
<1>3. /\ client = "read" /\ toClient' = Tail(toClient)
      /\ UNCHANGED <<typed, turn, next, remote, asked, sought, announced, given>>
      /\ \/ handle_server_chunk(m) \/ handle_server_agree_file_upload(m)
         \/ handle_server_decline_file_upload(m) \/ handle_server_agree_file_download(m)
         \/ handle_server_decline_file_download(m)
  BY DEF read_and_handle_server_message
<1>4. client' \in {"send", "exited"} => Received(m)
  BY <1>1, <1>2, <1>3 DEF Received
<1> HIDE DEF m
<1>5. CASE handle_server_chunk(m)
  <2>1. m.kind = "Chunk" /\ m.id \in Keys /\ m.data \in Seq(Piece)
    BY <1>2, <1>5, ToClient DEF handle_server_chunk, Keys
  <2>2. Received(m) /\ UNCHANGED <<queue, toServer, refused>>
    BY <1>4, <1>5 DEF handle_server_chunk, exits
  <2>3. sharers[m.id] # None => sharers[m.id] \in Sharer /\ sharers[m.id].mode \in {"read", "write"}
    BY <1>1, <2>1, SharerFields DEF Map
  <2>4. CASE ~IsWrite(sharers[m.id])
    <3>1. UNCHANGED <<sharers, home, saved>>
      BY <1>5, <2>4 DEF handle_server_chunk, IsWrite
    <3> QED BY <1>2, <2>1, <2>2, <2>4, <3>1 DEF ChunkIgnored
  <2>5. CASE IsWrite(sharers[m.id])
    <3> DEFINE s == sharers[m.id]
               x == Accepted(s, m.data)
    <3>1. /\ s # None /\ s.mode = "write" /\ s \in Sharer
      BY <2>3, <2>5 DEF IsWrite
    <3>2. /\ home' = Filled(home, s, m.data)
          /\ sharers' = Advanced(sharers, m.id, m.data)
          /\ saved' = IF done(s, m.data)
                        THEN saved \union {[name |-> s.name, place |-> s.file]} ELSE saved
      BY <1>5, <3>1 DEF handle_server_chunk
    <3>3. home' = [home EXCEPT ![s.file] = Overwritten(@, s.written, x)]
      BY <3>2 DEF Filled
    <3>4. /\ sharers' \in Map
          /\ \A key \in Keys : key # m.id => sharers'[key] = sharers[key]
          /\ done(s, m.data) <=> s.written + Len(x) >= s.size
          /\ done(s, m.data) => sharers'[m.id] = None
          /\ ~done(s, m.data) => Is(sharers'[m.id], s.file, s.mode, s.name, s.size, s.id,
                                    s.written + Len(x))
      BY <1>1, <2>1, <3>1, <3>2, Advance
    <3>5. s.written \in Nat /\ s.size \in Nat /\ Len(x) \in Nat
      BY <2>1, <3>1, SharerFields, AcceptedFacts
    <3> HIDE DEF x
    <3>6. \/ /\ s.written + Len(x) >= s.size
             /\ sharers'[m.id] = None
             /\ saved' = saved \union {[name |-> s.name, place |-> s.file]}
          \/ /\ s.written + Len(x) < s.size
             /\ Is(sharers'[m.id], s.file, "write", s.name, s.size, s.id, s.written + Len(x))
             /\ saved' = saved
      <4>1. CASE done(s, m.data)
        BY <3>2, <3>4, <4>1
      <4>2. CASE ~done(s, m.data)
        BY <3>1, <3>2, <3>4, <3>5, <4>2
      <4> QED BY <4>1, <4>2
    <3>7. ChunkSaved(m)
      BY <2>1, <2>2, <2>5, <3>3, <3>4, <3>6 DEF ChunkSaved, x
    <3> QED BY <1>2, <3>7
  <2> QED BY <2>4, <2>5
<1>6. CASE handle_server_agree_file_upload(m)
  <2>1. m.kind = "AgreeFileUpload" /\ m.id \in Keys
    BY <1>2, <1>6, ToClient DEF handle_server_agree_file_upload, Keys
  <2>2. sharers' = remove_sharer(sharers, m.id)
    BY <1>6 DEF handle_server_agree_file_upload
  <2>3. /\ sharers' \in Map /\ sharers'[m.id] = None
        /\ \A key \in Keys : key # m.id => sharers'[key] = sharers[key]
    BY <1>1, <2>1, <2>2, Taken
  <2>4. UploadAgreed(m)
    BY <1>4, <1>6, <2>1, <2>3 DEF handle_server_agree_file_upload, UploadAgreed
  <2> QED BY <1>2, <2>4
<1>7. CASE handle_server_decline_file_upload(m)
  <2>1. m.kind = "DeclineFileUpload" /\ m.id \in Keys
    BY <1>2, <1>7, ToClient DEF handle_server_decline_file_upload, Keys
  <2>2. sharers' = remove_sharer(sharers, m.id)
    BY <1>7 DEF handle_server_decline_file_upload
  <2>3. /\ sharers' \in Map /\ sharers'[m.id] = None
        /\ \A key \in Keys : key # m.id => sharers'[key] = sharers[key]
    BY <1>1, <2>1, <2>2, Taken
  <2>4. UploadDeclined(m)
    BY <1>4, <1>7, <2>1, <2>3 DEF handle_server_decline_file_upload, UploadDeclined
  <2> QED BY <1>2, <2>4
<1>8. CASE handle_server_agree_file_download(m)
  <2>1. m.kind = "AgreeFileDownload" /\ m.id \in Ids /\ m.name \in Names /\ m.size \in Nat
    BY <1>2, <1>8, ToClient DEF handle_server_agree_file_download
  <2>2. sharers' = promote_sharer(sharers, m.name, m.size, m.id)
    BY <1>8 DEF handle_server_agree_file_download
  <2>3. /\ sharers' \in Map
        /\ sharers[m.name] = None => sharers' = sharers
        /\ sharers[m.name] # None =>
             /\ Is(sharers'[m.id], sharers[m.name].file, sharers[m.name].mode,
                   sharers[m.name].name, m.size, m.id, sharers[m.name].written)
             /\ \A key \in Keys : key # m.id =>
                  sharers'[key] = IF key = m.name THEN None ELSE sharers[key]
    BY <1>1, <2>1, <2>2, Promoted
  <2>4. client' \in {"send", "exited"} /\ UNCHANGED <<queue, home, refused, saved>>
    BY <1>8 DEF handle_server_agree_file_download, exits
  <2>5. \/ toServer' = Append(toServer, [kind |-> "AgreeFileDownload", id |-> m.id])
        \/ client' = "exited" /\ UNCHANGED toServer
    BY <1>8 DEF handle_server_agree_file_download, exits
  <2>6. DownloadOffered(m)
    BY <1>4, <2>1, <2>3, <2>4, <2>5 DEF DownloadOffered
  <2> QED BY <1>2, <2>6
<1>9. CASE handle_server_decline_file_download(m)
  <2>1. m.kind = "DeclineFileDownload" /\ m.name \in Keys
    BY <1>2, <1>9, ToClient DEF handle_server_decline_file_download, Keys
  <2>2. sharers' = remove_sharer(sharers, m.name)
    BY <1>9 DEF handle_server_decline_file_download
  <2>3. /\ sharers' \in Map /\ sharers'[m.name] = None
        /\ \A key \in Keys : key # m.name => sharers'[key] = sharers[key]
    BY <1>1, <2>1, <2>2, Taken
  <2>4. DownloadDeclined(m)
    BY <1>4, <1>9, <2>1, <2>3 DEF handle_server_decline_file_download, DownloadDeclined
  <2> QED BY <1>2, <2>4
<1> QED BY <1>3, <1>5, <1>6, <1>7, <1>8, <1>9

LEMMA SendStep ==
  ASSUME Basic, send_chunk
  PROVE  \E i \in 1..Len(queue), w \in Nat : ChunkSent(i, w)
<1>1. /\ client = "send" /\ turn \in 1..Len(queue) /\ queue[turn].mode = "read"
      /\ turn \in Nat \ {0} /\ queue \in Seq(Sharer)
  BY DEF send_chunk, Sending, Basic, ClientSide
<1> DEFINE i == turn
           s == queue[i]
           data == Portion(Original(s.file), s.written)
           w == s.written + Len(data)
           sent == [s EXCEPT !.written = w]
<1>2. s \in Sharer /\ s.written \in Nat /\ s.size \in Nat
  <2>1. s \in Sharer
    BY <1>1
  <2> HIDE DEF s
  <2> QED BY <2>1, SharerFields
<1>3. s.file \in Paths \union Stored
  BY <1>1 DEF Basic, ClientSide, QueueShape
<1>4. data \in Seq(Piece) /\ w \in Nat
  <2>1. Original(s.file) \in Seq(Piece)
    BY <1>3, OriginalFacts
  <2>2. data \in Seq(Piece)
    BY <1>2, <2>1, PortionFacts
  <2> QED BY <1>2, <2>2
<1>5. Is(sent, s.file, s.mode, s.name, s.size, s.id, w)
  BY <1>2, <1>4, Moved
<1>6. toServer' = Append(toServer, Chunk(s.id, data))
  <2>1. toServer' = Append(toServer, Chunk(sent.id, data))
    BY DEF send_chunk
  <2> QED BY <1>5, <2>1 DEF Is
<1>7. rest(sent) = s.size - w
  BY <1>5 DEF rest, Is
<1>8. /\ UNCHANGED <<typed, sharers, next, home, remote, toClient, past, given>>
      /\ \/ rest(sent) = 0 /\ queue' = RemoveAt(queue, i) /\ UNCHANGED <<turn, client>>
         \/ /\ rest(sent) # 0 /\ queue' = [queue EXCEPT ![i] = sent] /\ turn' = turn + 1
            /\ UNCHANGED client
         \/ client' = "exited" /\ UNCHANGED <<queue, turn>>
  BY DEF send_chunk, exits
<1> HIDE DEF s, data, w, sent
<1>9. client' \in {"send", "exited"} /\ turn' \in Nat \ {0}
  BY <1>1, <1>8
<1>10. /\ \/ /\ s.size = w
             /\ Len(queue') = Len(queue) - 1
             /\ \A j \in 1..(Len(queue) - 1) :
                  queue'[j] = IF j < i THEN queue[j] ELSE queue[j + 1]
          \/ /\ s.size # w
             /\ Len(queue') = Len(queue)
             /\ queue'[i] = sent
             /\ \A j \in 1..Len(queue) : j # i => queue'[j] = queue[j]
          \/ client' = "exited" /\ queue' = queue
       /\ queue' \in Seq(Sharer)
  <2>1. CASE rest(sent) = 0 /\ queue' = RemoveAt(queue, i)
    <3>1. s.size = w
      BY <1>2, <1>4, <1>7, <2>1
    <3> QED BY <1>1, <2>1, <3>1, RemoveFacts
  <2>2. CASE rest(sent) # 0 /\ queue' = [queue EXCEPT ![i] = sent]
    <3>1. s.size # w
      BY <1>2, <1>4, <1>7, <2>2
    <3>2. sent \in Sharer
      BY <1>5 DEF Is
    <3>3. /\ queue' \in Seq(Sharer) /\ Len(queue') = Len(queue)
          /\ \A j \in 1..Len(queue) : queue'[j] = IF j = i THEN sent ELSE queue[j]
      BY <1>1, <2>2, <3>2, ExceptSeq
    <3> QED BY <1>1, <3>1, <3>3
  <2>3. CASE client' = "exited" /\ queue' = queue
    BY <1>1, <2>3
  <2> QED BY <1>8, <2>1, <2>2, <2>3
<1>11. Is(sent, s.file, "read", s.name, s.size, s.id, w)
  BY <1>1, <1>5 DEF s
<1>12. ChunkSent(i, w)
  BY <1>1, <1>6, <1>8, <1>9, <1>10, <1>11 DEF ChunkSent, s, data, w
<1> QED BY <1>1, <1>4, <1>12

LEMMA ServeStep ==
  ASSUME Basic, handle_client_message
  PROVE  \E m \in ClientMessages :
           \/ UploadRefused(m) \/ UploadGranted(m) \/ DownloadRefused(m) \/ DownloadGranted(m)
           \/ SenderStarts(m) \/ ChunkDropped(m) \/ ChunkStored(m)
<1> DEFINE m == Head(toServer)
<1>1. /\ toServer \in Seq(ClientMessages) /\ toServer # <<>> /\ offers \in Map
      /\ store \in [Names -> Seq(Piece) \union {None}]
      /\ server \in {"serving", "ended"} /\ free \in Ids
  BY NumbersAreIds DEF handle_client_message, Basic, Between, ServerSide
<1>2. m \in ClientMessages
  BY <1>1, HeadTailProperties
<1>3. /\ toServer' = Tail(toServer)
      /\ UNCHANGED <<typed, client, turn, local, asked, sought, refused, saved, given>>
      /\ \/ handle_client_request_file_upload(m) \/ handle_client_request_file_download(m)
         \/ handle_client_agree_file_download(m) \/ handle_client_chunk(m)
         \/ handle_client_part(m)
  BY DEF handle_client_message
<1>4. Served(m)
  BY <1>1, <1>2, <1>3 DEF Served
<1> HIDE DEF m
<1>5. CASE handle_client_request_file_upload(m)
  <2>1. m.kind = "RequestFileUpload" /\ m.name \in Names /\ m.size \in Nat /\ m.id \in Ids
    BY <1>2, <1>5, ToServer DEF handle_client_request_file_upload
  <2>2. UNCHANGED <<server, free, senders, announced>>
    BY <1>5 DEF handle_client_request_file_upload
  <2>3. CASE /\ toClient' = Append(toClient, [kind |-> "DeclineFileUpload", id |-> m.id])
             /\ UNCHANGED <<offers, store>>
    <3>1. UploadRefused(m)
      BY <1>4, <2>1, <2>2, <2>3 DEF UploadRefused, remote
    <3> QED BY <1>2, <3>1
  <2>4. CASE /\ store[m.name] = None
             /\ store' = [store EXCEPT ![m.name] = <<>>]
             /\ offers' = promote_sharer(
                  prepare_sharer(offers, FileSharer(m.name, "write", m.name)),
                  m.name, m.size, m.id)
             /\ toClient' = Append(toClient, [kind |-> "AgreeFileUpload", id |-> m.id])
    <3>1. m.name \in Files
      BY <2>1 DEF Files
    <3>2. /\ offers' \in Map
          /\ Is(offers'[m.id], m.name, "write", m.name, m.size, m.id, 0)
          /\ \A key \in Keys : key # m.id =>
               offers'[key] = IF key = m.name THEN None ELSE offers[key]
      BY <1>1, <2>1, <2>4, <3>1, Filed
    <3>3. UploadGranted(m)
      BY <1>4, <2>1, <2>2, <2>4, <3>2 DEF UploadGranted
    <3> QED BY <1>2, <3>3
  <2> QED BY <1>5, <2>3, <2>4 DEF handle_client_request_file_upload, Answer
<1>6. CASE handle_client_request_file_download(m)
  <2>1. m.kind = "RequestFileDownload" /\ m.name \in Names
    BY <1>2, <1>6, ToServer DEF handle_client_request_file_download
  <2>2. UNCHANGED <<server, senders, store, announced>>
    BY <1>6 DEF handle_client_request_file_download
  <2>3. CASE /\ toClient' = Append(toClient, [kind |-> "DeclineFileDownload", name |-> m.name])
             /\ UNCHANGED <<offers, free>>
    <3>1. DownloadRefused(m)
      BY <1>4, <2>1, <2>2, <2>3 DEF DownloadRefused, remote
    <3> QED BY <1>2, <3>1
  <2>4. CASE /\ store[m.name] # None /\ free' = free + 1
             /\ offers' = promote_sharer(
                  prepare_sharer(offers, FileSharer(m.name, "read", m.name)),
                  m.name, Len(store[m.name]), free)
             /\ toClient' = Append(toClient, [kind |-> "AgreeFileDownload", name |-> m.name,
                                              size |-> Len(store[m.name]), id |-> free])
    <3>1. m.name \in Files /\ Len(store[m.name]) \in Nat
      BY <1>1, <2>1, <2>4 DEF Files
    <3>2. /\ offers' \in Map
          /\ Is(offers'[free], m.name, "read", m.name, Len(store[m.name]), free, 0)
          /\ \A key \in Keys : key # free =>
               offers'[key] = IF key = m.name THEN None ELSE offers[key]
      BY <1>1, <2>1, <2>4, <3>1, Filed
    <3>3. DownloadGranted(m)
      BY <1>4, <2>1, <2>2, <2>4, <3>2 DEF DownloadGranted
    <3> QED BY <1>2, <3>3
  <2> QED BY <1>6, <2>3, <2>4 DEF handle_client_request_file_download, Answer
<1>7. CASE handle_client_agree_file_download(m)
  <2>1. m.kind = "AgreeFileDownload" /\ m.id \in Keys
    BY <1>2, <1>7, ToServer DEF handle_client_agree_file_download, Keys
  <2>2. offers' = remove_sharer(offers, m.id)
    BY <1>7 DEF handle_client_agree_file_download
  <2>3. /\ offers' \in Map /\ offers'[m.id] = None
        /\ \A key \in Keys : key # m.id => offers'[key] = offers[key]
    BY <1>1, <2>1, <2>2, Taken
  <2>4. SenderStarts(m)
    BY <1>4, <1>7, <2>1, <2>3 DEF handle_client_agree_file_download, SenderStarts
  <2> QED BY <1>2, <2>4
<1>8. CASE handle_client_chunk(m)
  <2>1. m.kind = "Chunk" /\ m.id \in Keys /\ m.data \in Seq(Piece)
    BY <1>2, <1>8, ToServer DEF handle_client_chunk, Keys
  <2>2. UNCHANGED <<free, senders, toClient>>
    BY <1>8 DEF handle_client_chunk
  <2>3. offers[m.id] # None => offers[m.id] \in Sharer /\ offers[m.id].mode \in {"read", "write"}
    BY <1>1, <2>1, SharerFields DEF Map
  <2>4. CASE ~IsWrite(offers[m.id])
    <3>1. server' \in {"serving", "ended"} /\ UNCHANGED <<offers, store, announced>>
      BY <1>1, <1>8, <2>4 DEF handle_client_chunk, IsWrite
    <3>2. ChunkDropped(m)
      BY <1>4, <2>1, <2>2, <2>4, <3>1 DEF ChunkDropped
    <3> QED BY <1>2, <3>2
  <2>5. CASE IsWrite(offers[m.id])
    <3> DEFINE s == offers[m.id]
               x == Accepted(s, m.data)
    <3>1. /\ s # None /\ s.mode = "write" /\ s \in Sharer
      BY <2>3, <2>5 DEF IsWrite
    <3>2. /\ store' = Filled(store, s, m.data)
          /\ offers' = Advanced(offers, m.id, m.data)
          /\ announced' = IF done(s, m.data) THEN announced \union {s.name} ELSE announced
          /\ UNCHANGED server
      BY <1>8, <3>1 DEF handle_client_chunk
    <3>3. store' = [store EXCEPT ![s.file] = Overwritten(@, s.written, x)]
      BY <3>2 DEF Filled
    <3>4. /\ offers' \in Map
          /\ \A key \in Keys : key # m.id => offers'[key] = offers[key]
          /\ done(s, m.data) <=> s.written + Len(x) >= s.size
          /\ done(s, m.data) => offers'[m.id] = None
          /\ ~done(s, m.data) => Is(offers'[m.id], s.file, s.mode, s.name, s.size, s.id,
                                    s.written + Len(x))
      BY <1>1, <2>1, <3>1, <3>2, Advance
    <3>5. s.written \in Nat /\ s.size \in Nat /\ Len(x) \in Nat
      BY <2>1, <3>1, SharerFields, AcceptedFacts
    <3> HIDE DEF x
    <3>6. \/ /\ s.written + Len(x) >= s.size
             /\ offers'[m.id] = None
             /\ announced' = announced \union {s.name}
          \/ /\ s.written + Len(x) < s.size
             /\ Is(offers'[m.id], s.file, "write", s.name, s.size, s.id, s.written + Len(x))
             /\ announced' = announced
      <4>1. CASE done(s, m.data)
        BY <3>2, <3>4, <4>1
      <4>2. CASE ~done(s, m.data)
        BY <3>1, <3>2, <3>4, <3>5, <4>2
      <4> QED BY <4>1, <4>2
    <3>7. ChunkStored(m)
      BY <1>4, <2>1, <2>2, <2>5, <3>2, <3>3, <3>4, <3>6 DEF ChunkStored, x
    <3> QED BY <1>2, <3>7
  <2> QED BY <2>4, <2>5
<1>9. CASE handle_client_part(m)
  <2>1. /\ m.kind = "Part" /\ server' \in {"serving", "ended"}
        /\ UNCHANGED <<offers, free, senders, store, toClient, announced>>
    BY <1>9 DEF handle_client_part, Part
  <2>2. ChunkDropped(m)
    BY <1>4, <2>1 DEF ChunkDropped
  <2> QED BY <1>2, <2>2
<1> QED BY <1>3, <1>5, <1>6, <1>7, <1>8, <1>9

LEMMA SenderStep ==
  ASSUME Basic, Sender
  PROVE  \/ \E s, t \in Sharer : ChunkForwarded(s, t)
         \/ \E s \in Sharer : SenderStops(s)
<1>1. PICK s \in senders : send_file(s) \/ send_file_ends(s)
  BY DEF Sender
<1>2. s \in Sharer /\ SenderShape(s) /\ s.written \in Nat /\ s.size \in Nat
  BY SharerFields DEF Basic, ServerSide
<1>3. CASE send_file(s)
  <2> DEFINE data == Portion(store[s.file], s.written)
             t == [s EXCEPT !.written = s.written + 1]
  <2>1. s.mode = "read" /\ s.written < s.size
    BY <1>2, <1>3 DEF send_file, rest
  <2>2. store[s.file] \in Seq(Piece) /\ s.size <= Len(store[s.file])
    BY <1>2, <2>1 DEF SenderShape, Readable, Basic, ServerSide
  <2>3. Len(data) = 1
    <3>1. s.written < Len(store[s.file])
      BY <1>2, <2>1, <2>2
    <3> QED BY <1>2, <2>2, <3>1, PortionFacts
  <2>4. Is(t, s.file, s.mode, s.name, s.size, s.id, s.written + 1)
    BY <1>2, Moved
  <2>5. senders' = (senders \ {s}) \union {t}
    BY <1>3, <2>3 DEF send_file
  <2>6. toClient' = Append(toClient, Chunk(s.id, data))
    BY <1>3 DEF send_file, Answer
  <2>7. UNCHANGED <<typed, client, turn, local, toServer, server, offers, free, store, past,
                    given>>
    BY <1>3 DEF send_file
  <2> HIDE DEF t
  <2>8. ChunkForwarded(s, t)
    BY <1>1, <2>1, <2>3, <2>4, <2>5, <2>6, <2>7 DEF ChunkForwarded
  <2>9. t \in Sharer
    BY <2>4 DEF Is
  <2> QED BY <1>2, <2>8, <2>9
<1>4. CASE send_file_ends(s)
  <2>1. SenderStops(s)
    BY <1>4 DEF send_file_ends, SenderStops
  <2> QED BY <1>2, <2>1
<1> QED BY <1>1, <1>3, <1>4

LEMMA Steps == ASSUME Basic, [Next]_vars PROVE Step
<1>1. CASE \/ command_ends \/ no_command \/ no_message \/ send_chunk_fails \/ all_served
           \/ read_fails \/ UNCHANGED vars
  BY <1>1, QuietStep DEF Step, OfClient
<1>2. CASE type_command
  BY <1>2, TypeStep DEF Step, OfClient
<1>3. CASE handle_user_command
  BY <1>3, CommandStep DEF Step, OfClient
<1>4. CASE read_and_handle_server_message
  BY <1>4, ReceiveStep DEF Step, OfClient
<1>5. CASE send_chunk
  BY <1>5, SendStep DEF Step, OfClient
<1>6. CASE handle_client_message
  BY <1>6, ServeStep DEF Step, OfServer
<1>7. CASE Sender
  BY <1>7, SenderStep DEF Step, OfServer
<1>8. CASE send_chunk_later
  BY <1>8, LaterStep DEF Step, OfClient
<1> QED BY <1>1, <1>2, <1>3, <1>4, <1>5, <1>6, <1>7, <1>8 DEF Next, Loop

-----------------------------------------------------------------------------
(* What the two sides hold stays in shape *)

LEMMA KeepClientSide ==
  ASSUME ClientSide, client' \in {"command", "read", "send", "exited"}, turn' \in Nat \ {0},
         UNCHANGED <<sharers, queue, home>>
  PROVE  ClientSide'
BY DEF ClientSide, ClientShape, QueueShape

LEMMA KeepServerSide ==
  ASSUME ServerSide, server' \in {"serving", "ended"}, UNCHANGED <<offers, senders, store>>
  PROVE  ServerSide'
BY DEF ServerSide, ServerShape, SenderShape, Readable, StoredIsKept

\* A map in which nothing is new but a sharer that is none, or in shape.
LEMMA ClientMap ==
  ASSUME ClientSide, client' \in {"command", "read", "send", "exited"},
         sharers' \in Map, UNCHANGED <<turn, queue, home>>,
         \A key \in Keys : sharers'[key] \in {None, sharers[key]} \/ ClientShape(key)'
  PROVE  ClientSide'
<1>1. ASSUME NEW key \in Keys PROVE ClientShape(key)'
  <2>1. CASE sharers'[key] = None
    BY <2>1 DEF ClientShape, IsRead, IsWrite
  <2>2. CASE sharers'[key] = sharers[key]
    <3>1. ClientShape(key) /\ home' = home
      BY DEF ClientSide
    <3> QED BY <2>2, <3>1 DEF ClientShape
  <2> QED BY <2>1, <2>2
<1> QED BY <1>1 DEF ClientSide, QueueShape

LEMMA ServerMap ==
  ASSUME ServerSide, offers' \in Map, UNCHANGED <<server, senders, store>>,
         \A key \in Keys : offers'[key] \in {None, offers[key]} \/ ServerShape(key)'
  PROVE  ServerSide'
<1>1. \A key \in Keys : ServerShape(key)'
  BY DEF ServerSide, ServerShape, IsRead, IsWrite, Readable
<1> QED BY <1>1 DEF ServerSide, SenderShape, Readable, StoredIsKept

LEMMA AppendNumbers ==
  ASSUME Basic, NEW m \in ClientMessages, toServer' = Append(toServer, m)
  PROVE  /\ toServer' \in Seq(ClientMessages)
         /\ Count(toServer', Wants) =
              Count(toServer, Wants) + (IF m.kind = "RequestFileDownload" THEN 1 ELSE 0)
         /\ Count(toServer, Wants) \in Nat
<1>1. toServer \in Seq(ClientMessages) /\ Count(toServer, Wants) \in Nat
  BY NumbersAreIds DEF Basic, Between
<1>2. m \in Wants <=> m.kind = "RequestFileDownload"
  BY ToServer
<1>3. Count(toServer', Wants) = Count(toServer, Wants) + (IF m \in Wants THEN 1 ELSE 0)
  BY <1>1, BeforeAppend
<1> QED BY <1>1, <1>2, <1>3, AppendProperties

LEMMA TailNumbers ==
  ASSUME Basic, toServer # <<>>, NEW m, m = Head(toServer), toServer' = Tail(toServer)
  PROVE  /\ toServer' \in Seq(ClientMessages) /\ m \in ClientMessages
         /\ Count(toServer, Wants) =
              Count(toServer', Wants) + (IF m.kind = "RequestFileDownload" THEN 1 ELSE 0)
         /\ Count(toServer, Wants) \in Nat /\ Count(toServer', Wants) \in Nat
<1>1. toServer \in Seq(ClientMessages) /\ Count(toServer, Wants) \in Nat
  BY NumbersAreIds DEF Basic, Between
<1>2. m \in ClientMessages /\ toServer' \in Seq(ClientMessages)
  BY <1>1, HeadTailProperties
<1>3. m \in Wants <=> m.kind = "RequestFileDownload"
  BY <1>2, ToServer
<1>4. Count(toServer, Wants) = Count(toServer', Wants) + (IF m \in Wants THEN 1 ELSE 0)
  BY <1>1, BeforeTail
<1>5. Len(toServer') + 1 \in Nat
  BY <1>2, LenProperties
<1>6. Count(toServer', Wants) \in Nat
  BY <1>5, BeforeType DEF Count
<1> QED BY <1>1, <1>2, <1>3, <1>4, <1>6

LEMMA QuietBasic == ASSUME Basic, Quiet PROVE Basic'
<1>1. ClientSide' /\ ServerSide'
  BY KeepClientSide, KeepServerSide DEF Basic, Quiet, local
<1>2. Between' /\ History'
  BY DEF Basic, Quiet, local, past, Between, History
<1>3. Numbers'
  <2>1. Count(toServer, Wants)' = Count(toServer, Wants)
    BY DEF Quiet
  <2> QED BY <2>1 DEF Basic, Quiet, local, past, Numbers
<1> QED BY <1>1, <1>2, <1>3 DEF Basic

LEMMA PartBasic == ASSUME Basic, PartSent PROVE Basic'
<1>1. UNCHANGED <<typed, client, sharers, next, queue, home, server, offers, free, senders, store,
                  toClient, asked, sought, refused, announced, saved, given>>
  BY DEF PartSent, local, remote, past
<1>2. Part \in ClientMessages /\ Part.kind # "RequestFileDownload"
  BY DEF ClientMessages, Part
<1>3. ClientSide' /\ ServerSide'
  BY <1>1, KeepClientSide, KeepServerSide DEF Basic, ClientSide, ServerSide, PartSent
<1>4. toServer' \in Seq(ClientMessages) /\ Count(toServer', Wants) = Count(toServer, Wants)
  <2>1. toServer' = Append(toServer, Part) /\ Count(toServer, Wants) \in Nat
    BY NumbersAreIds DEF PartSent, Basic
  <2> QED BY <1>2, <2>1, AppendNumbers
<1>5. Between'
  BY <1>1, <1>4 DEF Basic, Between
<1>6. History'
  BY <1>1 DEF Basic, History
<1>7. Numbers'
  BY <1>1, <1>4 DEF Basic, Numbers
<1> QED BY <1>3, <1>5, <1>6, <1>7 DEF Basic

LEMMA TypedBasic == ASSUME Basic, NEW c \in Commands, CommandTyped(c) PROVE Basic'
<1>1. ClientSide' /\ ServerSide'
  BY KeepClientSide, KeepServerSide DEF Basic, CommandTyped, local, remote, ClientSide, ServerSide
<1>2. Between'
  BY DEF Basic, CommandTyped, Between
<1>3. /\ typed \in Seq(Commands) /\ given \in Seq(Commands)
      /\ Len(given) < MaxCommands /\ MaxCommands \in Nat
      /\ typed' = Append(typed, c) /\ given' = Append(given, c)
  BY TransferAssumption DEF Basic, CommandTyped, History
<1>4. /\ typed' \in Seq(Commands) /\ given' \in Seq(Commands)
      /\ Len(typed') = Len(typed) + 1 /\ Len(given') = Len(given) + 1
      /\ Len(typed) \in Nat /\ Len(given) \in Nat
  BY <1>3, AppendProperties
<1>5. History'
  BY <1>3, <1>4 DEF Basic, CommandTyped, past, History
<1>6. Numbers'
  <2>1. Count(toServer, Wants)' = Count(toServer, Wants) /\ Count(toServer, Wants) \in Nat
    BY NumbersAreIds DEF CommandTyped
  <2> QED BY <1>4, <2>1 DEF Basic, CommandTyped, local, remote, past, Numbers
<1> QED BY <1>1, <1>2, <1>5, <1>6 DEF Basic

LEMMA CommandedFacts ==
  ASSUME Basic, Commanded
  PROVE  /\ typed' \in Seq(Commands) /\ Len(typed') + 1 = Len(typed) /\ Len(typed') \in Nat
         /\ Len(given) \in Nat /\ ServerSide' /\ client # "exited"
<1>1. typed \in Seq(Commands) /\ typed # <<>> /\ typed' = Tail(typed) /\ given \in Seq(Commands)
  BY DEF Basic, History, Commanded
<1>2. ServerSide'
  BY KeepServerSide DEF Basic, ServerSide, Commanded, remote
<1> QED BY <1>1, <1>2, HeadTailProperties DEF Commanded

LEMMA UploadBasic == ASSUME Basic, NEW u \in Uploads, UploadBegins(u) PROVE Basic'
<1>1. /\ typed' \in Seq(Commands) /\ Len(typed') + 1 = Len(typed) /\ Len(typed') \in Nat
      /\ Len(given) \in Nat /\ ServerSide' /\ client # "exited" /\ Commanded
  BY CommandedFacts DEF UploadBegins
<1>2. /\ next \in Ids /\ next \in Nat /\ free \in Nat /\ u.path \in Paths /\ u.name \in Names
      /\ Size[u.path] \in Nat
  BY NumbersAreIds, TransferAssumption DEF Basic, Numbers
<1>3. ClientSide'
  <2>1. ASSUME NEW key \in Keys
        PROVE  sharers'[key] \in {None, sharers[key]} \/ ClientShape(key)'
    <3>1. CASE key = next
      <4>1. Is(sharers'[key], u.path, "read", u.name, Size[u.path], next, 0)
        BY <3>1 DEF UploadBegins
      <4> QED BY <1>2, <3>1, <4>1 DEF Is, ClientShape, IsRead, IsWrite
    <3>2. CASE key # next
      BY <3>2 DEF UploadBegins
    <3> QED BY <3>1, <3>2
  <2> QED BY <2>1, <1>1, ClientMap DEF Basic, UploadBegins, Commanded
<1>4. asked \in Seq(Uploads) /\ asked' \in Seq(Uploads)
  <2>1. asked \in Seq(Uploads)
    BY DEF Basic, History
  <2>2. Append(asked, u) \in Seq(Uploads)
    BY <2>1, AppendProperties
  <2> QED BY <2>1, <2>2 DEF UploadBegins
<1>5. History'
  BY <1>1, <1>4 DEF Basic, History, UploadBegins, Commanded
<1>6. /\ next + free + Count(toServer, Wants) + Len(typed) <= Len(given)
      /\ next = Len(asked) /\ Count(toServer, Wants) \in Nat
  BY <1>1, NumbersAreIds DEF Basic, Numbers
<1>7. CASE client' = "exited" /\ UNCHANGED <<toServer, asked>>
  <2>1. Between' /\ Count(toServer, Wants)' = Count(toServer, Wants)
    BY <1>7 DEF Basic, Between, UploadBegins, Commanded
  <2>2. Numbers'
    BY <1>1, <1>2, <1>6, <1>7, <2>1 DEF Numbers, UploadBegins, Commanded, remote
  <2> QED BY <1>1, <1>3, <1>5, <2>1, <2>2 DEF Basic
<1>8. CASE /\ client' = "read" /\ asked' = Append(asked, u)
           /\ toServer' = Append(toServer, [kind |-> "RequestFileUpload",
                name |-> u.name, size |-> Size[u.path], id |-> next])
  <2>1. [kind |-> "RequestFileUpload", name |-> u.name, size |-> Size[u.path], id |-> next]
           \in ClientMessages
    BY <1>2 DEF ClientMessages
  <2>2. toServer' \in Seq(ClientMessages) /\ Count(toServer', Wants) = Count(toServer, Wants)
    BY <1>6, <1>8, <2>1, AppendNumbers
  <2>3. Between'
    BY <2>2 DEF Basic, Between, UploadBegins, Commanded
  <2>4. Len(asked') = Len(asked) + 1
    BY <1>4, <1>8, AppendProperties
  <2>5. Numbers'
    BY <1>1, <1>2, <1>6, <1>8, <2>2, <2>4 DEF Numbers, UploadBegins, Commanded, remote
  <2> QED BY <1>1, <1>3, <1>5, <2>3, <2>5 DEF Basic
<1> QED BY <1>7, <1>8 DEF UploadBegins

LEMMA DownloadBasic == ASSUME Basic, NEW d \in Downloads, DownloadBegins(d) PROVE Basic'
<1>1. /\ typed' \in Seq(Commands) /\ Len(typed') + 1 = Len(typed) /\ Len(typed') \in Nat
      /\ Len(given) \in Nat /\ ServerSide' /\ client # "exited" /\ Commanded
  BY CommandedFacts DEF DownloadBegins
<1>2. /\ next \in Nat /\ free \in Nat /\ d.place \in Places /\ d.name \in Names /\ 0 \in Ids
      /\ d = [name |-> d.name, place |-> d.place] /\ d.name \in Keys
  BY NumbersAreIds, TransferAssumption DEF Basic, Numbers, Keys
<1>3. ClientSide'
  <2>1. home \in [Places -> Seq(Piece) \union {None}] /\ home' = [home EXCEPT ![d.place] = <<>>]
    BY DEF Basic, ClientSide, DownloadBegins
  <2>2. home' \in [Places -> Seq(Piece) \union {None}]
    <3>1. <<>> \in Seq(Piece)
      OBVIOUS
    <3> QED BY <2>1, <3>1
  <2>3. \A place \in Places : home[place] # None \/ place = d.place => home'[place] # None
    <3>1. <<>> \in Seq(Piece) /\ None \notin Seq(Piece)
      BY TransferAssumption
    <3>2. <<>> # None
      BY <3>1
    <3> QED BY <1>2, <2>1, <3>2
  <2>4. ASSUME NEW key \in Keys PROVE ClientShape(key)'
    <3>1. CASE key = d.name
      <4>1. Is(sharers'[key], d.place, "write", d.name, 0, 0, 0)
        BY <3>1 DEF DownloadBegins
      <4>2. home'[d.place] # None
        BY <1>2, <2>3
      <4> QED BY <1>2, <4>1, <4>2 DEF Is, ClientShape, IsRead, IsWrite
    <3>2. CASE key # d.name
      <4>1. sharers'[key] = sharers[key] /\ ClientShape(key)
        BY <3>2 DEF DownloadBegins, Basic, ClientSide
      <4> QED BY <2>3, <4>1 DEF ClientShape
    <3> QED BY <3>1, <3>2
  <2> QED BY <1>1, <2>2, <2>4 DEF Basic, ClientSide, QueueShape, DownloadBegins, Commanded
<1>4. History'
  BY <1>1 DEF Basic, History, DownloadBegins, Commanded
<1>5. /\ next + free + Count(toServer, Wants) + Len(typed) <= Len(given)
      /\ next = Len(asked) /\ Count(toServer, Wants) \in Nat
  BY <1>1, NumbersAreIds DEF Basic, Numbers
<1>6. CASE client' = "exited" /\ UNCHANGED <<toServer, sought>>
  <2>1. Between' /\ Count(toServer, Wants)' = Count(toServer, Wants)
    BY <1>6 DEF Basic, Between, DownloadBegins, Commanded
  <2>2. Numbers'
    BY <1>1, <1>2, <1>5, <1>6, <2>1 DEF Numbers, DownloadBegins, Commanded, remote
  <2> QED BY <1>1, <1>3, <1>4, <2>1, <2>2 DEF Basic
<1>7. CASE /\ client' = "read"
           /\ toServer' = Append(toServer, [kind |-> "RequestFileDownload", name |-> d.name])
  <2>1. [kind |-> "RequestFileDownload", name |-> d.name] \in ClientMessages
    BY <1>2 DEF ClientMessages
  <2>2. toServer' \in Seq(ClientMessages) /\ Count(toServer', Wants) = Count(toServer, Wants) + 1
    BY <1>5, <1>7, <2>1, AppendNumbers
  <2>3. Between'
    BY <2>2 DEF Basic, Between, DownloadBegins, Commanded
  <2>4. Numbers'
    BY <1>1, <1>2, <1>5, <1>7, <2>2 DEF Numbers, DownloadBegins, Commanded, remote
  <2> QED BY <1>1, <1>3, <1>4, <2>3, <2>4 DEF Basic
<1> QED BY <1>6, <1>7 DEF DownloadBegins

LEMMA ReceivedFacts ==
  ASSUME Basic, NEW m \in ServerMessages, Received(m)
  PROVE  /\ toClient' \in Seq(ServerMessages) /\ ServerSide'
         /\ client # "exited" /\ client' \in {"command", "read", "send", "exited"}
         /\ UNCHANGED <<turn, typed, next, free, given, asked, sought, announced>>
<1>1. toClient \in Seq(ServerMessages) /\ toClient # <<>> /\ toClient' = Tail(toClient)
  BY DEF Basic, Between, Received
<1>2. toClient' \in Seq(ServerMessages)
  BY <1>1, HeadTailProperties
<1>3. ServerSide'
  BY KeepServerSide DEF Basic, ServerSide, Received, remote
<1> QED BY <1>2, <1>3 DEF Received, remote

\* The client has received a message, and sent nothing but an agreement.
LEMMA ReceivedNumbers ==
  ASSUME Basic, NEW m \in ServerMessages, Received(m),
         \/ UNCHANGED toServer
         \/ \E k \in Ids : toServer' = Append(toServer, [kind |-> "AgreeFileDownload", id |-> k])
  PROVE  Between' /\ Numbers'
<1>1. /\ toClient' \in Seq(ServerMessages) /\ client # "exited"
      /\ UNCHANGED <<typed, next, free, given, asked>>
  BY ReceivedFacts
<1>2. toServer' \in Seq(ClientMessages) /\ Count(toServer', Wants) = Count(toServer, Wants)
  <2>1. CASE UNCHANGED toServer
    BY <2>1 DEF Basic, Between
  <2>2. CASE \E k \in Ids : toServer' = Append(toServer, [kind |-> "AgreeFileDownload", id |-> k])
    <3>1. PICK k \in Ids : toServer' = Append(toServer, [kind |-> "AgreeFileDownload", id |-> k])
      BY <2>2
    <3>2. [kind |-> "AgreeFileDownload", id |-> k] \in ClientMessages
      BY DEF ClientMessages
    <3> QED BY <3>1, <3>2, AppendNumbers
  <2> QED BY <2>1, <2>2
<1> QED BY <1>1, <1>2 DEF Basic, Between, Numbers

LEMMA ChunkIgnoredBasic ==
  ASSUME Basic, NEW m \in ServerMessages, ChunkIgnored(m) PROVE Basic'
<1>1. /\ ServerSide' /\ client' \in {"command", "read", "send", "exited"}
      /\ UNCHANGED <<turn, typed, given, asked, sought, announced>>
  BY ReceivedFacts DEF ChunkIgnored
<1>2. Between' /\ Numbers'
  BY ReceivedNumbers DEF ChunkIgnored
<1>3. ClientSide'
  BY <1>1, KeepClientSide DEF Basic, ClientSide, ChunkIgnored
<1>4. History'
  BY <1>1 DEF Basic, History, ChunkIgnored
<1> QED BY <1>1, <1>2, <1>3, <1>4 DEF Basic

LEMMA ChunkSavedBasic ==
  ASSUME Basic, NEW m \in ServerMessages, ChunkSaved(m) PROVE Basic'
<1>1. /\ ServerSide' /\ client' \in {"command", "read", "send", "exited"}
      /\ UNCHANGED <<turn, typed, given, asked, sought, announced>>
  BY ReceivedFacts DEF ChunkSaved
<1>2. Between' /\ Numbers'
  BY ReceivedNumbers DEF ChunkSaved
<1>3. m.id \in Ids /\ m.id \in Keys /\ m.data \in Seq(Piece)
  BY ToClient DEF ChunkSaved, Keys
<1> DEFINE s == sharers[m.id]
           x == Accepted(s, m.data)
<1>4. s \in Sharer /\ IsWrite(s) /\ ClientShape(m.id)
  BY <1>3 DEF ChunkSaved, IsWrite, Basic, ClientSide, Map
<1>5. /\ s.written \in Nat /\ x \in Seq(Piece) /\ Len(x) \in Nat /\ s.size \in Nat
      /\ s.file \in Places /\ home[s.file] # None /\ s.id \in Ids
      /\ [name |-> s.name, place |-> s.file] \in Downloads
      /\ s.written <= s.size => s.written + Len(x) <= s.size
  BY <1>3, <1>4, SharerFields, AcceptedFacts DEF ClientShape
<1>6. /\ home \in [Places -> Seq(Piece) \union {None}]
      /\ home' = [home EXCEPT ![s.file] = Overwritten(home[s.file], s.written, x)]
      /\ sharers' \in Map
      /\ \A key \in Keys : key # m.id => sharers'[key] = sharers[key]
      /\ \/ /\ sharers'[m.id] = None
            /\ saved' = saved \union {[name |-> s.name, place |-> s.file]}
         \/ /\ Is(sharers'[m.id], s.file, "write", s.name, s.size, s.id, s.written + Len(x))
            /\ saved' = saved
  BY DEF ChunkSaved, Basic, ClientSide
<1>7. Overwritten(home[s.file], s.written, x) \in Seq(Piece)
  <2>1. home[s.file] \in Seq(Piece)
    BY <1>5, <1>6
  <2> HIDE DEF s, x
  <2> QED BY <1>5, <2>1, OverwrittenType
<1> HIDE DEF s, x
<1>8. /\ home' \in [Places -> Seq(Piece) \union {None}]
      /\ \A place \in Places : home[place] # None => home'[place] # None
  <2>1. Overwritten(home[s.file], s.written, x) # None
    BY <1>7, TransferAssumption
  <2> QED BY <1>6, <1>7, <2>1
<1>9. ASSUME NEW key \in Keys PROVE ClientShape(key)'
  <2>1. ClientShape(key) /\ ClientShape(m.id)
    BY <1>4 DEF Basic, ClientSide
  <2>2. CASE key # m.id
    <3>1. sharers'[key] = sharers[key]
      BY <1>6, <2>2
    <3>2. IsWrite(sharers[key]) => home'[sharers[key].file] # None
      BY <1>8, <2>1 DEF ClientShape
    <3> QED BY <2>1, <3>1, <3>2 DEF ClientShape
  <2>3. CASE key = m.id /\ sharers'[m.id] = None
    BY <2>3 DEF ClientShape, IsRead, IsWrite
  <2>4. CASE /\ key = m.id
             /\ Is(sharers'[m.id], s.file, "write", s.name, s.size, s.id, s.written + Len(x))
    <3>1. NamesAreNoNumbers => s.written + Len(x) <= s.size /\ key \notin Names
      BY <1>3, <1>4, <1>5, <2>4 DEF ClientShape, NamesAreNoNumbers, s
    <3> QED BY <1>5, <1>8, <2>4, <3>1 DEF Is, ClientShape, IsRead, IsWrite
  <2> QED BY <1>6, <2>2, <2>3, <2>4
<1>10. ClientSide'
  BY <1>1, <1>6, <1>8, <1>9 DEF Basic, ClientSide, QueueShape, ChunkSaved
<1>11. History'
  BY <1>1, <1>5, <1>6 DEF Basic, History, ChunkSaved
<1> QED BY <1>1, <1>2, <1>10, <1>11 DEF Basic

LEMMA UploadAgreedBasic ==
  ASSUME Basic, NEW m \in ServerMessages, UploadAgreed(m) PROVE Basic'
<1>1. /\ ServerSide' /\ client' \in {"command", "read", "send", "exited"}
      /\ UNCHANGED <<turn, typed, given, asked, sought, announced>>
  BY ReceivedFacts DEF UploadAgreed
<1>2. Between' /\ Numbers'
  BY ReceivedNumbers DEF UploadAgreed
<1>3. m.id \in Keys
  BY ToClient DEF UploadAgreed, Keys
<1>4. \A key \in Keys : ClientShape(key)'
  <2>1. \A key \in Keys : sharers'[key] \in {None, sharers[key]} /\ ClientShape(key) /\ home' = home
    BY DEF UploadAgreed, Basic, ClientSide
  <2> QED BY <2>1 DEF ClientShape, IsRead, IsWrite
<1>5. queue' \in Seq(Sharer) /\ \A i \in 1..Len(queue') : QueueShape(i)'
  <2>1. queue \in Seq(Sharer) /\ (\A i \in 1..Len(queue) : QueueShape(i))
        /\ ClientShape(m.id) /\ sharers \in Map
    BY <1>3 DEF Basic, ClientSide
  <2>2. CASE sharers[m.id] = None
    <3>1. queue' = queue
      BY <2>2 DEF UploadAgreed
    <3> QED BY <2>1, <3>1 DEF QueueShape
  <2>3. CASE sharers[m.id] # None
    <3> DEFINE s == sharers[m.id]
    <3>1. s \in Sharer /\ queue' = Append(queue, s)
      BY <1>3, <2>1, <2>3 DEF UploadAgreed, Map
    <3>2. s.mode \in {"read", "write"} /\ s.written \in Nat /\ s.size \in Nat
      BY <3>1, SharerFields
    <3>3. /\ s.mode = "read" => s.id \in Ids /\ s.file \in Paths
          /\ NamesAreNoNumbers =>
               /\ s.written <= s.size
               /\ s.mode = "read" => s.size = Size[s.file]
      BY <2>1, <2>3, <3>2 DEF ClientShape, IsRead, IsWrite
    <3> HIDE DEF s
    <3>4. /\ queue' \in Seq(Sharer) /\ Len(queue') = Len(queue) + 1 /\ queue'[Len(queue) + 1] = s
          /\ \A i \in 1..Len(queue) : queue'[i] = queue[i]
      BY <2>1, <3>1, AppendProperties
    <3>5. ASSUME NEW i \in 1..Len(queue') PROVE QueueShape(i)'
      <4>1. CASE i \in 1..Len(queue)
        BY <2>1, <3>4, <4>1 DEF QueueShape
      <4>2. CASE i = Len(queue) + 1
        BY <3>3, <3>4, <4>2 DEF QueueShape
      <4> QED BY <2>1, <3>4, <4>1, <4>2
    <3> QED BY <3>4, <3>5
  <2> QED BY <2>2, <2>3
<1>6. ClientSide'
  BY <1>1, <1>4, <1>5 DEF Basic, ClientSide, UploadAgreed
<1>7. History'
  BY <1>1 DEF Basic, History, UploadAgreed
<1> QED BY <1>1, <1>2, <1>6, <1>7 DEF Basic

LEMMA DeclinedBasic ==
  ASSUME Basic, NEW m \in ServerMessages, UploadDeclined(m) \/ DownloadDeclined(m)
  PROVE  Basic'
<1>1. Received(m)
  BY DEF UploadDeclined, DownloadDeclined
<1>2. /\ ServerSide' /\ client' \in {"command", "read", "send", "exited"}
      /\ UNCHANGED <<turn, typed, given, asked, sought, announced>>
  BY <1>1, ReceivedFacts
<1>3. Between' /\ Numbers'
  BY <1>1, ReceivedNumbers DEF UploadDeclined, DownloadDeclined
<1>4. ClientSide'
  <2>1. /\ sharers' \in Map /\ UNCHANGED <<queue, home>>
        /\ \A key \in Keys : sharers'[key] \in {None, sharers[key]}
    BY DEF UploadDeclined, DownloadDeclined
  <2> QED BY <1>2, <2>1, ClientMap DEF Basic
<1>5. refused' \subseteq [upload : Ids] \union [download : Names] /\ saved' = saved
  BY ToClient DEF UploadDeclined, DownloadDeclined, Basic, History
<1>6. History'
  BY <1>2, <1>5 DEF Basic, History
<1> QED BY <1>2, <1>3, <1>4, <1>6 DEF Basic

LEMMA DownloadOfferedBasic ==
  ASSUME Basic, NEW m \in ServerMessages, DownloadOffered(m) PROVE Basic'
<1>1. /\ ServerSide' /\ client' \in {"command", "read", "send", "exited"}
      /\ UNCHANGED <<turn, typed, given, asked, sought, announced>>
  BY ReceivedFacts DEF DownloadOffered
<1>2. m.id \in Ids /\ m.id \in Keys /\ m.name \in Names /\ m.name \in Keys /\ m.size \in Nat
  BY ToClient DEF DownloadOffered, Keys
<1>3. Between' /\ Numbers'
  BY <1>2, ReceivedNumbers DEF DownloadOffered
<1>4. sharers' \in Map /\ UNCHANGED <<queue, home>> /\ ClientShape(m.name) /\ sharers \in Map
  BY <1>2 DEF DownloadOffered, Basic, ClientSide
<1>5. ASSUME NEW key \in Keys PROVE sharers'[key] \in {None, sharers[key]} \/ ClientShape(key)'
  <2>1. CASE sharers[m.name] = None
    BY <2>1 DEF DownloadOffered
  <2>2. CASE sharers[m.name] # None /\ key # m.id
    BY <2>2 DEF DownloadOffered
  <2>3. CASE sharers[m.name] # None /\ key = m.id
    <3> DEFINE s == sharers[m.name]
    <3>1. Is(sharers'[key], s.file, s.mode, s.name, m.size, m.id, s.written)
      BY <2>3 DEF DownloadOffered
    <3>2. NamesAreNoNumbers => m.name \notin Ids /\ m.id \notin Names
      BY <1>2 DEF NamesAreNoNumbers
    <3>3. /\ IsRead(s) => ~NamesAreNoNumbers /\ s.written = 0 /\ s.file \in Paths
          /\ IsWrite(s) =>
               /\ [name |-> s.name, place |-> s.file] \in Downloads
               /\ s.file \in Places /\ home[s.file] # None
               /\ NamesAreNoNumbers => s.written = 0
      BY <1>2, <1>4, <3>2 DEF ClientShape
    <3>4. IsRead(sharers'[key]) <=> IsRead(s)
      BY <2>3, <3>1 DEF Is, IsRead
    <3>5. IsWrite(sharers'[key]) <=> IsWrite(s)
      BY <2>3, <3>1 DEF Is, IsWrite
    <3> HIDE DEF s
    <3>6. ClientShape(key)'
      BY <1>2, <1>4, <2>3, <3>1, <3>2, <3>3, <3>4, <3>5 DEF Is, ClientShape
    <3> QED BY <3>6
  <2> QED BY <2>1, <2>2, <2>3
<1>6. ClientSide'
  BY <1>1, <1>4, <1>5, ClientMap DEF Basic
<1>7. History'
  BY <1>1 DEF Basic, History, DownloadOffered
<1> QED BY <1>1, <1>3, <1>6, <1>7 DEF Basic

LEMMA ChunkSentBasic ==
  ASSUME Basic, NEW i \in 1..Len(queue), NEW w \in Nat, ChunkSent(i, w) PROVE Basic'
<1> DEFINE s == queue[i]
           data == Portion(Original(s.file), s.written)
<1>1. /\ queue \in Seq(Sharer) /\ s \in Sharer /\ QueueShape(i) /\ s.mode = "read"
      /\ client' \in {"command", "read", "send", "exited"} /\ client # "exited"
  BY DEF Basic, ClientSide, ChunkSent
<1>2. /\ s.id \in Ids /\ s.file \in Paths /\ s.written \in Nat /\ s.size \in Nat
      /\ NamesAreNoNumbers => s.written <= s.size /\ s.size = Size[s.file]
  BY <1>1, SharerFields DEF QueueShape
<1>3. Original(s.file) \in Seq(Piece) /\ Len(Original(s.file)) = Size[s.file]
  BY <1>2, OriginalFacts
<1>4. data \in Seq(Piece) /\ toServer' = Append(toServer, Chunk(s.id, data))
  BY <1>2, <1>3, PortionFacts DEF ChunkSent
<1>5. NamesAreNoNumbers => w <= s.size
  <2>1. w = s.written + Len(data)
    BY DEF ChunkSent
  <2>2. CASE s.written < Size[s.file]
    <3>1. Len(data) = 1
      BY <1>2, <1>3, <2>2, PortionFacts
    <3> HIDE DEF s, data
    <3> QED BY <1>2, <1>3, <2>1, <2>2, <3>1
  <2>3. CASE s.written >= Size[s.file]
    <3>1. Len(data) = 0
      BY <1>2, <1>3, <2>3, PortionFacts
    <3> HIDE DEF s, data
    <3> QED BY <1>2, <1>3, <2>1, <2>3, <3>1
  <2>4. Size[s.file] \in Nat
    BY <1>3
  <2> HIDE DEF s
  <2> QED BY <1>2, <2>2, <2>3, <2>4
<1>6. Chunk(s.id, data) \in ClientMessages /\ Chunk(s.id, data).kind = "Chunk"
  BY <1>2, <1>4 DEF Chunk, ClientMessages, ChunkMessages
<1>7. toServer' \in Seq(ClientMessages) /\ Count(toServer', Wants) = Count(toServer, Wants)
  BY <1>4, <1>6, AppendNumbers
<1>8. Between' /\ Numbers'
  BY <1>1, <1>7 DEF Basic, Between, Numbers, ChunkSent, remote, past
<1>9. ServerSide'
  BY KeepServerSide DEF Basic, ServerSide, ChunkSent, remote
<1>10. History'
  BY DEF Basic, History, ChunkSent, past
<1>11. ASSUME NEW j \in 1..Len(queue') PROVE QueueShape(j)'
  <2>1. \A n \in 1..Len(queue) : QueueShape(n)
    BY DEF Basic, ClientSide
  <2>2. CASE /\ Len(queue') = Len(queue) - 1
             /\ \A n \in 1..(Len(queue) - 1) :
                  queue'[n] = IF n < i THEN queue[n] ELSE queue[n + 1]
    <3>1. queue'[j] = queue[j] \/ queue'[j] = queue[j + 1]
      BY <2>2
    <3>2. j \in 1..Len(queue) /\ j + 1 \in 1..Len(queue)
      BY <1>1, <2>2
    <3> QED BY <2>1, <3>1, <3>2 DEF QueueShape
  <2>3. CASE /\ Len(queue') = Len(queue)
             /\ Is(queue'[i], s.file, "read", s.name, s.size, s.id, w)
             /\ \A n \in 1..Len(queue) : n # i => queue'[n] = queue[n]
    <3>1. CASE j = i
      BY <1>1, <1>2, <1>5, <2>3, <3>1 DEF QueueShape, Is
    <3>2. CASE j # i
      BY <2>1, <2>3, <3>2 DEF QueueShape
    <3> QED BY <3>1, <3>2
  <2>4. CASE queue' = queue
    BY <2>1, <2>4 DEF QueueShape
  <2> QED BY <2>2, <2>3, <2>4 DEF ChunkSent
<1>12. ClientSide'
  <2>1. queue' \in Seq(Sharer) /\ turn' \in Nat \ {0} /\ UNCHANGED <<sharers, home>>
    BY DEF ChunkSent
  <2> QED BY <1>1, <1>11, <2>1 DEF Basic, ClientSide, ClientShape
<1> QED BY <1>8, <1>9, <1>10, <1>12 DEF Basic

LEMMA ServedFacts ==
  ASSUME Basic, NEW m \in ClientMessages, Served(m)
  PROVE  /\ toServer' \in Seq(ClientMessages) /\ ClientSide'
         /\ UNCHANGED <<typed, client, turn, next, given, asked, sought, refused, saved>>
         /\ Count(toServer, Wants) =
              Count(toServer', Wants) + (IF m.kind = "RequestFileDownload" THEN 1 ELSE 0)
         /\ Count(toServer, Wants) \in Nat /\ Count(toServer', Wants) \in Nat
<1>1. ClientSide'
  BY KeepClientSide DEF Basic, ClientSide, Served, local
<1>2. toServer # <<>> /\ m = Head(toServer) /\ toServer' = Tail(toServer)
  BY DEF Served
<1>3. /\ toServer' \in Seq(ClientMessages)
      /\ Count(toServer, Wants) =
           Count(toServer', Wants) + (IF m.kind = "RequestFileDownload" THEN 1 ELSE 0)
      /\ Count(toServer, Wants) \in Nat /\ Count(toServer', Wants) \in Nat
  BY <1>2, TailNumbers
<1> QED BY <1>1, <1>3 DEF Served, local

\* The server has taken a message, counted a download at most, and announced
\* names only.
LEMMA ServedBasic ==
  ASSUME Basic, NEW m \in ClientMessages, Served(m), ServerSide',
         \/ UNCHANGED toClient
         \/ \E answer \in ServerMessages : toClient' = Append(toClient, answer),
         free' = free \/ (m.kind = "RequestFileDownload" /\ free' = free + 1),
         announced' \subseteq Names
  PROVE  Basic'
<1>1. /\ toServer' \in Seq(ClientMessages) /\ ClientSide'
      /\ UNCHANGED <<typed, client, turn, next, given, asked, sought, refused, saved>>
      /\ Count(toServer, Wants) =
           Count(toServer', Wants) + (IF m.kind = "RequestFileDownload" THEN 1 ELSE 0)
      /\ Count(toServer, Wants) \in Nat /\ Count(toServer', Wants) \in Nat
  BY ServedFacts
<1>2. toClient' \in Seq(ServerMessages)
  BY AppendProperties DEF Basic, Between
<1>3. History'
  BY <1>1 DEF Basic, History
<1>4. Numbers'
  <2>1. /\ next \in Nat /\ free \in Nat
        /\ next + free + Count(toServer, Wants) + Len(typed) <= Len(given)
        /\ client # "exited" => next = Len(asked)
        /\ Len(asked) <= next
    BY DEF Basic, Numbers
  <2>2. Len(typed) \in Nat /\ Len(given) \in Nat
    BY DEF Basic, History
  <2>3. free' \in Nat /\ next + free' + Count(toServer', Wants) + Len(typed) <= Len(given)
    <3>1. CASE m.kind = "RequestFileDownload"
      <4>1. Count(toServer, Wants) = Count(toServer', Wants) + 1
        BY <1>1, <3>1, Zenon
      <4>2. free' = free \/ free' = free + 1
        BY Zenon
      <4>3. Count(toServer', Wants) \in Nat /\ Count(toServer, Wants) \in Nat
        BY <1>1
      <4> QED BY <2>1, <2>2, <4>1, <4>2, <4>3
    <3>2. CASE m.kind # "RequestFileDownload"
      <4>1. Count(toServer, Wants) = Count(toServer', Wants) + 0
        BY <1>1, <3>2, Zenon
      <4>2. free' = free
        BY <3>2
      <4> QED BY <1>1, <2>1, <2>2, <4>1, <4>2
    <3> QED BY <3>1, <3>2
  <2> QED BY <1>1, <2>1, <2>3 DEF Numbers
<1> QED BY <1>1, <1>2, <1>3, <1>4 DEF Basic, Between

LEMMA RefusedBasic ==
  ASSUME Basic, NEW m \in ClientMessages, UploadRefused(m) \/ DownloadRefused(m)
  PROVE  Basic'
<1>1. Served(m) /\ UNCHANGED <<server, offers, free, senders, store, announced>>
  BY DEF UploadRefused, DownloadRefused, remote
<1>2. ServerSide'
  BY <1>1, KeepServerSide DEF Basic, ServerSide
<1>3. \E answer \in ServerMessages : toClient' = Append(toClient, answer)
  <2>1. CASE UploadRefused(m)
    <3>1. [kind |-> "DeclineFileUpload", id |-> m.id] \in ServerMessages
      BY <2>1, ToServer DEF UploadRefused, ServerMessages
    <3> QED BY <2>1, <3>1 DEF UploadRefused
  <2>2. CASE DownloadRefused(m)
    <3>1. [kind |-> "DeclineFileDownload", name |-> m.name] \in ServerMessages
      BY <2>2, ToServer DEF DownloadRefused, ServerMessages
    <3> QED BY <2>2, <3>1 DEF DownloadRefused
  <2> QED BY <2>1, <2>2
<1>4. announced' \subseteq Names
  BY <1>1 DEF Basic, History
<1> QED BY <1>1, <1>2, <1>3, <1>4, ServedBasic

LEMMA UploadGrantedBasic ==
  ASSUME Basic, NEW m \in ClientMessages, UploadGranted(m) PROVE Basic'
<1>1. Served(m) /\ UNCHANGED <<server, free, senders, announced>>
  BY DEF UploadGranted
<1>2. m.name \in Names /\ m.size \in Nat /\ m.id \in Ids /\ m.id \in Keys /\ m.id \in Nat
  BY ToServer DEF UploadGranted, Keys, Ids
<1>3. /\ store[m.name] = None /\ store' = [store EXCEPT ![m.name] = <<>>]
      /\ offers' \in Map
      /\ Is(offers'[m.id], m.name, "write", m.name, m.size, m.id, 0)
      /\ \A key \in Keys : key # m.id => offers'[key] = IF key = m.name THEN None ELSE offers[key]
      /\ store \in [Names -> Seq(Piece) \union {None}]
  BY DEF UploadGranted, Basic, ServerSide
<1>4. <<>> \in Seq(Piece) /\ <<>> # None
  <2>1. <<>> \in Seq(Piece) /\ None \notin Seq(Piece)
    BY TransferAssumption
  <2> QED BY <2>1, Zenon
<1>5. /\ store' \in [Names -> Seq(Piece) \union {None}] /\ store'[m.name] = <<>>
      /\ \A name \in Names : name # m.name => store'[name] = store[name]
  BY <1>2, <1>3, <1>4
<1>6. m.name \notin Stored
  <2>1. ASSUME m.name \in Stored PROVE FALSE
    <3>1. store[m.name] = Original(m.name) /\ Original(m.name) \in Seq(Piece)
      BY <2>1, OriginalFacts DEF Basic, ServerSide, StoredIsKept
    <3> QED BY <1>3, <3>1, TransferAssumption
  <2> QED BY <2>1
<1>7. \A s : Readable(s) => Readable(s)'
  BY <1>3, <1>5 DEF Readable
<1>8. ASSUME NEW key \in Keys PROVE ServerShape(key)'
  <2>1. CASE key = m.id
    BY <1>2, <1>3, <1>4, <1>5, <1>6, <2>1 DEF ServerShape, Is, IsRead, IsWrite
  <2>2. CASE key # m.id /\ offers'[key] = offers[key]
    <3>1. ServerShape(key)
      BY DEF Basic, ServerSide
    <3> QED BY <1>3, <1>5, <1>7, <2>2, <3>1 DEF ServerShape
  <2>3. CASE offers'[key] = None
    BY <2>3 DEF ServerShape
  <2> QED BY <1>3, <2>1, <2>2, <2>3
<1>9. StoredIsKept'
  <2>1. \A name \in Stored : name \in Names /\ name # m.name
    BY <1>6, TransferAssumption
  <2> QED BY <1>5, <2>1 DEF Basic, ServerSide, StoredIsKept
<1>10. ServerSide'
  BY <1>1, <1>3, <1>5, <1>7, <1>8, <1>9 DEF Basic, ServerSide, SenderShape
<1>11. [kind |-> "AgreeFileUpload", id |-> m.id] \in ServerMessages
  BY <1>2 DEF ServerMessages
<1>12. announced' \subseteq Names
  BY <1>1 DEF Basic, History
<1> QED BY <1>1, <1>10, <1>11, <1>12, ServedBasic DEF UploadGranted

LEMMA DownloadGrantedBasic ==
  ASSUME Basic, NEW m \in ClientMessages, DownloadGranted(m) PROVE Basic'
<1>1. /\ Served(m) /\ m.kind = "RequestFileDownload" /\ free' = free + 1
      /\ UNCHANGED <<server, senders, store, announced>>
  BY DEF DownloadGranted
<1>2. m.name \in Names /\ free \in Ids /\ free \in Keys /\ free \in Nat
  BY ToServer, NumbersAreIds DEF DownloadGranted, Keys, Ids
<1>3. /\ store[m.name] # None /\ store[m.name] \in Seq(Piece)
      /\ offers' \in Map
      /\ Is(offers'[free], m.name, "read", m.name, Len(store[m.name]), free, 0)
      /\ \A key \in Keys : key # free => offers'[key] = IF key = m.name THEN None ELSE offers[key]
  BY <1>2 DEF DownloadGranted, Basic, ServerSide
<1>4. Len(store[m.name]) \in Nat
  BY <1>3
<1>5. ASSUME NEW key \in Keys, key = free PROVE ServerShape(key)'
  BY <1>1, <1>2, <1>3, <1>4, <1>5 DEF ServerShape, Is, IsRead, IsWrite, Readable
<1>6. ServerSide'
  <2>1. \A key \in Keys : offers'[key] \in {None, offers[key]} \/ key = free
    BY <1>3
  <2>2. \A key \in Keys : key = free => ServerShape(key)'
    BY <1>5
  <2> QED BY <1>1, <1>3, <2>1, <2>2, ServerMap DEF Basic
<1>7. [kind |-> "AgreeFileDownload", name |-> m.name, size |-> Len(store[m.name]), id |-> free]
        \in ServerMessages
  BY <1>2, <1>4 DEF ServerMessages
<1>8. announced' \subseteq Names
  BY <1>1 DEF Basic, History
<1> QED BY <1>1, <1>6, <1>7, <1>8, ServedBasic DEF DownloadGranted

LEMMA SenderStartsBasic ==
  ASSUME Basic, NEW m \in ClientMessages, SenderStarts(m) PROVE Basic'
<1>1. Served(m) /\ UNCHANGED <<server, free, store, toClient, announced>>
  BY DEF SenderStarts
<1>2. m.id \in Keys
  BY ToServer DEF SenderStarts, Keys
<1>3. /\ offers' \in Map /\ \A key \in Keys : offers'[key] \in {None, offers[key]}
  BY DEF SenderStarts
<1>4. /\ ServerShape(m.id) /\ offers \in Map /\ senders \subseteq Sharer
      /\ \A s \in senders : SenderShape(s)
  BY <1>2 DEF Basic, ServerSide
<1>5. /\ senders' \subseteq Sharer
      /\ \A s \in senders' : s \in senders \/ (s = offers[m.id] /\ s # None)
  BY <1>2, <1>4 DEF SenderStarts, Map
<1>6. offers[m.id] # None => SenderShape(offers[m.id])
  BY <1>4 DEF ServerShape, SenderShape, IsRead
<1>7. \A s \in senders' : SenderShape(s)'
  <2>1. \A s \in senders' : SenderShape(s)
    BY <1>4, <1>5, <1>6
  <2> QED BY <1>1, <2>1 DEF SenderShape, Readable
<1>8. \A key \in Keys : ServerShape(key)'
  <2>1. \A key \in Keys : ServerShape(key)
    BY DEF Basic, ServerSide
  <2> QED BY <1>1, <1>3, <2>1 DEF ServerShape, IsRead, IsWrite, Readable
<1>9. ServerSide'
  BY <1>1, <1>3, <1>5, <1>7, <1>8 DEF Basic, ServerSide, StoredIsKept
<1>10. announced' \subseteq Names
  BY <1>1 DEF Basic, History
<1> QED BY <1>1, <1>9, <1>10, ServedBasic

LEMMA ChunkDroppedBasic ==
  ASSUME Basic, NEW m \in ClientMessages, ChunkDropped(m) PROVE Basic'
<1>1. /\ Served(m) /\ server' \in {"serving", "ended"}
      /\ UNCHANGED <<offers, free, senders, store, toClient, announced>>
  BY DEF ChunkDropped
<1>2. ServerSide'
  BY <1>1, KeepServerSide DEF Basic
<1>3. announced' \subseteq Names
  BY <1>1 DEF Basic, History
<1> QED BY <1>1, <1>2, <1>3, ServedBasic

LEMMA ChunkStoredBasic ==
  ASSUME Basic, NEW m \in ClientMessages, ChunkStored(m) PROVE Basic'
<1> DEFINE s == offers[m.id]
           x == Accepted(s, m.data)
<1>1. Served(m) /\ UNCHANGED <<server, free, senders, toClient>>
  BY DEF ChunkStored
<1>2. m.id \in Ids /\ m.id \in Keys /\ m.data \in Seq(Piece)
  BY ToServer DEF ChunkStored, Keys
<1>3. s \in Sharer /\ IsWrite(s) /\ ServerShape(m.id)
  BY <1>2 DEF ChunkStored, IsWrite, Basic, ServerSide, Map
<1>4. /\ s.file \in Names /\ s.name = s.file /\ s.written \in Nat /\ s.id = m.id
      /\ s.file \notin Stored /\ store[s.file] # None
      /\ x \in Seq(Piece) /\ Len(x) \in Nat /\ s.written + Len(x) <= s.size
  BY <1>2, <1>3, SharerFields, AcceptedFacts DEF ServerShape, IsWrite
<1>5. /\ store \in [Names -> Seq(Piece) \union {None}]
      /\ store' = [store EXCEPT ![s.file] = Overwritten(store[s.file], s.written, x)]
      /\ offers' \in Map
      /\ \A key \in Keys : key # m.id => offers'[key] = offers[key]
      /\ \/ offers'[m.id] = None /\ announced' = announced \union {s.name}
         \/ /\ Is(offers'[m.id], s.file, "write", s.name, s.size, s.id, s.written + Len(x))
            /\ announced' = announced
  BY DEF ChunkStored, Basic, ServerSide
<1> HIDE DEF s, x
<1>6. store[s.file] \in Seq(Piece)
  BY <1>4, <1>5
<1>7. /\ Overwritten(store[s.file], s.written, x) \in Seq(Piece)
      /\ Len(store[s.file]) <= Len(Overwritten(store[s.file], s.written, x))
  BY <1>4, <1>6, OverwrittenType
<1>8. /\ store' \in [Names -> Seq(Piece) \union {None}]
      /\ store'[s.file] \in Seq(Piece) /\ store'[s.file] # None
      /\ Len(store[s.file]) <= Len(store'[s.file])
      /\ \A name \in Names : name # s.file => store'[name] = store[name]
  BY <1>4, <1>5, <1>7, TransferAssumption
<1>9. ASSUME NEW t \in Sharer, Readable(t) PROVE Readable(t)'
  <2>1. CASE t.file = s.file
    <3>1. Len(store[s.file]) \in Nat /\ Len(store'[s.file]) \in Nat
      BY <1>6, <1>8
    <3>2. t.size <= Len(store'[s.file])
      BY <1>8, <1>9, <2>1, <3>1 DEF Readable, Sharer
    <3> QED BY <1>4, <1>8, <1>9, <2>1, <3>2 DEF Readable
  <2>2. CASE t.file # s.file
    BY <1>8, <1>9, <2>2 DEF Readable
  <2> QED BY <2>1, <2>2
<1>10. ASSUME NEW key \in Keys PROVE ServerShape(key)'
  <2>1. CASE key # m.id
    <3>1. offers'[key] = offers[key] /\ ServerShape(key) /\ (offers[key] # None => offers[key] \in Sharer)
      BY <1>5, <2>1 DEF Basic, ServerSide, Map
    <3> QED BY <1>8, <1>9, <3>1 DEF ServerShape
  <2>2. CASE key = m.id /\ offers'[m.id] = None
    BY <2>2 DEF ServerShape
  <2>3. CASE /\ key = m.id
             /\ Is(offers'[m.id], s.file, "write", s.name, s.size, s.id, s.written + Len(x))
    BY <1>2, <1>4, <1>8, <2>3 DEF ServerShape, Is, IsRead, IsWrite
  <2> QED BY <1>5, <2>1, <2>2, <2>3
<1>11. \A t \in senders' : SenderShape(t)'
  BY <1>1, <1>9 DEF Basic, ServerSide, SenderShape
<1>12. StoredIsKept'
  BY <1>4, <1>8, TransferAssumption DEF Basic, ServerSide, StoredIsKept
<1>13. ServerSide'
  BY <1>1, <1>5, <1>8, <1>10, <1>11, <1>12 DEF Basic, ServerSide
<1>14. announced' \subseteq Names
  BY <1>4, <1>5 DEF Basic, History
<1> QED BY <1>1, <1>13, <1>14, ServedBasic

LEMMA SendersBasic ==
  ASSUME Basic, senders' \subseteq Sharer, \A s \in senders' : SenderShape(s),
         \/ UNCHANGED toClient
         \/ \E answer \in ServerMessages : toClient' = Append(toClient, answer),
         UNCHANGED <<typed, client, turn, local, toServer, server, offers, free, store, past, given>>
  PROVE  Basic'
<1>1. ClientSide'
  BY KeepClientSide DEF Basic, ClientSide, local
<1>2. \A s \in senders' : SenderShape(s)'
  BY DEF SenderShape, Readable
<1>3. ServerSide'
  BY <1>2 DEF Basic, ServerSide, ServerShape, Readable, StoredIsKept
<1>4. toClient' \in Seq(ServerMessages)
  BY AppendProperties DEF Basic, Between
<1>5. Between' /\ History' /\ Numbers'
  BY <1>4 DEF Basic, Between, History, Numbers, local, past
<1> QED BY <1>1, <1>3, <1>5 DEF Basic

LEMMA ForwardedBasic ==
  ASSUME Basic, NEW s \in Sharer, NEW t \in Sharer, ChunkForwarded(s, t) PROVE Basic'
<1>1. /\ s \in senders /\ SenderShape(s) /\ senders \subseteq Sharer
      /\ store \in [Names -> Seq(Piece) \union {None}]
      /\ \A u \in senders : SenderShape(u)
  BY DEF ChunkForwarded, Basic, ServerSide
<1>2. /\ s.mode = "read" /\ s.written < s.size /\ Readable(s) /\ s.id \in Ids
      /\ s.written \in Nat /\ s.size \in Nat
      /\ Is(t, s.file, "read", s.name, s.size, s.id, s.written + 1)
  BY <1>1, SharerFields DEF ChunkForwarded, SenderShape
<1>3. SenderShape(t)
  BY <1>2 DEF SenderShape, Is, Readable
<1>4. senders' \subseteq Sharer /\ \A u \in senders' : SenderShape(u)
  BY <1>1, <1>3 DEF ChunkForwarded
<1>5. store[s.file] \in Seq(Piece)
  BY <1>1, <1>2 DEF Readable
<1>6. Portion(store[s.file], s.written) \in Seq(Piece)
  BY <1>2, <1>5, PortionFacts
<1>7. Chunk(s.id, Portion(store[s.file], s.written)) \in ServerMessages
  BY <1>2, <1>6 DEF Chunk, ServerMessages, ChunkMessages
<1> QED BY <1>4, <1>7, SendersBasic DEF ChunkForwarded

LEMMA StoppedBasic == ASSUME Basic, NEW s \in Sharer, SenderStops(s) PROVE Basic'
BY SendersBasic DEF SenderStops, Basic, ServerSide

LEMMA BasicStep == ASSUME Basic, Step PROVE Basic'
<1>1. CASE OfClient
  <2>1. ASSUME NEW m \in ServerMessages,
               \/ ChunkIgnored(m) \/ ChunkSaved(m) \/ UploadAgreed(m) \/ UploadDeclined(m)
               \/ DownloadOffered(m) \/ DownloadDeclined(m)
        PROVE  Basic'
    BY <2>1, ChunkIgnoredBasic, ChunkSavedBasic, UploadAgreedBasic, DeclinedBasic,
       DownloadOfferedBasic
  <2> QED BY <1>1, <2>1, QuietBasic, PartBasic, TypedBasic, UploadBasic, DownloadBasic, ChunkSentBasic
          DEF OfClient
<1>2. CASE OfServer
  <2>1. ASSUME NEW m \in ClientMessages,
               \/ UploadRefused(m) \/ UploadGranted(m) \/ DownloadRefused(m) \/ DownloadGranted(m)
               \/ SenderStarts(m) \/ ChunkDropped(m) \/ ChunkStored(m)
        PROVE  Basic'
    BY <2>1, RefusedBasic, UploadGrantedBasic, DownloadGrantedBasic, SenderStartsBasic,
       ChunkDroppedBasic, ChunkStoredBasic
  <2> QED BY <1>2, <2>1, ForwardedBasic, StoppedBasic DEF OfServer
<1> QED BY <1>1, <1>2 DEF Step

\* Sharers, messages and files have their shape, and there is a number left for
\* every command (free_id).
THEOREM BasicHolds == Spec => []Basic
<1>1. Basic /\ [Next]_vars => Basic'
  BY Steps, BasicStep
<1> QED BY InitBasic, <1>1, PTL DEF Spec

\* Every variable has its type, and no sender counts past the length of its file
\* (send_file; process_sending_sharers if no name is a number): rest, an unsigned
\* difference, does not wrap around.
THEOREM TypeCorrect == Spec => []TypeOK
BY BasicHolds, BasicIsTyped, PTL

-----------------------------------------------------------------------------
(* An upload is in one place at a time *)

Requests(k) == {m \in ClientMessages : Asks(m, k)}
Permits(k)  == {m \in ServerMessages : Grants(m, k)}
Turns(k)    == {s \in Sharer : s.mode = "read" /\ s.id = k}
Chunks(k)   == {m \in ClientMessages : Carries(m, k)}

asks(k)    == Count(toServer, Requests(k))
permits(k) == Count(toClient, Permits(k))
turns(k)   == Count(queue, Turns(k))
chunks(k)  == Count(toServer, Chunks(k))
pieces(k)  == Count(toServer, Pieces(k))

Writing(k) == IsWrite(offers[k])

\* A request is the one the user asked for.
Request(i) ==
  toServer[i].kind = "RequestFileUpload" =>
    LET k == toServer[i].id IN
    /\ k < Len(asked)
    /\ toServer[i].name = asked[k + 1].name /\ toServer[i].size = Size[asked[k + 1].path]

\* It is made once, granted once and sent once; nothing is done before the
\* request, and nothing is sent before it is granted.
Once(k) ==
  /\ asks(k) + permits(k) + turns(k) <= 1
  /\ k >= Len(asked) => asks(k) + permits(k) + turns(k) + chunks(k) = 0 /\ ~Writing(k)
  /\ asks(k) > 0 => chunks(k) = 0 /\ ~Writing(k)
  /\ permits(k) > 0 => chunks(k) = 0 /\ (Writing(k) => offers[k].written = 0)

Protocol ==
  /\ \A i \in 1..Len(toServer) : Request(i)
  /\ \A k \in Ids : Once(k)

LEMMA CountType ==
  ASSUME NEW M, NEW q \in Seq(M), NEW S
  PROVE  Count(q, S) \in Nat
<1>1. Len(q) + 1 \in Nat
  BY LenProperties
<1> QED BY <1>1, BeforeType DEF Count

LEMMA CountsAreNats ==
  ASSUME Basic
  PROVE  \A k : asks(k) \in Nat /\ permits(k) \in Nat /\ turns(k) \in Nat
                /\ chunks(k) \in Nat /\ pieces(k) \in Nat
<1>1. toServer \in Seq(ClientMessages) /\ toClient \in Seq(ServerMessages) /\ queue \in Seq(Sharer)
  BY DEF Basic, Between, ClientSide
<1> QED BY <1>1, CountType DEF asks, permits, turns, chunks, pieces

LEMMA NextCountsAreNats ==
  ASSUME Basic'
  PROVE  \A k : asks(k)' \in Nat /\ permits(k)' \in Nat /\ turns(k)' \in Nat
                /\ chunks(k)' \in Nat /\ pieces(k)' \in Nat
<1>1. /\ toServer' \in Seq(ClientMessages) /\ toClient' \in Seq(ServerMessages)
      /\ queue' \in Seq(Sharer)
  BY DEF Basic, Between, ClientSide
<1> QED BY <1>1, CountType DEF asks, permits, turns, chunks, pieces

LEMMA CountOne ==
  ASSUME NEW M, NEW q \in Seq(M), NEW S, NEW i \in 1..Len(q), q[i] \in S
  PROVE  Count(q, S) > 0
<1>1. Len(q) \in Nat /\ i \in 1..((Len(q) + 1) - 1) /\ Len(q) + 1 \in Nat
  BY LenProperties
<1> QED BY <1>1, SomeBefore DEF Count

LEMMA CountSome ==
  ASSUME NEW M, NEW q \in Seq(M), NEW S, Count(q, S) # 0
  PROVE  \E i \in 1..Len(q) : q[i] \in S
<1>1. Len(q) \in Nat /\ Len(q) + 1 \in Nat /\ (Len(q) + 1) - 1 = Len(q)
  BY LenProperties
<1> QED BY <1>1, NoneBefore DEF Count

LEMMA CountTwo ==
  ASSUME NEW M, NEW q \in Seq(M), NEW S, Count(q, S) <= 1,
         NEW i \in 1..Len(q), NEW j \in 1..Len(q), q[i] \in S, q[j] \in S
  PROVE  i = j
<1> SUFFICES ASSUME i # j PROVE FALSE
  OBVIOUS
<1> DEFINE A == {n \in 1..((Len(q) + 1) - 1) : q[n] \in S}
<1>1. Len(q) \in Nat /\ Len(q) + 1 \in Nat
  BY LenProperties
<1>2. IsFiniteSet(A) /\ Cardinality(A) = Count(q, S)
  BY <1>1, BeforeType DEF Before, Count
<1>3. {i, j} \subseteq A
  BY <1>1
<1> HIDE DEF A
<1>4. Cardinality({i}) = 1 /\ IsFiniteSet({i})
  BY FS_Singleton
<1>5. Cardinality({i} \union {j}) = Cardinality({i}) + 1
  BY <1>4, FS_AddElement
<1>6. {i, j} = {i} \union {j}
  OBVIOUS
<1>7. Cardinality({i, j}) <= Cardinality(A)
  BY <1>2, <1>3, FS_Subset
<1>8. Count(q, S) \in Nat
  BY CountType
<1>9. Cardinality({i, j}) = 2
  <2>1. Cardinality({i} \union {j}) = 2
    BY <1>4, <1>5
  <2> QED BY <1>6, <2>1, Zenon
<1>10. Cardinality(A) = Count(q, S)
  BY <1>2
<1> QED BY <1>7, <1>8, <1>9, <1>10

\* A sequence without its i-th element; with another of the same kind there.
LEMMA CountRemoved ==
  ASSUME NEW M, NEW q \in Seq(M), NEW r \in Seq(M), NEW S, NEW i \in 1..Len(q),
         Len(r) = Len(q) - 1,
         \A j \in 1..(Len(q) - 1) : r[j] = IF j < i THEN q[j] ELSE q[j + 1]
  PROVE  Count(q, S) = Count(r, S) + (IF q[i] \in S THEN 1 ELSE 0)
<1> DEFINE A == {j \in 1..((Len(r) + 1) - 1) : r[j] \in S}
           B == {j \in 1..Len(q) : q[j] \in S /\ j # i}
           f == [j \in A |-> IF j < i THEN j ELSE j + 1]
<1>1. Len(q) \in Nat /\ Len(r) \in Nat
  BY LenProperties
<1>2. f \in Bijection(A, B)
  <2>1. \A j \in A : f[j] \in B
    BY <1>1
  <2>2. \A j \in B : \E n \in A : f[n] = j
    <3> SUFFICES ASSUME NEW j \in B PROVE \E n \in A : f[n] = j
      OBVIOUS
    <3>1. CASE j < i
      BY <1>1, <3>1
    <3>2. CASE j > i
      <4>1. j - 1 \in A /\ f[j - 1] = j
        BY <1>1, <3>2
      <4> QED BY <4>1
    <3>3. j < i \/ j > i
      BY <1>1
    <3> QED BY <3>1, <3>2, <3>3
  <2>3. \A j, n \in A : f[j] = f[n] => j = n
    BY <1>1
  <2>4. f \in [A -> B]
    BY <2>1
  <2> HIDE DEF f, A, B
  <2> QED BY <2>2, <2>3, <2>4 DEF Bijection, Injection, Surjection, IsInjective
<1>3. IsFiniteSet(A) /\ Cardinality(A) = Count(r, S)
  <2>1. Len(r) + 1 \in Nat
    BY <1>1
  <2> QED BY <2>1, BeforeType DEF Before, Count
<1> HIDE DEF A, f
<1>4. IsFiniteSet(B) /\ Cardinality(B) = Cardinality(A)
  BY <1>2, <1>3, FS_Bijection DEF ExistsBijection
<1>5. Cardinality(A) \in Nat
  BY <1>3, FS_CardinalityType
<1>6. CASE q[i] \in S
  <2>1. {j \in 1..((Len(q) + 1) - 1) : q[j] \in S} = B \union {i} /\ i \notin B
    BY <1>1, <1>6
  <2> HIDE DEF B
  <2>2. Cardinality(B \union {i}) = Cardinality(B) + 1
    BY <1>4, <2>1, FS_AddElement
  <2> QED BY <1>3, <1>4, <1>6, <2>1, <2>2 DEF Before, Count
<1>7. CASE q[i] \notin S
  <2>1. {j \in 1..((Len(q) + 1) - 1) : q[j] \in S} = B
    BY <1>1, <1>7
  <2>2. Count(q, S) = Cardinality(B)
    BY <2>1 DEF Before, Count
  <2> HIDE DEF B
  <2> QED BY <1>3, <1>4, <1>5, <1>7, <2>2
<1> QED BY <1>6, <1>7

LEMMA CountReplaced ==
  ASSUME NEW M, NEW q \in Seq(M), NEW r \in Seq(M), NEW S, NEW i \in 1..Len(q),
         Len(r) = Len(q), r[i] \in S <=> q[i] \in S,
         \A j \in 1..Len(q) : j # i => r[j] = q[j]
  PROVE  Count(r, S) = Count(q, S)
<1>1. Len(q) \in Nat
  BY LenProperties
<1>2. {j \in 1..((Len(r) + 1) - 1) : r[j] \in S} = {j \in 1..((Len(q) + 1) - 1) : q[j] \in S}
  BY <1>1
<1> QED BY <1>2 DEF Before, Count

\* Messages sent and taken, counted.
LEMMA ToServerSent ==
  ASSUME Basic, NEW m \in ClientMessages, toServer' = Append(toServer, m), NEW k
  PROVE  /\ asks(k)' = asks(k) + (IF Asks(m, k) THEN 1 ELSE 0)
         /\ chunks(k)' = chunks(k) + (IF Carries(m, k) THEN 1 ELSE 0)
         /\ pieces(k)' = pieces(k) + (IF Carries(m, k) /\ m.data # <<>> THEN 1 ELSE 0)
         /\ Len(toServer') = Len(toServer) + 1 /\ toServer'[Len(toServer) + 1] = m
         /\ Len(toServer) \in Nat
         /\ \A i \in 1..Len(toServer) : toServer'[i] = toServer[i]
         /\ \A i \in 1..(Len(toServer) + 1) : \A S : Before(toServer', S, i) = Before(toServer, S, i)
<1>1. toServer \in Seq(ClientMessages)
  BY DEF Basic, Between
<1>2. \A S : Count(toServer', S) = Count(toServer, S) + (IF m \in S THEN 1 ELSE 0)
  BY <1>1, BeforeAppend
<1>3. /\ m \in Requests(k) <=> Asks(m, k)
      /\ m \in Chunks(k) <=> Carries(m, k)
      /\ m \in Pieces(k) <=> Carries(m, k) /\ m.data # <<>>
  BY ToServer DEF Requests, Chunks
<1>4. \A i \in 1..(Len(toServer) + 1) : \A S : Before(toServer', S, i) = Before(toServer, S, i)
  BY <1>1, BeforeAppend
<1>5. /\ Len(toServer') = Len(toServer) + 1 /\ toServer'[Len(toServer) + 1] = m
      /\ Len(toServer) \in Nat
      /\ \A i \in 1..Len(toServer) : toServer'[i] = toServer[i]
  BY <1>1, AppendProperties
<1>6. asks(k)' = asks(k) + (IF Asks(m, k) THEN 1 ELSE 0)
  BY <1>2, <1>3 DEF asks
<1>7. chunks(k)' = chunks(k) + (IF Carries(m, k) THEN 1 ELSE 0)
  BY <1>2, <1>3 DEF chunks
<1>8. pieces(k)' = pieces(k) + (IF Carries(m, k) /\ m.data # <<>> THEN 1 ELSE 0)
  BY <1>2, <1>3 DEF pieces
<1> QED BY <1>4, <1>5, <1>6, <1>7, <1>8

LEMMA ToServerTaken ==
  ASSUME Basic, toServer # <<>>, NEW m \in ClientMessages, m = Head(toServer),
         toServer' = Tail(toServer), NEW k
  PROVE  /\ asks(k) = asks(k)' + (IF Asks(m, k) THEN 1 ELSE 0)
         /\ chunks(k) = chunks(k)' + (IF Carries(m, k) THEN 1 ELSE 0)
         /\ pieces(k) = pieces(k)' + (IF Carries(m, k) /\ m.data # <<>> THEN 1 ELSE 0)
         /\ asks(k)' \in Nat /\ chunks(k)' \in Nat /\ pieces(k)' \in Nat
         /\ Len(toServer) \in Nat \ {0} /\ Len(toServer') = Len(toServer) - 1 /\ toServer[1] = m
         /\ \A i \in 1..Len(toServer') : toServer'[i] = toServer[i + 1]
         /\ \A i \in 1..Len(toServer) : \A S :
              Before(toServer, S, i + 1) = Before(toServer', S, i) + (IF m \in S THEN 1 ELSE 0)
<1>1. toServer \in Seq(ClientMessages)
  BY DEF Basic, Between
<1>2. \A S : Count(toServer, S) = Count(toServer', S) + (IF m \in S THEN 1 ELSE 0)
  BY <1>1, BeforeTail
<1>3. /\ m \in Requests(k) <=> Asks(m, k)
      /\ m \in Chunks(k) <=> Carries(m, k)
      /\ m \in Pieces(k) <=> Carries(m, k) /\ m.data # <<>>
  BY ToServer DEF Requests, Chunks
<1>4. \A i \in 1..Len(toServer) : \A S :
        Before(toServer, S, i + 1) = Before(toServer', S, i) + (IF m \in S THEN 1 ELSE 0)
  BY <1>1, BeforeTail
<1>5. /\ Len(toServer) \in Nat \ {0} /\ Len(toServer') = Len(toServer) - 1 /\ toServer[1] = m
      /\ \A i \in 1..Len(toServer') : toServer'[i] = toServer[i + 1]
      /\ toServer' \in Seq(ClientMessages)
  BY <1>1, HeadTailProperties, EmptySeq
<1>6. \A S : Count(toServer', S) \in Nat
  BY <1>5, CountType
<1>7. asks(k) = asks(k)' + (IF Asks(m, k) THEN 1 ELSE 0) /\ asks(k)' \in Nat
  BY <1>2, <1>3, <1>6 DEF asks
<1>8. chunks(k) = chunks(k)' + (IF Carries(m, k) THEN 1 ELSE 0) /\ chunks(k)' \in Nat
  BY <1>2, <1>3, <1>6 DEF chunks
<1>9. /\ pieces(k) = pieces(k)' + (IF Carries(m, k) /\ m.data # <<>> THEN 1 ELSE 0)
      /\ pieces(k)' \in Nat
  BY <1>2, <1>3, <1>6 DEF pieces
<1> QED BY <1>4, <1>5, <1>7, <1>8, <1>9

LEMMA ToClientSent ==
  ASSUME Basic, NEW m \in ServerMessages, toClient' = Append(toClient, m), NEW k
  PROVE  permits(k)' = permits(k) + (IF Grants(m, k) THEN 1 ELSE 0)
<1>1. Count(toClient', Permits(k)) =
        Count(toClient, Permits(k)) + (IF m \in Permits(k) THEN 1 ELSE 0)
  BY BeforeAppend DEF Basic, Between
<1> QED BY <1>1 DEF permits, Permits

LEMMA ToClientTaken ==
  ASSUME Basic, toClient # <<>>, NEW m \in ServerMessages, m = Head(toClient),
         toClient' = Tail(toClient), NEW k
  PROVE  permits(k) = permits(k)' + (IF Grants(m, k) THEN 1 ELSE 0) /\ permits(k)' \in Nat
<1>1. Count(toClient, Permits(k)) =
        Count(toClient', Permits(k)) + (IF m \in Permits(k) THEN 1 ELSE 0)
  BY BeforeTail DEF Basic, Between
<1>2. toClient' \in Seq(ServerMessages)
  BY HeadTailProperties DEF Basic, Between
<1>3. Count(toClient', Permits(k)) \in Nat
  BY <1>2, CountType
<1> QED BY <1>1, <1>3 DEF permits, Permits

LEMMA ProtocolKept ==
  ASSUME Basic, Basic', Protocol, UNCHANGED asked,
         \A i \in 1..Len(toServer') : toServer'[i].kind = "RequestFileUpload" =>
            \E j \in 1..Len(toServer) : toServer'[i] = toServer[j],
         \A k \in Ids :
            /\ asks(k)' + permits(k)' + turns(k)' <= asks(k) + permits(k) + turns(k)
            /\ asks(k)' <= asks(k) /\ permits(k)' <= permits(k)
            /\ chunks(k)' <= chunks(k) \/ turns(k) > 0
            /\ Writing(k)' => Writing(k) /\ (offers'[k] = offers[k] \/ chunks(k) > 0)
  PROVE  Protocol'
<1>1. \A i \in 1..Len(toServer') : Request(i)'
  BY DEF Protocol, Request
<1>2. ASSUME NEW k \in Ids PROVE Once(k)'
  <2>1. /\ asks(k) \in Nat /\ permits(k) \in Nat /\ turns(k) \in Nat /\ chunks(k) \in Nat
        /\ asks(k)' \in Nat /\ permits(k)' \in Nat /\ turns(k)' \in Nat /\ chunks(k)' \in Nat
    BY CountsAreNats, NextCountsAreNats
  <2>2. /\ Once(k) /\ Len(asked) \in Nat
        /\ asks(k)' + permits(k)' + turns(k)' <= asks(k) + permits(k) + turns(k)
        /\ asks(k)' <= asks(k) /\ permits(k)' <= permits(k)
        /\ chunks(k)' <= chunks(k) \/ turns(k) > 0
        /\ Writing(k)' => Writing(k) /\ (offers'[k] = offers[k] \/ chunks(k) > 0)
    BY DEF Protocol, Basic, History
  <2> QED BY <2>1, <2>2 DEF Once
<1> QED BY <1>1, <1>2 DEF Protocol

\* A message passes that neither asks for an upload, nor grants one, nor is sent
\* for one, or one is taken.
LEMMA ProtocolPassed ==
  ASSUME Basic, Basic', Protocol, UNCHANGED <<asked, queue>>,
         \/ UNCHANGED toServer
         \/ \E m \in ClientMessages :
              m.kind \notin {"RequestFileUpload", "Chunk"} /\ toServer' = Append(toServer, m)
         \/ \E m \in ClientMessages :
              toServer # <<>> /\ m = Head(toServer) /\ toServer' = Tail(toServer),
         \/ UNCHANGED toClient
         \/ \E m \in ServerMessages :
              m.kind # "AgreeFileUpload" /\ toClient' = Append(toClient, m)
         \/ \E m \in ServerMessages :
              toClient # <<>> /\ m = Head(toClient) /\ toClient' = Tail(toClient),
         \A k \in Ids : Writing(k)' => Writing(k) /\ (offers'[k] = offers[k] \/ chunks(k) > 0)
  PROVE  Protocol'
<1>1. /\ \A i \in 1..Len(toServer') : toServer'[i].kind = "RequestFileUpload" =>
           \E j \in 1..Len(toServer) : toServer'[i] = toServer[j]
      /\ \A k \in Ids : asks(k)' <= asks(k) /\ chunks(k)' <= chunks(k)
  <2>1. CASE UNCHANGED toServer
    <3>1. \A k : asks(k)' = asks(k) /\ chunks(k)' = chunks(k)
      BY <2>1 DEF asks, chunks
    <3>2. \A k : asks(k) \in Nat /\ chunks(k) \in Nat
      BY CountsAreNats
    <3> QED BY <2>1, <3>1, <3>2
  <2>2. ASSUME NEW m \in ClientMessages, m.kind \notin {"RequestFileUpload", "Chunk"},
               toServer' = Append(toServer, m)
        PROVE  <1>1!:
    <3>1. \A k : asks(k)' = asks(k) /\ chunks(k)' = chunks(k)
      <4>1. \A k : asks(k) \in Nat /\ chunks(k) \in Nat
        BY CountsAreNats
      <4>2. \A k : ~Asks(m, k) /\ ~Carries(m, k)
        BY <2>2 DEF Asks, Carries
      <4> QED BY <2>2, <4>1, <4>2, ToServerSent
    <3>2. \A k : asks(k) \in Nat /\ chunks(k) \in Nat
      BY CountsAreNats
    <3>3. /\ Len(toServer') = Len(toServer) + 1 /\ toServer'[Len(toServer) + 1] = m
          /\ Len(toServer) \in Nat
          /\ \A i \in 1..Len(toServer) : toServer'[i] = toServer[i]
      BY <2>2, ToServerSent
    <3> QED BY <2>2, <3>1, <3>2, <3>3
  <2>3. ASSUME NEW m \in ClientMessages, toServer # <<>>, m = Head(toServer),
               toServer' = Tail(toServer)
        PROVE  <1>1!:
    <3>1. /\ Len(toServer) \in Nat \ {0} /\ Len(toServer') = Len(toServer) - 1
          /\ \A i \in 1..Len(toServer') : toServer'[i] = toServer[i + 1]
      BY <2>3, ToServerTaken
    <3>2. \A k : /\ asks(k) = asks(k)' + (IF Asks(m, k) THEN 1 ELSE 0)
                 /\ chunks(k) = chunks(k)' + (IF Carries(m, k) THEN 1 ELSE 0)
                 /\ asks(k)' \in Nat /\ chunks(k)' \in Nat
      BY <2>3, ToServerTaken
    <3>3. \A k : asks(k)' <= asks(k) /\ chunks(k)' <= chunks(k)
      BY <3>2
    <3> QED BY <3>1, <3>3
  <2> QED BY <2>1, <2>2, <2>3
<1>2. \A k \in Ids : permits(k)' <= permits(k)
  <2>1. CASE UNCHANGED toClient
    <3>1. \A k : permits(k)' = permits(k) /\ permits(k) \in Nat
      BY <2>1, CountsAreNats DEF permits
    <3> QED BY <3>1
  <2>2. ASSUME NEW m \in ServerMessages, m.kind # "AgreeFileUpload",
               toClient' = Append(toClient, m), NEW k
        PROVE  permits(k)' <= permits(k)
    <3>1. permits(k)' = permits(k) + (IF Grants(m, k) THEN 1 ELSE 0) /\ permits(k) \in Nat
      BY <2>2, ToClientSent, CountsAreNats
    <3> QED BY <2>2, <3>1 DEF Grants
  <2>3. ASSUME NEW m \in ServerMessages, toClient # <<>>, m = Head(toClient),
               toClient' = Tail(toClient), NEW k
        PROVE  permits(k)' <= permits(k)
    <3>1. permits(k) = permits(k)' + (IF Grants(m, k) THEN 1 ELSE 0) /\ permits(k)' \in Nat
      BY <2>3, ToClientTaken
    <3> QED BY <3>1
  <2> QED BY <2>1, <2>2, <2>3
<1>3. \A k : turns(k)' = turns(k)
  BY DEF turns
<1>4. ASSUME NEW k \in Ids
      PROVE  asks(k)' + permits(k)' + turns(k)' <= asks(k) + permits(k) + turns(k)
  <2>1. /\ asks(k) \in Nat /\ permits(k) \in Nat /\ turns(k) \in Nat
        /\ asks(k)' \in Nat /\ permits(k)' \in Nat
    BY CountsAreNats, NextCountsAreNats
  <2> QED BY <1>1, <1>2, <1>3, <2>1
<1> QED BY <1>1, <1>2, <1>4, ProtocolKept

LEMMA BeginsProtocol ==
  ASSUME Basic, Basic', Protocol, NEW u \in Uploads, UploadBegins(u) PROVE Protocol'
<1>1. /\ UNCHANGED <<queue, offers, toClient>> /\ client # "exited"
      /\ next \in Ids /\ next = Len(asked) /\ asked \in Seq(Uploads) /\ Len(asked) \in Nat
  BY NumbersAreIds DEF UploadBegins, Commanded, remote, Basic, Numbers, History
<1>2. CASE UNCHANGED <<toServer, asked>>
  <2>1. \A k : Writing(k)' => Writing(k) /\ offers'[k] = offers[k]
    BY <1>1 DEF Writing
  <2> QED BY <1>1, <1>2, <2>1, ProtocolPassed
<1>3. CASE /\ client' = "read" /\ asked' = Append(asked, u)
           /\ toServer' = Append(toServer, [kind |-> "RequestFileUpload",
                name |-> u.name, size |-> Size[u.path], id |-> next])
  <2> DEFINE m == [kind |-> "RequestFileUpload", name |-> u.name, size |-> Size[u.path],
                   id |-> next]
  <2>1. u.name \in Names /\ u.path \in Paths /\ Size[u.path] \in Nat
    BY TransferAssumption
  <2>2. /\ m \in ClientMessages /\ m.kind = "RequestFileUpload" /\ m.id = next
        /\ m.name = u.name /\ m.size = Size[u.path] /\ toServer' = Append(toServer, m)
    BY <1>1, <1>3, <2>1 DEF ClientMessages
  <2> HIDE DEF m
  <2>3. /\ Len(asked') = Len(asked) + 1 /\ asked'[Len(asked) + 1] = u
        /\ \A i \in 1..Len(asked) : asked'[i] = asked[i]
    BY <1>1, <1>3, AppendProperties
  <2>4. ASSUME NEW i \in 1..Len(toServer') PROVE Request(i)'
    <3>1. /\ Len(toServer') = Len(toServer) + 1 /\ toServer'[Len(toServer) + 1] = m
          /\ Len(toServer) \in Nat
          /\ \A j \in 1..Len(toServer) : toServer'[j] = toServer[j]
      BY <2>2, ToServerSent
    <3>2. CASE i \in 1..Len(toServer)
      <4>1. toServer'[i] = toServer[i] /\ Request(i) /\ toServer[i] \in ClientMessages
        BY <3>1, <3>2 DEF Protocol, Basic, Between
      <4>2. toServer[i].kind = "RequestFileUpload" => toServer[i].id \in Nat
        BY <4>1, ToServer DEF Ids
      <4>3. toServer[i].kind = "RequestFileUpload" =>
              /\ toServer[i].id < Len(asked) /\ toServer[i].id + 1 \in 1..Len(asked)
        BY <1>1, <4>1, <4>2 DEF Request
      <4> QED BY <1>1, <2>3, <4>1, <4>2, <4>3 DEF Request
    <3>3. CASE i = Len(toServer) + 1
      BY <1>1, <2>2, <2>3, <3>1, <3>3 DEF Request
    <3> QED BY <3>1, <3>2, <3>3
  <2>5. ASSUME NEW k \in Ids PROVE Once(k)'
    <3>1. /\ asks(k)' = asks(k) + (IF k = next THEN 1 ELSE 0) /\ chunks(k)' = chunks(k)
          /\ asks(k) \in Nat /\ chunks(k) \in Nat /\ permits(k) \in Nat /\ turns(k) \in Nat
      <4>1. /\ asks(k)' = asks(k) + (IF Asks(m, k) THEN 1 ELSE 0)
            /\ chunks(k)' = chunks(k) + (IF Carries(m, k) THEN 1 ELSE 0)
        BY <2>2, ToServerSent
      <4>2. (Asks(m, k) <=> k = next) /\ ~Carries(m, k)
        BY <2>2 DEF Asks, Carries
      <4> QED BY <4>1, <4>2, CountsAreNats
    <3>2. permits(k)' = permits(k) /\ turns(k)' = turns(k) /\ (Writing(k)' <=> Writing(k))
      BY <1>1 DEF permits, turns, Writing
    <3>3. Once(k) /\ k \in Nat
      BY DEF Protocol, Ids
    <3> QED BY <1>1, <2>3, <3>1, <3>2, <3>3 DEF Once
  <2> QED BY <2>4, <2>5 DEF Protocol
<1> QED BY <1>2, <1>3 DEF UploadBegins

LEMMA AgreedProtocol ==
  ASSUME Basic, Basic', Protocol, NEW m \in ServerMessages, UploadAgreed(m) PROVE Protocol'
<1>1. /\ UNCHANGED <<asked, toServer, offers>> /\ m.kind = "AgreeFileUpload"
      /\ toClient # <<>> /\ m = Head(toClient) /\ toClient' = Tail(toClient)
      /\ m.id \in Ids /\ m.id \in Keys
  BY ToClient DEF UploadAgreed, Received, remote, Keys
<1>2. /\ sharers \in Map /\ queue \in Seq(Sharer) /\ ClientShape(m.id)
  BY <1>1 DEF Basic, ClientSide
<1>3. ASSUME NEW k \in Ids
      PROVE  turns(k)' <= turns(k) + (IF k = m.id THEN 1 ELSE 0)
  <2>1. turns(k) \in Nat
    BY CountsAreNats
  <2>2. CASE sharers[m.id] = None
    <3>1. turns(k)' = turns(k)
      BY <2>2 DEF UploadAgreed, turns
    <3> QED BY <2>1, <3>1
  <2>3. CASE sharers[m.id] # None
    <3>1. sharers[m.id] \in Sharer /\ queue' = Append(queue, sharers[m.id])
      BY <1>1, <1>2, <2>3 DEF UploadAgreed, Map
    <3>2. turns(k)' = turns(k) + (IF sharers[m.id] \in Turns(k) THEN 1 ELSE 0)
      BY <1>2, <3>1, BeforeAppend DEF turns
    <3>3. sharers[m.id] \in Turns(k) => k = m.id
      BY <1>1, <1>2, <2>3 DEF Turns, ClientShape, IsRead
    <3> QED BY <2>1, <3>2, <3>3
  <2> QED BY <2>2, <2>3
<1>4. ASSUME NEW k \in Ids
      PROVE  /\ asks(k)' + permits(k)' + turns(k)' <= asks(k) + permits(k) + turns(k)
             /\ asks(k)' <= asks(k) /\ permits(k)' <= permits(k)
             /\ chunks(k)' <= chunks(k)
             /\ Writing(k)' => Writing(k) /\ offers'[k] = offers[k]
  <2>1. permits(k) = permits(k)' + (IF Grants(m, k) THEN 1 ELSE 0) /\ permits(k)' \in Nat
    BY <1>1, ToClientTaken
  <2>2. Grants(m, k) <=> k = m.id
    BY <1>1 DEF Grants
  <2>3. asks(k)' = asks(k) /\ chunks(k)' = chunks(k) /\ asks(k) \in Nat /\ chunks(k) \in Nat
    BY <1>1, CountsAreNats DEF asks, chunks
  <2>4. turns(k)' \in Nat /\ turns(k) \in Nat
    BY CountsAreNats, NextCountsAreNats
  <2>5. Writing(k)' => Writing(k) /\ offers'[k] = offers[k]
    BY <1>1 DEF Writing
  <2> QED BY <1>3, <2>1, <2>2, <2>3, <2>4, <2>5
<1> QED BY <1>1, <1>4, ProtocolKept

\* The queue without the one that was sent.
LEMMA TurnTaken ==
  ASSUME Basic, Basic', NEW i \in 1..Len(queue), NEW k,
         Len(queue') = Len(queue) - 1,
         \A j \in 1..(Len(queue) - 1) : queue'[j] = IF j < i THEN queue[j] ELSE queue[j + 1]
  PROVE  turns(k) = turns(k)' + (IF queue[i] \in Turns(k) THEN 1 ELSE 0)
<1>1. queue \in Seq(Sharer) /\ queue' \in Seq(Sharer)
  BY DEF Basic, ClientSide
<1>2. Count(queue, Turns(k)) = Count(queue', Turns(k)) + (IF queue[i] \in Turns(k) THEN 1 ELSE 0)
  BY <1>1, CountRemoved
<1> QED BY <1>2 DEF turns

\* The queue after a chunk was sent: the turn is the same, or gone.
LEMMA SentTurns ==
  ASSUME Basic, Basic', NEW i \in 1..Len(queue), NEW w \in Nat, ChunkSent(i, w), NEW k
  PROVE  turns(k)' <= turns(k) /\ (queue[i].id = k => turns(k) > 0)
<1>1. /\ queue \in Seq(Sharer) /\ queue' \in Seq(Sharer) /\ queue[i] \in Sharer
      /\ queue[i].mode = "read"
  BY DEF Basic, ClientSide, ChunkSent
<1>2. turns(k) \in Nat /\ turns(k)' \in Nat
  BY CountsAreNats, NextCountsAreNats
<1>3. queue[i] \in Turns(k) <=> queue[i].id = k
  BY <1>1 DEF Turns
<1>4. queue[i].id = k => turns(k) > 0
  BY <1>1, <1>3, CountOne DEF turns
<1>5. CASE /\ Len(queue') = Len(queue) - 1
           /\ \A j \in 1..(Len(queue) - 1) : queue'[j] = IF j < i THEN queue[j] ELSE queue[j + 1]
  <2>1. turns(k) = turns(k)' + (IF queue[i] \in Turns(k) THEN 1 ELSE 0)
    BY <1>5, TurnTaken
  <2> QED BY <1>2, <1>4, <2>1
<1>6. CASE /\ Len(queue') = Len(queue)
           /\ Is(queue'[i], queue[i].file, "read", queue[i].name, queue[i].size, queue[i].id, w)
           /\ \A j \in 1..Len(queue) : j # i => queue'[j] = queue[j]
  <2>1. queue'[i] \in Turns(k) <=> queue[i] \in Turns(k)
    BY <1>1, <1>6 DEF Turns, Is
  <2>2. turns(k)' = turns(k)
    BY <1>1, <1>6, <2>1, CountReplaced DEF turns
  <2> QED BY <1>2, <1>4, <2>2
<1>7. CASE queue' = queue
  BY <1>2, <1>4, <1>7 DEF turns
<1> QED BY <1>5, <1>6, <1>7 DEF ChunkSent

\* What the client sends of the i-th of the queue.
LEMMA SentFacts ==
  ASSUME Basic, NEW i \in 1..Len(queue), NEW w \in Nat, ChunkSent(i, w),
         NEW data, data = Portion(Original(queue[i].file), queue[i].written)
  PROVE  /\ queue[i] \in Sharer /\ queue[i].id \in Ids /\ queue[i].file \in Paths
         /\ queue[i].written \in Nat /\ Size[queue[i].file] \in Nat
         /\ Original(queue[i].file) \in Seq(Piece)
         /\ Len(Original(queue[i].file)) = Size[queue[i].file]
         /\ data \in Seq(Piece) /\ w = queue[i].written + Len(data)
         /\ Len(data) = (IF queue[i].written < Size[queue[i].file] THEN 1 ELSE 0)
         /\ data # <<>> <=> Len(data) = 1
         /\ Chunk(queue[i].id, data) \in ClientMessages
         /\ toServer' = Append(toServer, Chunk(queue[i].id, data))
<1>1. queue[i] \in Sharer /\ queue[i].mode = "read" /\ QueueShape(i)
  BY DEF Basic, ClientSide, ChunkSent
<1>2. queue[i].id \in Ids /\ queue[i].file \in Paths /\ queue[i].written \in Nat
  BY <1>1, SharerFields DEF QueueShape
<1>3. /\ Original(queue[i].file) \in Seq(Piece) /\ Size[queue[i].file] \in Nat
      /\ Len(Original(queue[i].file)) = Size[queue[i].file]
  BY <1>2, OriginalFacts
<1>4. /\ data \in Seq(Piece)
      /\ Len(data) = (IF queue[i].written < Size[queue[i].file] THEN 1 ELSE 0)
      /\ data # <<>> <=> Len(data) = 1
  <2>1. CASE queue[i].written < Size[queue[i].file]
    <3>1. data \in Seq(Piece) /\ Len(data) = 1
      BY <1>2, <1>3, <2>1, PortionFacts
    <3>2. data # <<>>
      BY <3>1
    <3> QED BY <2>1, <3>1, <3>2
  <2>2. CASE queue[i].written >= Size[queue[i].file]
    <3>1. data = <<>> /\ Len(data) = 0 /\ data \in Seq(Piece)
      BY <1>2, <1>3, <2>2, PortionFacts
    <3>2. ~(queue[i].written < Size[queue[i].file])
      BY <1>2, <1>3, <2>2
    <3> QED BY <3>1, <3>2
  <2> QED BY <1>2, <1>3, <2>1, <2>2
<1>5. w = queue[i].written + Len(data) /\ toServer' = Append(toServer, Chunk(queue[i].id, data))
  BY DEF ChunkSent
<1>6. Chunk(queue[i].id, data) \in ClientMessages
  BY <1>2, <1>4 DEF Chunk, ClientMessages, ChunkMessages
<1> QED BY <1>1, <1>2, <1>3, <1>4, <1>5, <1>6

LEMMA SentProtocol ==
  ASSUME Basic, Basic', Protocol, NEW i \in 1..Len(queue), NEW w \in Nat, ChunkSent(i, w)
  PROVE  Protocol'
<1> DEFINE data == Portion(Original(queue[i].file), queue[i].written)
           m == Chunk(queue[i].id, data)
<1>1. /\ queue[i].id \in Ids /\ m \in ClientMessages /\ toServer' = Append(toServer, m)
  BY SentFacts
<1>2. m.kind = "Chunk" /\ m.id = queue[i].id
  BY DEF Chunk
<1> HIDE DEF m
<1>3. UNCHANGED <<asked, toClient, offers>>
  BY DEF ChunkSent, remote, past
<1>4. \A j \in 1..Len(toServer') : toServer'[j].kind = "RequestFileUpload" =>
        \E n \in 1..Len(toServer) : toServer'[j] = toServer[n]
  <2>1. /\ Len(toServer') = Len(toServer) + 1 /\ toServer'[Len(toServer) + 1] = m
        /\ Len(toServer) \in Nat
        /\ \A n \in 1..Len(toServer) : toServer'[n] = toServer[n]
    BY <1>1, ToServerSent
  <2> QED BY <1>2, <2>1
<1>5. ASSUME NEW k \in Ids
      PROVE  /\ asks(k)' + permits(k)' + turns(k)' <= asks(k) + permits(k) + turns(k)
             /\ asks(k)' <= asks(k) /\ permits(k)' <= permits(k)
             /\ chunks(k)' <= chunks(k) \/ turns(k) > 0
             /\ Writing(k)' => Writing(k) /\ offers'[k] = offers[k]
  <2>1. /\ asks(k)' = asks(k) + (IF Asks(m, k) THEN 1 ELSE 0)
        /\ chunks(k)' = chunks(k) + (IF Carries(m, k) THEN 1 ELSE 0)
    BY <1>1, ToServerSent
  <2>2. ~Asks(m, k) /\ (Carries(m, k) => queue[i].id = k)
    BY <1>2 DEF Asks, Carries
  <2>3. /\ asks(k) \in Nat /\ chunks(k) \in Nat /\ permits(k) \in Nat
        /\ turns(k) \in Nat /\ turns(k)' \in Nat
    BY CountsAreNats, NextCountsAreNats
  <2>4. permits(k)' = permits(k) /\ (Writing(k)' => Writing(k) /\ offers'[k] = offers[k])
    BY <1>3 DEF permits, Writing
  <2>5. turns(k)' <= turns(k) /\ (queue[i].id = k => turns(k) > 0)
    BY SentTurns
  <2> QED BY <2>1, <2>2, <2>3, <2>4, <2>5
<1> QED BY <1>3, <1>4, <1>5, ProtocolKept

LEMMA GrantedProtocol ==
  ASSUME Basic, Basic', Protocol, NEW m \in ClientMessages, UploadGranted(m) PROVE Protocol'
<1>1. /\ toServer # <<>> /\ m = Head(toServer) /\ toServer' = Tail(toServer)
      /\ m.kind = "RequestFileUpload" /\ m.id \in Ids /\ UNCHANGED <<asked, queue>>
      /\ toClient' = Append(toClient, [kind |-> "AgreeFileUpload", id |-> m.id])
      /\ Is(offers'[m.id], m.name, "write", m.name, m.size, m.id, 0)
      /\ \A key \in Keys : key # m.id => offers'[key] = IF key = m.name THEN None ELSE offers[key]
  BY ToServer DEF UploadGranted, Served, local
<1>2. /\ Len(toServer) \in Nat \ {0} /\ Len(toServer') = Len(toServer) - 1 /\ toServer[1] = m
      /\ \A i \in 1..Len(toServer') : toServer'[i] = toServer[i + 1]
  BY <1>1, ToServerTaken
<1>3. \A i \in 1..Len(toServer') : Request(i)'
  BY <1>1, <1>2 DEF Protocol, Request
<1>4. m.id < Len(asked) /\ Len(asked) \in Nat /\ m.id \in Nat
  <2>1. Request(1) /\ toServer[1] = m /\ Len(asked) \in Nat
    BY <1>2 DEF Protocol, Basic, History
  <2> QED BY <1>1, <2>1 DEF Request, Ids
<1>5. ASSUME NEW k \in Ids PROVE Once(k)'
  <2>1. /\ asks(k) = asks(k)' + (IF k = m.id THEN 1 ELSE 0)
        /\ chunks(k) = chunks(k)' /\ asks(k)' \in Nat /\ chunks(k)' \in Nat
    <3>1. /\ asks(k) = asks(k)' + (IF Asks(m, k) THEN 1 ELSE 0)
          /\ chunks(k) = chunks(k)' + (IF Carries(m, k) THEN 1 ELSE 0)
          /\ asks(k)' \in Nat /\ chunks(k)' \in Nat
      BY <1>1, ToServerTaken
    <3>2. (Asks(m, k) <=> k = m.id) /\ ~Carries(m, k)
      BY <1>1 DEF Asks, Carries
    <3> QED BY <3>1, <3>2
  <2>2. permits(k)' = permits(k) + (IF k = m.id THEN 1 ELSE 0)
    <3> DEFINE answer == [kind |-> "AgreeFileUpload", id |-> m.id]
    <3>1. answer \in ServerMessages /\ answer.kind = "AgreeFileUpload" /\ answer.id = m.id
      BY <1>1 DEF ServerMessages
    <3> HIDE DEF answer
    <3>2. toClient' = Append(toClient, answer)
      BY <1>1 DEF answer
    <3>3. permits(k)' = permits(k) + (IF Grants(answer, k) THEN 1 ELSE 0)
      BY <3>1, <3>2, ToClientSent
    <3> QED BY <3>1, <3>3 DEF Grants
  <2>3. turns(k)' = turns(k) /\ turns(k) \in Nat /\ permits(k) \in Nat /\ Once(k)
        /\ Len(asked') = Len(asked) /\ k \in Nat
    BY <1>1, CountsAreNats DEF turns, Protocol, Ids
  <2>4. CASE k = m.id
    <3>1. offers'[k].written = 0
      BY <1>1, <2>4 DEF Is
    <3> QED BY <1>4, <2>1, <2>2, <2>3, <2>4, <3>1 DEF Once
  <2>5. CASE k # m.id
    <3>1. Writing(k)' => Writing(k) /\ offers'[k] = offers[k]
      BY <1>1, <2>5 DEF Writing, IsWrite, Keys
    <3> QED BY <2>1, <2>2, <2>3, <2>5, <3>1 DEF Once
  <2> QED BY <2>4, <2>5
<1> QED BY <1>3, <1>5 DEF Protocol

-----------------------------------------------------------------------------
(* What an upload brings *)

\* The number is about to be that of a download only: what the client sends under
\* it from now on is ignored.
Dying(k) ==
  \E i \in 1..Len(toServer) :
    /\ Agrees(toServer[i], k)
    /\ \A j \in 1..Len(toServer) : i < j => ~Asks(toServer[j], k)

Alive(k) == ~Dying(k) /\ (Writing(k) \/ asks(k) > 0)

\* The client has a file open for its k-th upload, w pieces of which were sent.
Source(sharer, k, w) ==
  /\ sharer.file = asked[k + 1].path /\ sharer.size = Size[asked[k + 1].path]
  /\ sharer.written = w

\* The client counts as written what the server has and what is on its way.
Sources(k) ==
  client # "exited" /\ k < Len(asked) /\ Alive(k) =>
    /\ IsRead(sharers[k]) => Source(sharers[k], k, 0)
    /\ \A i \in 1..Len(queue) : queue[i] \in Turns(k) =>
         /\ Source(queue[i], k, offers[k].written + pieces(k))
         /\ queue[i].written < queue[i].size \/ queue[i].size = 0

\* What is on its way under the number continues what the server has.
Continues(k) ==
  \A i \in 1..Len(toServer) :
    Carries(toServer[i], k) /\ (\A j \in 1..(i - 1) : ~Agrees(toServer[j], k)) =>
      toServer[i].data = Portion(Original(asked[k + 1].path),
                                 offers[k].written + Before(toServer, Pieces(k), i))

\* What the server has is the beginning of the file of the client, and no other
\* upload writes to it.
Sinks(k) ==
  Writing(k) =>
    /\ offers[k].file = asked[k + 1].name /\ offers[k].size = Size[asked[k + 1].path]
    /\ offers[k].written < offers[k].size \/ offers[k].size = 0
    /\ store[offers[k].file] = Begun(Original(asked[k + 1].path), offers[k].written)
    /\ offers[k].file \notin announced
    /\ \A j \in Ids : Writing(j) /\ offers[j].file = offers[k].file => j = k
    /\ Continues(k)

Uploading ==
  /\ Protocol
  /\ AnnouncedIsComplete
  /\ \A k \in Ids : Sources(k) /\ Sinks(k)

LEMMA SinkFacts ==
  ASSUME Basic, Protocol, NEW k \in Ids, Writing(k)
  PROVE  /\ offers[k] \in Sharer /\ offers[k] # None /\ offers[k].mode = "write"
         /\ offers[k].id = k /\ offers[k].written \in Nat /\ offers[k].size \in Nat
         /\ offers[k].written <= offers[k].size
         /\ offers[k].file \in Names /\ offers[k].file \notin Stored
         /\ offers[k].name = offers[k].file
         /\ k \in Nat /\ k < Len(asked) /\ Len(asked) \in Nat /\ asked[k + 1] \in Uploads
         /\ asked[k + 1].path \in Paths /\ asked[k + 1].name \in Names
         /\ Original(asked[k + 1].path) \in Seq(Piece)
         /\ Len(Original(asked[k + 1].path)) = Size[asked[k + 1].path]
         /\ Size[asked[k + 1].path] \in Nat /\ asks(k) = 0
<1>1. k \in Keys /\ k \in Nat /\ asked \in Seq(Uploads) /\ ServerShape(k) /\ Once(k)
  BY DEF Keys, Ids, Basic, History, ServerSide, Protocol
<1>2. offers[k] \in Sharer /\ offers[k] # None /\ offers[k].mode = "write"
  BY <1>1 DEF Basic, ServerSide, Map, Writing, IsWrite
<1>3. /\ offers[k].written \in Nat /\ offers[k].size \in Nat
      /\ offers[k].id = k /\ offers[k].written <= offers[k].size
      /\ offers[k].file \in Names /\ offers[k].file \notin Stored
      /\ offers[k].name = offers[k].file
  BY <1>1, <1>2, SharerFields DEF ServerShape, IsWrite
<1>4. k < Len(asked) /\ Len(asked) \in Nat /\ asks(k) = 0
  <2>1. Len(asked) \in Nat /\ asks(k) \in Nat
    BY <1>1, CountsAreNats
  <2> QED BY <1>1, <2>1 DEF Once
<1>5. asked[k + 1] \in Uploads
  BY <1>1, <1>4
<1>6. asked[k + 1].path \in Paths /\ asked[k + 1].name \in Names
  BY <1>5, TransferAssumption
<1> QED BY <1>1, <1>2, <1>3, <1>4, <1>5, <1>6, OriginalFacts

LEMMA DyingSent ==
  ASSUME Basic, NEW m \in ClientMessages, toServer' = Append(toServer, m), NEW k, ~Asks(m, k),
         Dying(k) \/ Agrees(m, k)
  PROVE  Dying(k)'
<1>1. /\ Len(toServer') = Len(toServer) + 1 /\ toServer'[Len(toServer) + 1] = m
      /\ Len(toServer) \in Nat
      /\ \A i \in 1..Len(toServer) : toServer'[i] = toServer[i]
  BY ToServerSent
<1>2. CASE Agrees(m, k)
  <2>1. /\ Len(toServer) + 1 \in 1..Len(toServer')
        /\ \A j \in 1..Len(toServer') : ~(Len(toServer) + 1 < j)
    BY <1>1
  <2> QED BY <1>1, <1>2, <2>1 DEF Dying
<1>3. CASE Dying(k)
  <2>1. PICK i \in 1..Len(toServer) :
          /\ Agrees(toServer[i], k)
          /\ \A j \in 1..Len(toServer) : i < j => ~Asks(toServer[j], k)
    BY <1>3 DEF Dying
  <2>2. \A j \in 1..Len(toServer') : i < j => ~Asks(toServer'[j], k)
    <3> SUFFICES ASSUME NEW j \in 1..Len(toServer'), i < j PROVE ~Asks(toServer'[j], k)
      OBVIOUS
    <3>1. j \in 1..Len(toServer) \/ j = Len(toServer) + 1
      BY <1>1
    <3> QED BY <1>1, <2>1, <3>1
  <2>3. i \in 1..Len(toServer') /\ Agrees(toServer'[i], k)
    BY <1>1, <2>1
  <2> QED BY <2>2, <2>3 DEF Dying
<1> QED BY <1>2, <1>3

LEMMA AliveSent ==
  ASSUME Basic, NEW m \in ClientMessages, toServer' = Append(toServer, m), NEW k, ~Asks(m, k),
         Writing(k)' => Writing(k), Alive(k)'
  PROVE  Alive(k) /\ ~Agrees(m, k)
<1>1. asks(k)' = asks(k)
  <2>1. asks(k)' = asks(k) + (IF Asks(m, k) THEN 1 ELSE 0) /\ asks(k) \in Nat
    BY ToServerSent, CountsAreNats
  <2> QED BY <2>1
<1> QED BY <1>1, DyingSent DEF Alive

LEMMA AliveTaken ==
  ASSUME Basic, toServer # <<>>, NEW m \in ClientMessages, m = Head(toServer),
         toServer' = Tail(toServer), NEW k,
         Writing(k)' => (Writing(k) \/ Asks(m, k)) /\ ~Agrees(m, k), Alive(k)'
  PROVE  Alive(k)
<1>1. /\ Len(toServer) \in Nat \ {0} /\ Len(toServer') = Len(toServer) - 1 /\ toServer[1] = m
      /\ \A i \in 1..Len(toServer') : toServer'[i] = toServer[i + 1]
      /\ asks(k) = asks(k)' + (IF Asks(m, k) THEN 1 ELSE 0) /\ asks(k)' \in Nat
  BY ToServerTaken
<1>2. toServer' \in Seq(ClientMessages)
  BY HeadTailProperties DEF Basic, Between
<1>3. ASSUME Dying(k), ~Agrees(m, k) \/ asks(k)' > 0 PROVE Dying(k)'
  <2>1. PICK i \in 1..Len(toServer) :
          /\ Agrees(toServer[i], k)
          /\ \A j \in 1..Len(toServer) : i < j => ~Asks(toServer[j], k)
    BY <1>3 DEF Dying
  <2>2. i # 1
    <3> SUFFICES ASSUME i = 1 PROVE FALSE
      OBVIOUS
    <3>1. asks(k)' # 0
      BY <1>1, <1>3, <2>1
    <3>2. PICK j \in 1..Len(toServer') : toServer'[j] \in Requests(k)
      BY <1>2, <3>1, CountSome DEF asks
    <3>3. j + 1 \in 1..Len(toServer) /\ 1 < j + 1 /\ Asks(toServer[j + 1], k)
      BY <1>1, <3>2 DEF Requests
    <3> QED BY <2>1, <3>3
  <2>3. i - 1 \in 1..Len(toServer') /\ (i - 1) + 1 = i
    BY <1>1, <2>2
  <2>4. Agrees(toServer'[i - 1], k)
    BY <1>1, <2>1, <2>3
  <2>5. \A j \in 1..Len(toServer') : i - 1 < j => ~Asks(toServer'[j], k)
    <3> SUFFICES ASSUME NEW j \in 1..Len(toServer'), i - 1 < j PROVE ~Asks(toServer'[j], k)
      OBVIOUS
    <3>1. j + 1 \in 1..Len(toServer) /\ i < j + 1
      BY <1>1
    <3> QED BY <1>1, <2>1, <3>1
  <2> QED BY <2>3, <2>4, <2>5 DEF Dying
<1>4. ~Agrees(m, k) \/ asks(k)' > 0
  BY DEF Alive
<1>5. ~Dying(k)
  BY <1>3, <1>4 DEF Alive
<1>6. Writing(k) \/ asks(k) > 0
  BY <1>1 DEF Alive
<1> QED BY <1>5, <1>6 DEF Alive

LEMMA SourcesKept ==
  ASSUME Basic, Basic', NEW k \in Ids, Sources(k),
         client' # "exited" => client # "exited",
         Alive(k)' => Alive(k),
         k < Len(asked') => k < Len(asked) /\ asked'[k + 1] = asked[k + 1],
         IsRead(sharers'[k]) => sharers'[k] = sharers[k],
         \A i \in 1..Len(queue') : queue'[i] \in Turns(k) =>
           /\ \E j \in 1..Len(queue) : queue'[i] = queue[j]
           /\ Alive(k)' => offers'[k].written + pieces(k)' = offers[k].written + pieces(k)
  PROVE  Sources(k)'
<1> SUFFICES ASSUME client' # "exited", k < Len(asked'), Alive(k)'
             PROVE  /\ IsRead(sharers'[k]) => Source(sharers[k], k, 0)'
                    /\ \A i \in 1..Len(queue') : queue'[i] \in Turns(k) =>
                         /\ Source(queue[i], k, offers[k].written + pieces(k))'
                         /\ queue'[i].written < queue'[i].size \/ queue'[i].size = 0
  BY DEF Sources
<1>1. /\ client # "exited" /\ k < Len(asked) /\ Alive(k) /\ asked'[k + 1] = asked[k + 1]
  OBVIOUS
<1>2. /\ IsRead(sharers[k]) => Source(sharers[k], k, 0)
      /\ \A i \in 1..Len(queue) : queue[i] \in Turns(k) =>
           /\ Source(queue[i], k, offers[k].written + pieces(k))
           /\ queue[i].written < queue[i].size \/ queue[i].size = 0
  BY <1>1 DEF Sources
<1>3. IsRead(sharers'[k]) => Source(sharers[k], k, 0)'
  BY <1>1, <1>2 DEF Source
<1>4. ASSUME NEW i \in 1..Len(queue'), queue'[i] \in Turns(k)
      PROVE  /\ Source(queue[i], k, offers[k].written + pieces(k))'
             /\ queue'[i].written < queue'[i].size \/ queue'[i].size = 0
  <2>1. PICK j \in 1..Len(queue) : queue'[i] = queue[j]
    BY <1>4
  <2>2. offers'[k].written + pieces(k)' = offers[k].written + pieces(k)
    BY <1>4
  <2>3. /\ Source(queue[j], k, offers[k].written + pieces(k))
        /\ queue[j].written < queue[j].size \/ queue[j].size = 0
    BY <1>2, <1>4, <2>1
  <2> QED BY <1>1, <2>1, <2>2, <2>3 DEF Source
<1> QED BY <1>3, <1>4

LEMMA ContinuesSent ==
  ASSUME Basic, Protocol, NEW m \in ClientMessages, toServer' = Append(toServer, m),
         NEW k \in Ids, Writing(k), Continues(k), offers' = offers,
         asked'[k + 1] = asked[k + 1],
         Carries(m, k) =>
           \/ \E j \in 1..Len(toServer) : Agrees(toServer[j], k)
           \/ m.data = Portion(Original(asked[k + 1].path), offers[k].written + pieces(k))
  PROVE  Continues(k)'
<1>1. /\ Len(toServer') = Len(toServer) + 1 /\ toServer'[Len(toServer) + 1] = m
      /\ Len(toServer) \in Nat
      /\ \A i \in 1..Len(toServer) : toServer'[i] = toServer[i]
      /\ \A i \in 1..(Len(toServer) + 1) : \A S : Before(toServer', S, i) = Before(toServer, S, i)
  BY ToServerSent
<1>2. pieces(k) = Before(toServer, Pieces(k), Len(toServer) + 1)
  BY DEF pieces, Count
<1> SUFFICES ASSUME NEW i \in 1..Len(toServer'), Carries(toServer'[i], k),
                    \A j \in 1..(i - 1) : ~Agrees(toServer'[j], k)
             PROVE  toServer'[i].data = Portion(Original(asked[k + 1].path),
                                       offers[k].written + Before(toServer', Pieces(k), i))
  BY DEF Continues
<1>3. CASE i \in 1..Len(toServer)
  <2>1. \A j \in 1..(i - 1) : ~Agrees(toServer[j], k)
    BY <1>1, <1>3
  <2>2. Before(toServer', Pieces(k), i) = Before(toServer, Pieces(k), i)
    BY <1>1, <1>3
  <2> QED BY <1>1, <1>3, <2>1, <2>2 DEF Continues
<1>4. CASE i = Len(toServer) + 1
  <2>1. \A j \in 1..Len(toServer) : ~Agrees(toServer[j], k)
    BY <1>1, <1>4
  <2>2. Before(toServer', Pieces(k), i) = pieces(k)
    BY <1>1, <1>2, <1>4
  <2> QED BY <1>1, <1>4, <2>1, <2>2
<1> QED BY <1>1, <1>3, <1>4

LEMMA ContinuesTaken ==
  ASSUME Basic, Protocol, toServer # <<>>, NEW m \in ClientMessages, m = Head(toServer),
         toServer' = Tail(toServer), NEW k \in Ids, Writing(k), Continues(k), ~Agrees(m, k),
         asked' = asked,
         offers'[k].written =
           offers[k].written + (IF Carries(m, k) /\ m.data # <<>> THEN 1 ELSE 0)
  PROVE  Continues(k)'
<1>1. /\ Len(toServer) \in Nat \ {0} /\ Len(toServer') = Len(toServer) - 1 /\ toServer[1] = m
      /\ \A i \in 1..Len(toServer') : toServer'[i] = toServer[i + 1]
      /\ \A i \in 1..Len(toServer) : \A S :
           Before(toServer, S, i + 1) = Before(toServer', S, i) + (IF m \in S THEN 1 ELSE 0)
  BY ToServerTaken
<1>2. m \in Pieces(k) <=> Carries(m, k) /\ m.data # <<>>
  BY ToServer
<1>3. offers[k].written \in Nat
  BY SinkFacts
<1> SUFFICES ASSUME NEW i \in 1..Len(toServer'), Carries(toServer'[i], k),
                    \A j \in 1..(i - 1) : ~Agrees(toServer'[j], k)
             PROVE  toServer'[i].data = Portion(Original(asked[k + 1].path),
                                       offers'[k].written + Before(toServer', Pieces(k), i))
  BY DEF Continues
<1>4. i \in 1..Len(toServer) /\ i + 1 \in 1..Len(toServer) /\ toServer'[i] = toServer[i + 1]
  BY <1>1
<1>5. \A j \in 1..((i + 1) - 1) : ~Agrees(toServer[j], k)
  <2> SUFFICES ASSUME NEW j \in 1..i PROVE ~Agrees(toServer[j], k)
    OBVIOUS
  <2>1. CASE j = 1
    BY <1>1, <2>1
  <2>2. CASE j # 1
    <3>1. j - 1 \in 1..(i - 1) /\ j - 1 \in 1..Len(toServer') /\ (j - 1) + 1 = j
      BY <1>1, <2>2
    <3> QED BY <1>1, <3>1
  <2> QED BY <2>1, <2>2
<1>6. toServer[i + 1].data = Portion(Original(asked[k + 1].path),
                                     offers[k].written + Before(toServer, Pieces(k), i + 1))
  BY <1>4, <1>5 DEF Continues
<1>7. Before(toServer', Pieces(k), i) \in Nat
  <2>1. i \in Nat
    BY <1>1
  <2> QED BY <2>1, BeforeType
<1>8. Before(toServer, Pieces(k), i + 1) =
        Before(toServer', Pieces(k), i) + (IF m \in Pieces(k) THEN 1 ELSE 0)
  BY <1>1, <1>4
<1>9. offers'[k].written + Before(toServer', Pieces(k), i) =
        offers[k].written + Before(toServer, Pieces(k), i + 1)
  BY <1>2, <1>3, <1>7, <1>8
<1> QED BY <1>4, <1>6, <1>9

\* Nothing of the upload changes at the server.
LEMMA SinksKept ==
  ASSUME Basic, Protocol, NEW k \in Ids, Sinks(k),
         UNCHANGED <<store, announced>>,
         \A j \in Ids : Writing(j)' => offers'[j] = offers[j],
         Writing(k)' => asked'[k + 1] = asked[k + 1] /\ (Continues(k) => Continues(k)')
  PROVE  Sinks(k)'
<1> SUFFICES ASSUME Writing(k)' PROVE Sinks(k)'
  BY DEF Sinks
<1>1. offers'[k] = offers[k] /\ asked'[k + 1] = asked[k + 1] /\ (Continues(k) => Continues(k)')
  OBVIOUS
<1>2. Writing(k)
  BY <1>1 DEF Writing
<1>3. \A j \in Ids : Writing(j)' /\ offers'[j].file = offers'[k].file => j = k
  BY <1>1, <1>2 DEF Writing, Sinks
<1> QED BY <1>1, <1>2, <1>3 DEF Sinks

\* The number of pieces on their way, when nothing is sent or taken for it.
LEMMA SamePieces ==
  ASSUME Basic, NEW k,
         \/ UNCHANGED toServer
         \/ \E m \in ClientMessages : ~Carries(m, k) /\ toServer' = Append(toServer, m)
         \/ \E m \in ClientMessages :
              ~Carries(m, k) /\ toServer # <<>> /\ m = Head(toServer) /\ toServer' = Tail(toServer)
  PROVE  pieces(k)' = pieces(k)
<1>1. CASE UNCHANGED toServer
  BY <1>1 DEF pieces
<1>2. ASSUME NEW m \in ClientMessages, ~Carries(m, k), toServer' = Append(toServer, m)
      PROVE  pieces(k)' = pieces(k)
  <2>1. /\ pieces(k)' = pieces(k) + (IF Carries(m, k) /\ m.data # <<>> THEN 1 ELSE 0)
        /\ pieces(k) \in Nat
    BY <1>2, ToServerSent, CountsAreNats
  <2> QED BY <1>2, <2>1
<1>3. ASSUME NEW m \in ClientMessages, ~Carries(m, k), toServer # <<>>, m = Head(toServer),
             toServer' = Tail(toServer)
      PROVE  pieces(k)' = pieces(k)
  <2>1. /\ pieces(k) = pieces(k)' + (IF Carries(m, k) /\ m.data # <<>> THEN 1 ELSE 0)
        /\ pieces(k)' \in Nat
    BY <1>3, ToServerTaken
  <2> QED BY <1>3, <2>1
<1> QED BY <1>1, <1>2, <1>3

\* A step of the client that sends nothing for an upload.
LEMMA ClientUploading ==
  ASSUME Basic, Basic', Protocol', Uploading,
         client' # "exited" => client # "exited",
         UNCHANGED <<asked, queue, offers, store, announced>>,
         \/ UNCHANGED toServer /\ \A k \in Ids : IsRead(sharers'[k]) => sharers'[k] = sharers[k]
         \/ \E m \in ClientMessages :
              /\ m.kind \in {"RequestFileDownload", "AgreeFileDownload", "Part"}
              /\ toServer' = Append(toServer, m)
              /\ \A k \in Ids :
                   IsRead(sharers'[k]) => sharers'[k] = sharers[k] \/ Agrees(m, k)
  PROVE  Uploading'
<1>1. Protocol /\ AnnouncedIsComplete'
  BY DEF Uploading, AnnouncedIsComplete
<1>2. ASSUME NEW k \in Ids PROVE Sources(k)' /\ Sinks(k)'
  <2>1. Sources(k) /\ Sinks(k) /\ \A j \in Ids : Writing(j)' <=> Writing(j)
    BY DEF Uploading, Writing
  <2>2. \/ UNCHANGED toServer
        \/ \E m \in ClientMessages : ~Carries(m, k) /\ toServer' = Append(toServer, m)
    BY DEF Carries
  <2>3. pieces(k)' = pieces(k)
    BY <2>2, SamePieces
  <2>4. \A i \in 1..Len(queue') : queue'[i] \in Turns(k) =>
          /\ \E j \in 1..Len(queue) : queue'[i] = queue[j]
          /\ offers'[k].written + pieces(k)' = offers[k].written + pieces(k)
    BY <2>3
  <2>5. CASE UNCHANGED toServer /\ (IsRead(sharers'[k]) => sharers'[k] = sharers[k])
    <3>1. Alive(k)' => Alive(k)
      BY <2>1, <2>5 DEF Alive, Dying, asks
    <3>2. Sources(k)'
      BY <2>1, <2>4, <2>5, <3>1, SourcesKept
    <3>3. Continues(k) => Continues(k)'
      BY <2>5 DEF Continues
    <3>4. Sinks(k)'
      BY <1>1, <2>1, <3>3, SinksKept
    <3> QED BY <3>2, <3>4
  <2>6. ASSUME NEW m \in ClientMessages,
               m.kind \in {"RequestFileDownload", "AgreeFileDownload", "Part"},
               toServer' = Append(toServer, m),
               IsRead(sharers'[k]) => sharers'[k] = sharers[k] \/ Agrees(m, k)
        PROVE  Sources(k)' /\ Sinks(k)'
    <3>1. ~Asks(m, k) /\ ~Carries(m, k)
      BY <2>6 DEF Asks, Carries
    <3>2. Alive(k)' => Alive(k) /\ ~Agrees(m, k)
      BY <2>1, <2>6, <3>1, AliveSent
    <3>3. Sources(k)'
      <4>1. CASE Alive(k)'
        BY <2>1, <2>4, <2>6, <3>2, <4>1, SourcesKept
      <4>2. CASE ~Alive(k)'
        BY <4>2 DEF Sources
      <4> QED BY <4>1, <4>2
    <3>4. Writing(k)' => (Continues(k) => Continues(k)')
      BY <1>1, <2>1, <2>6, <3>1, ContinuesSent
    <3>5. Sinks(k)'
      BY <1>1, <2>1, <3>4, SinksKept
    <3> QED BY <3>3, <3>5
  <2> QED BY <2>5, <2>6
<1> QED BY <1>1, <1>2 DEF Uploading

LEMMA AgreedUploading ==
  ASSUME Basic, Basic', Protocol', Uploading, NEW m \in ServerMessages, UploadAgreed(m)
  PROVE  Uploading'
<1>1. /\ UNCHANGED <<asked, toServer, offers, store, announced>> /\ client # "exited"
      /\ m.kind = "AgreeFileUpload" /\ m.id \in Ids /\ m.id \in Keys /\ m.id \in Nat
      /\ toClient # <<>> /\ m = Head(toClient) /\ toClient' = Tail(toClient)
  BY ToClient DEF UploadAgreed, Received, remote, Keys, Ids
<1>2. Protocol /\ AnnouncedIsComplete'
  BY <1>1 DEF Uploading, AnnouncedIsComplete
<1>3. /\ sharers \in Map /\ queue \in Seq(Sharer) /\ ClientShape(m.id)
  BY <1>1 DEF Basic, ClientSide
<1>4. permits(m.id) > 0
  <2>1. permits(m.id) = permits(m.id)' + (IF Grants(m, m.id) THEN 1 ELSE 0) /\ permits(m.id)' \in Nat
    BY <1>1, ToClientTaken
  <2>2. Grants(m, m.id)
    BY <1>1 DEF Grants
  <2> QED BY <2>1, <2>2
<1>5. /\ Once(m.id) /\ asks(m.id) \in Nat /\ turns(m.id) \in Nat /\ permits(m.id) \in Nat
      /\ chunks(m.id) \in Nat /\ Len(asked) \in Nat
  BY <1>1, <1>2, CountsAreNats DEF Protocol, Basic, History
<1>6. /\ asks(m.id) = 0 /\ turns(m.id) = 0 /\ chunks(m.id) = 0
      /\ Writing(m.id) => offers[m.id].written = 0
  BY <1>4, <1>5 DEF Once
<1>7. pieces(m.id) = 0
  <2>1. toServer \in Seq(ClientMessages) /\ Len(toServer) \in Nat /\ Len(toServer) + 1 \in Nat
    BY DEF Basic, Between
  <2>2. ASSUME NEW i \in 1..((Len(toServer) + 1) - 1) PROVE toServer[i] \notin Pieces(m.id)
    <3>1. i \in 1..Len(toServer) /\ toServer[i] \in ClientMessages
      BY <2>1
    <3>2. toServer[i] \notin Chunks(m.id)
      BY <1>6, <2>1, <3>1, CountOne DEF chunks
    <3> QED BY <3>1, <3>2, ToServer DEF Chunks
  <2> QED BY <2>1, <2>2, NoneBefore DEF pieces, Count
<1>8. ASSUME NEW k \in Ids PROVE Sources(k)' /\ Sinks(k)'
  <2>1. Sources(k) /\ Sinks(k) /\ \A j \in Ids : Writing(j)' <=> Writing(j)
    BY <1>1 DEF Uploading, Writing
  <2>2. Continues(k) => Continues(k)'
    BY <1>1 DEF Continues
  <2>3. Sinks(k)'
    BY <1>1, <1>2, <2>1, <2>2, SinksKept DEF Writing
  <2>4. Alive(k)' <=> Alive(k)
    BY <1>1 DEF Alive, Dying, asks, Writing
  <2>5. pieces(k)' = pieces(k)
    BY <1>1 DEF pieces
  <2>6. IsRead(sharers'[k]) => sharers'[k] = sharers[k]
    BY <1>1 DEF UploadAgreed, IsRead, Keys
  <2>7. CASE sharers[m.id] = None \/ k # m.id
    <3>1. ASSUME NEW i \in 1..Len(queue'), queue'[i] \in Turns(k)
          PROVE  \E j \in 1..Len(queue) : queue'[i] = queue[j]
      <4>1. CASE sharers[m.id] = None
        BY <3>1, <4>1 DEF UploadAgreed
      <4>2. CASE sharers[m.id] # None
        <5>1. sharers[m.id] \in Sharer /\ queue' = Append(queue, sharers[m.id])
          BY <1>1, <1>3, <4>2 DEF UploadAgreed, Map
        <5>2. /\ Len(queue') = Len(queue) + 1 /\ queue'[Len(queue) + 1] = sharers[m.id]
              /\ Len(queue) \in Nat /\ \A j \in 1..Len(queue) : queue'[j] = queue[j]
          BY <1>3, <5>1, AppendProperties
        <5>3. sharers[m.id] \notin Turns(k)
          BY <1>3, <2>7, <4>2 DEF Turns, ClientShape, IsRead
        <5> QED BY <3>1, <5>2, <5>3
      <4> QED BY <4>1, <4>2
    <3>2. Sources(k)'
      BY <1>1, <2>1, <2>4, <2>5, <2>6, <3>1, SourcesKept
    <3> QED BY <2>3, <3>2
  <2>8. CASE sharers[m.id] # None /\ k = m.id
    <3>1. sharers[k] \in Sharer /\ queue' = Append(queue, sharers[k])
      BY <1>1, <1>3, <2>8 DEF UploadAgreed, Map
    <3>2. /\ Len(queue') = Len(queue) + 1 /\ queue'[Len(queue) + 1] = sharers[k]
          /\ Len(queue) \in Nat /\ \A j \in 1..Len(queue) : queue'[j] = queue[j]
      BY <1>3, <3>1, AppendProperties
    <3>3. \A i \in 1..Len(queue) : queue[i] \notin Turns(k)
      BY <1>3, <1>6, <2>8, CountOne DEF turns
    <3>4. ~IsRead(sharers'[k])
      BY <2>8 DEF UploadAgreed, IsRead
    <3>5. ASSUME Alive(k)', k < Len(asked), NEW i \in 1..Len(queue'), queue'[i] \in Turns(k)
          PROVE  /\ Source(queue[i], k, offers[k].written + pieces(k))'
                 /\ queue'[i].written < queue'[i].size \/ queue'[i].size = 0
      <4>1. queue'[i] = sharers[k] /\ sharers[k].mode = "read"
        BY <3>2, <3>3, <3>5 DEF Turns
      <4>2. Writing(k)
        BY <1>6, <2>4, <2>8, <3>5 DEF Alive
      <4>3. Alive(k)
        BY <2>4, <3>5
      <4>4. Source(sharers[k], k, 0)
        BY <1>1, <2>1, <2>8, <3>5, <4>1, <4>3 DEF Sources, IsRead
      <4>5. offers[k].written + pieces(k) = 0
        BY <1>6, <1>7, <2>8, <4>2
      <4>6. sharers[k].size \in Nat
        BY <3>1, SharerFields
      <4> QED BY <1>1, <2>5, <4>1, <4>4, <4>5, <4>6 DEF Source
    <3>6. Sources(k)'
      BY <1>1, <3>4, <3>5 DEF Sources
    <3> QED BY <2>3, <3>6
  <2> QED BY <2>7, <2>8
<1> QED BY <1>2, <1>8 DEF Uploading

LEMMA BeginsUploading ==
  ASSUME Basic, Basic', Protocol', Uploading, NEW u \in Uploads, UploadBegins(u)
  PROVE  Uploading'
<1>1. /\ UNCHANGED <<queue, offers, store, announced>> /\ client # "exited" /\ Protocol
      /\ next \in Ids /\ next = Len(asked) /\ asked \in Seq(Uploads) /\ Len(asked) \in Nat
      /\ Is(sharers'[next], u.path, "read", u.name, Size[u.path], next, 0)
      /\ \A key \in Keys : key # next => sharers'[key] = IF key = u.name THEN None ELSE sharers[key]
  BY NumbersAreIds DEF UploadBegins, Commanded, remote, Basic, Numbers, History, Uploading
<1>2. CASE client' = "exited" /\ UNCHANGED <<toServer, asked>>
  <2>1. AnnouncedIsComplete'
    BY <1>1, <1>2 DEF Uploading, AnnouncedIsComplete
  <2>2. ASSUME NEW k \in Ids PROVE Sources(k)' /\ Sinks(k)'
    <3>1. Sinks(k) /\ (Continues(k) => Continues(k)')
      BY <1>1, <1>2 DEF Continues, Uploading
    <3>2. Sinks(k)'
      BY <1>1, <1>2, <3>1, SinksKept
    <3> QED BY <1>2, <3>2 DEF Sources
  <2> QED BY <2>1, <2>2 DEF Uploading
<1>3. CASE /\ asked' = Append(asked, u)
           /\ toServer' = Append(toServer, [kind |-> "RequestFileUpload",
                name |-> u.name, size |-> Size[u.path], id |-> next])
  <2> DEFINE m == [kind |-> "RequestFileUpload", name |-> u.name, size |-> Size[u.path],
                   id |-> next]
  <2>1. u.name \in Names /\ u.path \in Paths /\ Size[u.path] \in Nat
    BY TransferAssumption
  <2>2. /\ m \in ClientMessages /\ m.kind = "RequestFileUpload" /\ m.id = next
        /\ toServer' = Append(toServer, m)
    BY <1>1, <1>3, <2>1 DEF ClientMessages
  <2> HIDE DEF m
  <2>3. /\ Len(asked') = Len(asked) + 1 /\ asked'[Len(asked) + 1] = u
        /\ \A i \in 1..Len(asked) : asked'[i] = asked[i]
    BY <1>1, <1>3, AppendProperties
  <2>4. AnnouncedIsComplete'
    <3>1. ASSUME NEW name \in announced
          PROVE  \E k \in 1..Len(asked') :
                   asked'[k].name = name /\ store[name] = Original(asked'[k].path)
      <4>1. PICK k \in 1..Len(asked) :
              asked[k].name = name /\ store[name] = Original(asked[k].path)
        BY DEF Uploading, AnnouncedIsComplete
      <4>2. k \in 1..Len(asked') /\ asked'[k] = asked[k]
        BY <1>1, <2>3
      <4> QED BY <4>1, <4>2
    <3> QED BY <1>1, <3>1 DEF AnnouncedIsComplete
  <2>5. ASSUME NEW k \in Ids PROVE Sources(k)' /\ Sinks(k)'
    <3>1. /\ Sources(k) /\ Sinks(k) /\ k \in Nat
          /\ k < Len(asked) => k + 1 \in 1..Len(asked) /\ asked'[k + 1] = asked[k + 1]
      BY <1>1, <2>3 DEF Uploading, Ids
    <3>2. ~Carries(m, k) /\ (Asks(m, k) => k = next)
      BY <2>2 DEF Carries, Asks
    <3>3. Writing(k)' <=> Writing(k)
      BY <1>1 DEF Writing
    <3>4. Writing(k) => asked'[k + 1] = asked[k + 1] /\ (Continues(k) => Continues(k)')
      <4>1. Writing(k) => k < Len(asked)
        BY <1>1, SinkFacts
      <4> QED BY <1>1, <2>2, <3>1, <3>2, <4>1, ContinuesSent
    <3>5. Sinks(k)'
      BY <1>1, <3>1, <3>3, <3>4, SinksKept
    <3>6. CASE k = next
      <4>1. turns(k) = 0
        <5>1. /\ Once(k) /\ asks(k) \in Nat /\ permits(k) \in Nat /\ turns(k) \in Nat
              /\ chunks(k) \in Nat
          BY <1>1, CountsAreNats DEF Protocol
        <5> QED BY <1>1, <3>6, <5>1 DEF Once
      <4>2. \A i \in 1..Len(queue) : queue[i] \notin Turns(k)
        BY <4>1, CountOne DEF turns, Basic, ClientSide
      <4>3. Source(sharers[k], k, 0)'
        BY <1>1, <2>3, <3>6 DEF Source, Is
      <4> QED BY <1>1, <3>5, <4>2, <4>3 DEF Sources
    <3>7. CASE k # next
      <4>1. k < Len(asked') => k < Len(asked) /\ asked'[k + 1] = asked[k + 1]
        BY <1>1, <2>3, <3>1, <3>7
      <4>2. Alive(k)' => Alive(k)
        BY <2>2, <3>2, <3>3, <3>7, AliveSent
      <4>3. pieces(k)' = pieces(k)
        BY <2>2, <3>2, SamePieces
      <4>4. IsRead(sharers'[k]) => sharers'[k] = sharers[k]
        BY <1>1, <3>7 DEF IsRead, Keys
      <4>5. Sources(k)'
        BY <1>1, <3>1, <4>1, <4>2, <4>3, <4>4, SourcesKept
      <4> QED BY <3>5, <4>5
    <3> QED BY <3>6, <3>7
  <2> QED BY <2>4, <2>5 DEF Uploading
<1> QED BY <1>2, <1>3 DEF UploadBegins

LEMMA SentUploading ==
  ASSUME Basic, Basic', Protocol', Uploading, NEW i \in 1..Len(queue), NEW w \in Nat,
         ChunkSent(i, w)
  PROVE  Uploading'
<1> DEFINE s == queue[i]
           data == Portion(Original(s.file), s.written)
           m == Chunk(s.id, data)
<1>1. /\ s \in Sharer /\ s.id \in Ids /\ s.written \in Nat /\ Size[s.file] \in Nat
      /\ data \in Seq(Piece) /\ w = s.written + Len(data)
      /\ Len(data) = (IF s.written < Size[s.file] THEN 1 ELSE 0)
      /\ data # <<>> <=> Len(data) = 1
      /\ m \in ClientMessages /\ toServer' = Append(toServer, m)
  BY SentFacts
<1>2. /\ UNCHANGED <<sharers, asked, offers, store, announced>> /\ Protocol
      /\ client # "exited" /\ s.mode = "read" /\ queue \in Seq(Sharer) /\ queue' \in Seq(Sharer)
  BY DEF ChunkSent, remote, past, Uploading, Basic, ClientSide
<1>3. /\ m.kind = "Chunk" /\ m.id = s.id /\ m.data = data
      /\ m.data = Portion(Original(s.file), s.written)
  BY DEF Chunk
<1> HIDE DEF data, m
<1>4. /\ turns(s.id) > 0 /\ asks(s.id) = 0 /\ s.id < Len(asked)
      /\ \A j \in 1..Len(queue) : queue[j] \in Turns(s.id) => j = i
      /\ s \in Turns(s.id)
  <2>1. turns(s.id) > 0 /\ Once(s.id)
    BY <1>1, <1>2, SentTurns DEF Protocol
  <2>2. asks(s.id) = 0 /\ s.id < Len(asked) /\ turns(s.id) <= 1
    <3>1. /\ asks(s.id) \in Nat /\ permits(s.id) \in Nat /\ turns(s.id) \in Nat
          /\ chunks(s.id) \in Nat
      BY CountsAreNats
    <3>2. Len(asked) \in Nat /\ s.id \in Nat
      BY <1>1 DEF Basic, History, Ids
    <3> HIDE DEF s
    <3> QED BY <2>1, <3>1, <3>2 DEF Once
  <2>3. s \in Turns(s.id)
    BY <1>1, <1>2 DEF Turns
  <2>4. \A j \in 1..Len(queue) : queue[j] \in Turns(s.id) => j = i
    BY <1>2, <2>2, <2>3, CountTwo DEF turns
  <2> QED BY <2>1, <2>2, <2>3, <2>4
<1>5. AnnouncedIsComplete'
  BY <1>2 DEF Uploading, AnnouncedIsComplete
<1>6. ASSUME NEW k \in Ids PROVE Sources(k)' /\ Sinks(k)'
  <2>1. /\ Sources(k) /\ Sinks(k) /\ (\A j \in Ids : Writing(j)' <=> Writing(j))
        /\ ~Asks(m, k) /\ (Carries(m, k) <=> k = s.id)
    BY <1>2, <1>3 DEF Uploading, Writing, Asks, Carries
  <2>2. Alive(k)' => Alive(k)
    BY <1>1, <2>1, AliveSent
  <2>3. /\ pieces(k)' = pieces(k) + (IF k = s.id THEN Len(data) ELSE 0)
        /\ pieces(k) \in Nat
    <3>1. /\ pieces(k)' = pieces(k) + (IF Carries(m, k) /\ m.data # <<>> THEN 1 ELSE 0)
          /\ pieces(k) \in Nat
      BY <1>1, ToServerSent, CountsAreNats
    <3> QED BY <1>1, <1>3, <2>1, <3>1
  <2>4. Alive(k) /\ k = s.id => Source(s, k, offers[k].written + pieces(k)) /\ Writing(k)
    BY <1>2, <1>4, <2>1 DEF Sources, Alive
  <2>5. Sinks(k)'
    <3>1. ASSUME Writing(k), k = s.id, \A j \in 1..Len(toServer) : ~Agrees(toServer[j], k)
          PROVE  m.data = Portion(Original(asked[k + 1].path), offers[k].written + pieces(k))
      <4>1. Alive(k)
        BY <3>1 DEF Alive, Dying
      <4> QED BY <1>3, <2>4, <3>1, <4>1 DEF Source
    <3>2. Writing(k) /\ Continues(k) => Continues(k)'
      BY <1>1, <1>2, <2>1, <3>1, ContinuesSent
    <3> QED BY <1>2, <2>1, <3>2, SinksKept
  <2>6. Sources(k)'
    <3> SUFFICES ASSUME client' # "exited", Alive(k)' PROVE Sources(k)'
      BY DEF Sources
    <3>1. CASE k # s.id
      <4>1. ASSUME NEW j \in 1..Len(queue'), queue'[j] \in Turns(k)
            PROVE  \E n \in 1..Len(queue) : queue'[j] = queue[n]
        <5>1. Len(queue) \in Nat
          BY <1>2
        <5>2. CASE /\ Len(queue') = Len(queue) - 1
                   /\ \A n \in 1..(Len(queue) - 1) :
                        queue'[n] = IF n < i THEN queue[n] ELSE queue[n + 1]
          <6>1. j \in 1..Len(queue) /\ j + 1 \in 1..Len(queue)
            BY <5>1, <5>2
          <6>2. queue'[j] = queue[j] \/ queue'[j] = queue[j + 1]
            BY <5>2
          <6> QED BY <6>1, <6>2
        <5>3. CASE /\ Len(queue') = Len(queue)
                   /\ Is(queue'[i], s.file, "read", s.name, s.size, s.id, w)
                   /\ \A n \in 1..Len(queue) : n # i => queue'[n] = queue[n]
          BY <3>1, <4>1, <5>3 DEF Turns, Is
        <5>4. CASE queue' = queue
          BY <4>1, <5>4
        <5> QED BY <5>2, <5>3, <5>4 DEF ChunkSent
      <4>2. /\ IsRead(sharers'[k]) => sharers'[k] = sharers[k]
            /\ offers'[k].written + pieces(k)' = offers[k].written + pieces(k)
            /\ asked' = asked
        BY <1>2, <2>3, <3>1
      <4> QED BY <1>2, <2>1, <2>2, <4>1, <4>2, SourcesKept
    <3>2. CASE k = s.id
      <4>1. /\ Source(s, k, offers[k].written + pieces(k)) /\ Writing(k) /\ Alive(k)
            /\ s.written < s.size \/ s.size = 0
        BY <1>2, <1>4, <2>1, <2>2, <2>4, <3>2 DEF Sources
      <4>2. offers[k].written \in Nat /\ s.size \in Nat
        BY <1>1, <1>2, <4>1, SinkFacts, SharerFields
      <4>3. s.file = asked[k + 1].path /\ s.size = Size[s.file]
            /\ s.written = offers[k].written + pieces(k)
        BY <4>1 DEF Source
      <4>4. w = offers'[k].written + pieces(k)'
        <5>1. offers'[k] = offers[k] /\ Len(data) \in Nat
          BY <1>1, <1>2
        <5>2. pieces(k)' = pieces(k) + Len(data)
          BY <2>3, <3>2
        <5> HIDE DEF s
        <5> QED BY <1>1, <2>3, <4>2, <4>3, <5>1, <5>2
      <4>5. IsRead(sharers'[k]) => Source(sharers[k], k, 0)'
        BY <1>2, <1>4, <2>1, <3>2, <4>1 DEF Sources, Source
      <4>6. ASSUME NEW j \in 1..Len(queue'), queue'[j] \in Turns(k)
            PROVE  /\ Source(queue[j], k, offers[k].written + pieces(k))'
                   /\ queue'[j].written < queue'[j].size \/ queue'[j].size = 0
        <5>1. Len(queue) \in Nat
          BY <1>2
        <5>2. CASE /\ Len(queue') = Len(queue) - 1
                   /\ \A n \in 1..(Len(queue) - 1) :
                        queue'[n] = IF n < i THEN queue[n] ELSE queue[n + 1]
          <6>1. j \in 1..Len(queue) /\ j + 1 \in 1..Len(queue) /\ j \in 1..(Len(queue) - 1)
            BY <5>1, <5>2
          <6>2. CASE j < i
            <7>1. queue'[j] = queue[j]
              BY <5>2, <6>1, <6>2
            <7> QED BY <1>4, <3>2, <4>6, <6>1, <6>2, <7>1
          <6>3. CASE ~(j < i)
            <7>1. queue'[j] = queue[j + 1] /\ j + 1 # i
              BY <5>1, <5>2, <6>1, <6>3
            <7> QED BY <1>4, <3>2, <4>6, <6>1, <7>1
          <6> QED BY <6>2, <6>3
        <5>3. CASE /\ s.size # w
                   /\ Len(queue') = Len(queue)
                   /\ Is(queue'[i], s.file, "read", s.name, s.size, s.id, w)
                   /\ \A n \in 1..Len(queue) : n # i => queue'[n] = queue[n]
          <6>1. j = i
            BY <1>4, <3>2, <4>6, <5>3
          <6>2. /\ queue'[j].file = s.file /\ queue'[j].size = s.size /\ queue'[j].written = w
            BY <5>3, <6>1 DEF Is
          <6>3. w < s.size \/ s.size = 0
            <7> HIDE DEF s
            <7> QED BY <1>1, <4>1, <4>2, <4>3, <5>3
          <6>4. asked' = asked
            BY <1>2
          <6> QED BY <4>3, <4>4, <6>2, <6>3, <6>4 DEF Source
        <5> QED BY <5>2, <5>3 DEF ChunkSent
      <4> QED BY <4>5, <4>6 DEF Sources
    <3> QED BY <3>1, <3>2
  <2> QED BY <2>5, <2>6
<1> QED BY <1>5, <1>6 DEF Uploading

\* The server takes a message that brings nothing for an upload.
LEMMA TakenUploading ==
  ASSUME Basic, Basic', Protocol', Uploading, NEW m \in ClientMessages, Served(m),
         UNCHANGED <<store, announced>>,
         \A k \in Ids : Writing(k)' => offers'[k] = offers[k] /\ ~Agrees(m, k) /\ ~Carries(m, k)
  PROVE  Uploading'
<1>1. /\ toServer # <<>> /\ m = Head(toServer) /\ toServer' = Tail(toServer) /\ Protocol
      /\ UNCHANGED <<client, sharers, queue, asked>> /\ AnnouncedIsComplete'
  BY DEF Served, local, Uploading, AnnouncedIsComplete
<1>2. ASSUME NEW k \in Ids PROVE Sources(k)' /\ Sinks(k)'
  <2>1. /\ Sources(k) /\ Sinks(k)
        /\ Writing(k)' => Writing(k) /\ ~Agrees(m, k) /\ ~Carries(m, k)
    BY DEF Uploading, Writing
  <2>2. Alive(k)' => Alive(k)
    BY <1>1, <2>1, AliveTaken
  <2>3. ASSUME NEW i \in 1..Len(queue'), queue'[i] \in Turns(k), Alive(k)'
        PROVE  offers'[k].written + pieces(k)' = offers[k].written + pieces(k)
    <3>1. turns(k) > 0
      BY <1>1, <2>3, CountOne DEF turns, Basic, ClientSide
    <3>2. asks(k) = 0
      <4>1. Once(k) /\ asks(k) \in Nat /\ turns(k) \in Nat /\ permits(k) \in Nat
        BY <1>1, CountsAreNats DEF Protocol
      <4> QED BY <3>1, <4>1 DEF Once
    <3>3. asks(k)' = 0
      <4>1. asks(k) = asks(k)' + (IF Asks(m, k) THEN 1 ELSE 0) /\ asks(k)' \in Nat
        BY <1>1, ToServerTaken
      <4> QED BY <3>2, <4>1
    <3>4. Writing(k)'
      BY <2>3, <3>3 DEF Alive
    <3>5. pieces(k)' = pieces(k)
      BY <1>1, <2>1, <3>4, SamePieces
    <3> QED BY <3>4, <3>5
  <2>4. Sources(k)'
    BY <1>1, <2>1, <2>2, <2>3, SourcesKept
  <2>5. ASSUME Writing(k)', Continues(k) PROVE Continues(k)'
    <3>1. offers[k].written \in Nat
      BY <1>1, <2>1, <2>5, SinkFacts
    <3>2. offers'[k].written =
            offers[k].written + (IF Carries(m, k) /\ m.data # <<>> THEN 1 ELSE 0)
      BY <2>1, <2>5, <3>1
    <3> QED BY <1>1, <2>1, <2>5, <3>2, ContinuesTaken
  <2>6. Sinks(k)'
    BY <1>1, <2>1, <2>5, SinksKept
  <2> QED BY <2>4, <2>6
<1> QED BY <1>1, <1>2 DEF Uploading

LEMMA GrantedUploading ==
  ASSUME Basic, Basic', Protocol', Uploading, NEW m \in ClientMessages, UploadGranted(m)
  PROVE  Uploading'
<1>1. /\ toServer # <<>> /\ m = Head(toServer) /\ toServer' = Tail(toServer) /\ Protocol
      /\ UNCHANGED <<client, sharers, queue, asked, announced>>
      /\ m.kind = "RequestFileUpload" /\ m.name \in Names /\ m.id \in Ids
      /\ store[m.name] = None /\ store' = [store EXCEPT ![m.name] = <<>>]
      /\ Is(offers'[m.id], m.name, "write", m.name, m.size, m.id, 0)
      /\ \A key \in Keys : key # m.id => offers'[key] = IF key = m.name THEN None ELSE offers[key]
      /\ store \in [Names -> Seq(Piece) \union {None}]
  BY ToServer DEF UploadGranted, Served, local, Uploading, Basic, ServerSide
<1>2. /\ Len(toServer) \in Nat \ {0} /\ Len(toServer') = Len(toServer) - 1 /\ toServer[1] = m
      /\ \A i \in 1..Len(toServer') : toServer'[i] = toServer[i + 1]
  BY <1>1, ToServerTaken
<1>3. /\ m.id < Len(asked) /\ m.name = asked[m.id + 1].name
      /\ m.size = Size[asked[m.id + 1].path]
      /\ m.id \in Nat /\ Len(asked) \in Nat /\ asked[m.id + 1] \in Uploads
  <2>1. Request(1) /\ asked \in Seq(Uploads)
    BY <1>2 DEF Uploading, Protocol, Basic, History
  <2>2. m.id < Len(asked) /\ m.id \in Nat
    BY <1>1, <1>2, <2>1 DEF Request, Ids
  <2> QED BY <1>1, <1>2, <2>1, <2>2 DEF Request
<1>4. /\ store'[m.name] = <<>>
      /\ \A name \in Names : name # m.name => store'[name] = store[name]
  BY <1>1
<1>5. /\ asks(m.id) > 0 /\ asks(m.id)' = 0 /\ turns(m.id) = 0 /\ chunks(m.id)' = 0
  <2>1. /\ asks(m.id) = asks(m.id)' + (IF Asks(m, m.id) THEN 1 ELSE 0)
        /\ chunks(m.id) = chunks(m.id)' + (IF Carries(m, m.id) THEN 1 ELSE 0)
        /\ asks(m.id)' \in Nat /\ chunks(m.id)' \in Nat
    BY <1>1, ToServerTaken
  <2>2. Asks(m, m.id) /\ ~Carries(m, m.id)
    BY <1>1 DEF Asks, Carries
  <2>3. Once(m.id) /\ asks(m.id) \in Nat /\ turns(m.id) \in Nat /\ permits(m.id) \in Nat
    BY <1>1, CountsAreNats DEF Protocol
  <2> QED BY <2>1, <2>2, <2>3 DEF Once
<1>6. \A name \in announced : name \in Names /\ store[name] # None
  <2>1. ASSUME NEW name \in announced PROVE store[name] # None
    <3>1. PICK k \in 1..Len(asked) :
            asked[k].name = name /\ store[name] = Original(asked[k].path)
      BY DEF Uploading, AnnouncedIsComplete
    <3>2. asked[k].path \in Paths
      BY <3>1, TransferAssumption DEF Basic, History
    <3> QED BY <3>1, <3>2, OriginalFacts, TransferAssumption
  <2> QED BY <2>1 DEF Basic, History
<1>7. AnnouncedIsComplete'
  <2>1. \A name \in announced : store'[name] = store[name]
    BY <1>1, <1>4, <1>6
  <2> QED BY <1>1, <2>1 DEF Uploading, AnnouncedIsComplete
<1>8. ASSUME NEW j \in Ids, Writing(j), j # m.id
      PROVE  /\ offers[j].file \in Names /\ offers[j].file # m.name
             /\ store'[offers[j].file] = store[offers[j].file]
  <2>1. /\ offers[j].file \in Names /\ offers[j].written \in 0..Size[asked[j + 1].path]
        /\ store[offers[j].file] = Begun(Original(asked[j + 1].path), offers[j].written)
        /\ Original(asked[j + 1].path) \in Seq(Piece)
        /\ Len(Original(asked[j + 1].path)) = Size[asked[j + 1].path]
    <3>1. Sinks(j)
      BY DEF Uploading
    <3> QED BY <1>1, <1>8, <3>1, SinkFacts DEF Sinks
  <2>2. store[offers[j].file] \in Seq(Piece)
    BY <2>1, BegunFacts
  <2>3. store[offers[j].file] # None
    BY <2>2, TransferAssumption
  <2> QED BY <1>1, <1>4, <2>1, <2>3
<1>9. ASSUME NEW k \in Ids PROVE Sources(k)' /\ Sinks(k)'
  <2>1. Sources(k) /\ Sinks(k) /\ ~Agrees(m, k) /\ ~Carries(m, k) /\ (Asks(m, k) <=> k = m.id)
    BY <1>1 DEF Uploading, Agrees, Carries, Asks
  <2>2. Writing(k)' => Writing(k) \/ Asks(m, k)
    BY <1>1, <2>1 DEF Writing, IsWrite, Keys
  <2>3. Alive(k)' => Alive(k)
    BY <1>1, <2>1, <2>2, AliveTaken
  <2>4. CASE k = m.id
    <3>1. \A i \in 1..Len(queue) : queue[i] \notin Turns(k)
      BY <1>5, <2>4, CountOne DEF turns, Basic, ClientSide
    <3>2. Sources(k)'
      BY <1>1, <2>1, <2>3, <3>1, SourcesKept
    <3>3. /\ offers'[k].file = asked[k + 1].name /\ offers'[k].size = Size[asked[k + 1].path]
          /\ offers'[k].written = 0 /\ offers'[k].file = m.name
      BY <1>1, <1>3, <2>4 DEF Is
    <3>4. Continues(k)'
      <4>1. toServer' \in Seq(ClientMessages)
        BY DEF Basic, Between
      <4>2. ASSUME NEW i \in 1..Len(toServer') PROVE ~Carries(toServer'[i], k)
        <5>1. toServer'[i] \notin Chunks(k) /\ toServer'[i] \in ClientMessages
          BY <1>5, <2>4, <4>1, CountOne DEF chunks
        <5> QED BY <5>1 DEF Chunks
      <4> QED BY <4>2 DEF Continues
    <3>5. store'[m.name] = Begun(Original(asked[k + 1].path), 0)
      BY <1>4, BegunNothing
    <3>6. m.name \notin announced
      BY <1>1, <1>6
    <3>7. \A j \in Ids : Writing(j)' /\ offers'[j].file = m.name => j = k
      <4> SUFFICES ASSUME NEW j \in Ids, j # k, Writing(j)', offers'[j].file = m.name PROVE FALSE
        OBVIOUS
      <4>1. Writing(j) /\ offers'[j] = offers[j]
        BY <1>1, <2>4 DEF Writing, IsWrite, Keys
      <4> QED BY <1>8, <2>4, <4>1
    <3>8. offers'[k].size \in Nat /\ (0 < offers'[k].size \/ offers'[k].size = 0)
      <4>1. Size[asked[k + 1].path] \in Nat
        BY <1>3, <2>4, TransferAssumption
      <4> QED BY <3>3, <4>1
    <3>9. Sinks(k)'
      BY <1>1, <3>3, <3>4, <3>5, <3>6, <3>7, <3>8 DEF Sinks
    <3> QED BY <3>2, <3>9
  <2>5. CASE k # m.id
    <3>1. Writing(k)' => Writing(k) /\ offers'[k] = offers[k]
      BY <1>1, <2>5 DEF Writing, IsWrite, Keys
    <3>2. pieces(k)' = pieces(k)
      BY <1>1, <2>1, SamePieces
    <3>3. Sources(k)'
      <4>1. ASSUME NEW i \in 1..Len(queue), queue[i] \in Turns(k), Alive(k)'
            PROVE  offers'[k].written + pieces(k)' = offers[k].written + pieces(k)
        <5>1. turns(k) > 0
          BY <4>1, CountOne DEF turns, Basic, ClientSide
        <5>2. asks(k) = 0
          <6>1. Once(k) /\ asks(k) \in Nat /\ turns(k) \in Nat /\ permits(k) \in Nat
            BY <1>1, CountsAreNats DEF Protocol
          <6> QED BY <5>1, <6>1 DEF Once
        <5>3. asks(k)' = 0
          <6>1. asks(k) = asks(k)' + (IF Asks(m, k) THEN 1 ELSE 0) /\ asks(k)' \in Nat
            BY <1>1, ToServerTaken
          <6> QED BY <5>2, <6>1
        <5>4. Writing(k)'
          BY <4>1, <5>3 DEF Alive
        <5> QED BY <3>1, <3>2, <5>4
      <4> QED BY <1>1, <2>1, <2>3, <4>1, SourcesKept
    <3>4. Sinks(k)'
      <4> SUFFICES ASSUME Writing(k)' PROVE Sinks(k)'
        BY DEF Sinks
      <4>1. Writing(k) /\ offers'[k] = offers[k]
        BY <3>1
      <4>2. /\ offers[k].file # m.name
            /\ store'[offers[k].file] = store[offers[k].file]
        BY <1>8, <2>5, <4>1
      <4>3. Continues(k)'
        <5>1. Continues(k) /\ offers[k].written \in Nat
          BY <1>1, <2>1, <4>1, SinkFacts DEF Sinks
        <5>2. offers'[k].written =
                offers[k].written + (IF Carries(m, k) /\ m.data # <<>> THEN 1 ELSE 0)
          BY <2>1, <4>1, <5>1
        <5> QED BY <1>1, <2>1, <4>1, <5>1, <5>2, ContinuesTaken
      <4>4. ASSUME NEW j \in Ids, Writing(j)', offers'[j].file = offers'[k].file PROVE j = k
        <5>1. j # m.id
          BY <1>1, <4>1, <4>2, <4>4 DEF Is
        <5>2. Writing(j) /\ offers'[j] = offers[j]
          BY <1>1, <4>4, <5>1 DEF Writing, IsWrite, Keys
        <5> QED BY <2>1, <4>1, <4>4, <5>2 DEF Sinks
      <4>5. /\ offers[k].file = asked[k + 1].name /\ offers[k].size = Size[asked[k + 1].path]
            /\ offers[k].written < offers[k].size \/ offers[k].size = 0
            /\ store[offers[k].file] = Begun(Original(asked[k + 1].path), offers[k].written)
            /\ offers[k].file \notin announced
        BY <2>1, <4>1 DEF Sinks
      <4> QED BY <1>1, <4>1, <4>2, <4>3, <4>4, <4>5 DEF Sinks
    <3> QED BY <3>3, <3>4
  <2> QED BY <2>4, <2>5
<1> QED BY <1>7, <1>9 DEF Uploading

\* All of what was read is accepted.
LEMMA PortionAccepted ==
  ASSUME NEW s \in Sharer, NEW c \in Seq(Piece), s.size = Len(c), s.written <= s.size,
         NEW data, data = Portion(c, s.written)
  PROVE  /\ Accepted(s, data) = data /\ Len(data) \in Nat /\ s.written + Len(data) <= s.size
         /\ Len(data) = (IF data # <<>> THEN 1 ELSE 0)
<1>1. s.written \in Nat /\ s.size \in Nat
  BY SharerFields
<1>2. data \in Seq(Piece) /\ Len(data) \in Nat
  BY <1>1, PortionFacts, LenProperties
<1>3. CASE s.written < Len(c)
  <2>1. Len(data) = 1
    BY <1>1, <1>3, PortionFacts
  <2>2. data # <<>>
    <3>1. Len(<<>>) # 1
      OBVIOUS
    <3> QED BY <2>1, <3>1, Zenon
  <2>3. s.written + Len(data) <= s.size
    BY <1>1, <1>3, <2>1
  <2>4. Accepted(s, data) = data
    BY <1>2, <2>3, AcceptedFacts
  <2> QED BY <2>1, <2>2, <2>3, <2>4
<1>4. CASE s.written >= Len(c)
  <2>1. data = <<>> /\ Len(data) = 0
    BY <1>1, <1>4, PortionFacts
  <2>2. s.written + Len(data) <= s.size
    BY <1>1, <2>1
  <2>3. Accepted(s, data) = data
    BY <1>2, <2>2, AcceptedFacts
  <2> QED BY <2>1, <2>2, <2>3
<1> QED BY <1>1, <1>3, <1>4

\* What a chunk does to the files of the server: it adds the next piece of the
\* original, if there is one, and announces what is then complete.
Filling(name, c, w) ==
  LET n == w + Len(Portion(c, w))
  IN  /\ w <= Len(c) /\ (w < Len(c) \/ Len(c) = 0)
      /\ name \notin Stored \union announced
      /\ store[name] = Begun(c, w)
      /\ store' = [store EXCEPT ![name] = Begun(c, n)]
      /\ announced' = IF n = Len(c) THEN announced \union {name} ELSE announced

LEMMA StoredContent ==
  ASSUME Basic, Uploading, NEW m \in ClientMessages, ChunkStored(m)
  PROVE  \E name \in Names, path \in Paths, w \in Nat : Filling(name, Original(path), w)
<1> DEFINE s == offers[m.id]
           x == Accepted(s, m.data)
           path == asked[m.id + 1].path
           c == Original(path)
           w == s.written
           file == s.file
<1>1. /\ toServer # <<>> /\ m = Head(toServer) /\ toServer' = Tail(toServer) /\ Protocol
      /\ m.kind = "Chunk" /\ m.id \in Ids /\ Writing(m.id)
  BY ToServer DEF ChunkStored, Served, Uploading, Writing
<1>2. /\ s \in Sharer /\ w \in Nat /\ s.size \in Nat /\ w <= s.size /\ file \in Names
      /\ s.name = file /\ file \notin Stored /\ path \in Paths
      /\ c \in Seq(Piece) /\ Len(c) = Size[path]
  BY <1>1, SinkFacts
<1>3. /\ s.size = Len(c) /\ store[file] = Begun(c, w) /\ (w < s.size \/ s.size = 0)
      /\ file \notin announced /\ Continues(m.id)
  BY <1>1, <1>2 DEF Uploading, Sinks
<1>4. m.data = Portion(c, w)
  <2>1. Before(toServer, Pieces(m.id), 1) = 0
    BY NoneBefore
  <2>2. toServer[1] = m /\ 1 \in 1..Len(toServer)
    BY <1>1, ToServerTaken
  <2>3. Carries(toServer[1], m.id) /\ \A j \in 1..(1 - 1) : ~Agrees(toServer[j], m.id)
    BY <1>1, <2>2 DEF Carries
  <2>4. m.data = Portion(c, w + Before(toServer, Pieces(m.id), 1))
    BY <1>3, <2>2, <2>3 DEF Continues
  <2> HIDE DEF c, w
  <2> QED BY <1>2, <2>1, <2>4
<1>5. x = Portion(c, w) /\ Len(x) \in Nat /\ w + Len(x) <= s.size
  <2>1. m.data = Portion(c, s.written) /\ s.size = Len(c) /\ s.written <= s.size
    BY <1>2, <1>3, <1>4
  <2>2. /\ Accepted(s, m.data) = m.data /\ Len(m.data) \in Nat
        /\ s.written + Len(m.data) <= s.size
    <3> HIDE DEF s, c
    <3> QED BY <1>2, <2>1, PortionAccepted
  <2> QED BY <1>4, <2>2
<1>6. /\ store' = [store EXCEPT ![file] = Overwritten(store[file], w, x)]
      /\ \/ w + Len(x) >= s.size /\ announced' = announced \union {file}
         \/ w + Len(x) < s.size /\ announced' = announced
  BY <1>2 DEF ChunkStored
<1> HIDE DEF s, x, c, w, file, path
<1>7. w \in 0..Len(c)
  BY <1>2, <1>3
<1>8. Overwritten(Begun(c, w), w, Portion(c, w)) = Begun(c, w + Len(Portion(c, w)))
  BY <1>2, <1>7, WriteOf
<1>9. store' = [store EXCEPT ![file] = Begun(c, w + Len(Portion(c, w)))]
  BY <1>3, <1>5, <1>6, <1>8
<1>10. announced' = IF w + Len(Portion(c, w)) = Len(c) THEN announced \union {file} ELSE announced
  BY <1>2, <1>3, <1>5, <1>6
<1>11. Filling(file, c, w)
  BY <1>2, <1>3, <1>9, <1>10 DEF Filling
<1> QED BY <1>2, <1>11 DEF c

\* What filling means piece by piece.
LEMMA FillingFacts ==
  ASSUME Basic, NEW name \in Names, NEW path \in Paths, NEW w \in Nat,
         Filling(name, Original(path), w)
  PROVE  LET c == Original(path)
             n == w + Len(Portion(c, w))
         IN  /\ c \in Seq(Piece) /\ Len(c) \in Nat /\ w \in 0..Len(c) /\ n \in 0..Len(c)
             /\ n = (IF w < Len(c) THEN w + 1 ELSE w)
             /\ store'[name] = Begun(c, n)
             /\ \A other \in Names \ {name} : store'[other] = store[other]
<1> DEFINE c == Original(path)
           n == w + Len(Portion(c, w))
<1>1. c \in Seq(Piece) /\ Len(c) \in Nat
  BY OriginalFacts
<1>2. w <= Len(c) /\ store' = [store EXCEPT ![name] = Begun(c, n)]
  BY DEF Filling
<1>3. n = (IF w < Len(c) THEN w + 1 ELSE w)
  <2> HIDE DEF c
  <2>1. /\ w < Len(c) => Len(Portion(c, w)) = 1
        /\ w >= Len(c) => Len(Portion(c, w)) = 0
    BY <1>1, PortionFacts
  <2>2. CASE w < Len(c)
    BY <2>1, <2>2
  <2>3. CASE ~(w < Len(c))
    <3>1. w >= Len(c)
      BY <1>1, <2>3
    <3>2. w + Len(Portion(c, w)) = w
      BY <2>1, <3>1
    <3> QED BY <2>3, <3>2
  <2> QED BY <2>2, <2>3
<1>4. /\ store'[name] = Begun(c, n)
      /\ \A other \in Names \ {name} : store'[other] = store[other]
  <2>1. store \in [Names -> Seq(Piece) \union {None}]
    BY DEF Basic, ServerSide
  <2> HIDE DEF c, n
  <2> QED BY <1>2, <2>1
<1> HIDE DEF c
<1>5. w \in 0..Len(c) /\ n \in 0..Len(c)
  BY <1>1, <1>2, <1>3
<1> QED BY <1>1, <1>3, <1>4, <1>5 DEF c

LEMMA StoredUploading ==
  ASSUME Basic, Basic', Protocol', Uploading, NEW m \in ClientMessages, ChunkStored(m)
  PROVE  Uploading'
<1> DEFINE s == offers[m.id]
           x == Accepted(s, m.data)
           c == Original(asked[m.id + 1].path)
           w == s.written
           file == s.file
<1>1. /\ toServer # <<>> /\ m = Head(toServer) /\ toServer' = Tail(toServer) /\ Protocol
      /\ UNCHANGED <<client, sharers, queue, asked>> /\ m.kind = "Chunk"
      /\ m.id \in Ids /\ m.id \in Keys /\ m.data \in Seq(Piece) /\ Writing(m.id)
  BY ToServer DEF ChunkStored, Served, local, Uploading, Keys, Writing
<1>2. /\ Len(toServer) \in Nat \ {0} /\ Len(toServer') = Len(toServer) - 1 /\ toServer[1] = m
      /\ \A i \in 1..Len(toServer') : toServer'[i] = toServer[i + 1]
  BY <1>1, ToServerTaken
<1>3. /\ s \in Sharer /\ w \in Nat /\ s.size \in Nat /\ w <= s.size /\ file \in Names
      /\ s.name = file /\ m.id \in Nat /\ m.id < Len(asked) /\ Len(asked) \in Nat
      /\ c \in Seq(Piece) /\ Len(c) = Size[asked[m.id + 1].path]
      /\ asks(m.id) = 0
  BY <1>1, SinkFacts
<1>4. /\ file = asked[m.id + 1].name /\ s.size = Len(c) /\ store[file] = Begun(c, w)
      /\ file \notin announced /\ Continues(m.id)
      /\ \A j \in Ids : Writing(j) /\ offers[j].file = file => j = m.id
  BY <1>1, <1>3 DEF Uploading, Sinks
<1>5. m.data = Portion(c, w)
  <2>1. Before(toServer, Pieces(m.id), 1) = 0
    BY NoneBefore
  <2>2. Carries(toServer[1], m.id) /\ \A j \in 1..(1 - 1) : ~Agrees(toServer[j], m.id)
    BY <1>1, <1>2 DEF Carries
  <2>3. m.data = Portion(c, w + Before(toServer, Pieces(m.id), 1))
    BY <1>2, <1>4, <2>2 DEF Continues
  <2> HIDE DEF c, w
  <2> QED BY <1>3, <2>1, <2>3
<1>6. /\ x = m.data /\ Len(x) \in Nat /\ w + Len(x) <= s.size
      /\ Len(x) = (IF m.data # <<>> THEN 1 ELSE 0)
  <2>1. m.data = Portion(c, s.written) /\ s.size = Len(c) /\ s.written <= s.size
    BY <1>3, <1>4, <1>5
  <2>2. /\ Accepted(s, m.data) = m.data /\ Len(m.data) \in Nat
        /\ s.written + Len(m.data) <= s.size
        /\ Len(m.data) = (IF m.data # <<>> THEN 1 ELSE 0)
    <3> HIDE DEF s, c
    <3> QED BY <1>3, <2>1, PortionAccepted
  <2> QED BY <2>2
<1>7. /\ store' = [store EXCEPT ![file] = Overwritten(store[file], w, x)]
      /\ offers' \in Map
      /\ \A key \in Keys : key # m.id => offers'[key] = offers[key]
      /\ \/ /\ w + Len(x) >= s.size
            /\ offers'[m.id] = None /\ announced' = announced \union {file}
         \/ /\ w + Len(x) < s.size
            /\ Is(offers'[m.id], file, "write", file, s.size, s.id, w + Len(x))
            /\ announced' = announced
      /\ store \in [Names -> Seq(Piece) \union {None}]
  BY <1>3 DEF ChunkStored, Basic, ServerSide
<1> HIDE DEF s, x, c, w, file
<1>8. w \in 0..Len(c)
  BY <1>3, <1>4
<1>9. Overwritten(Begun(c, w), w, Portion(c, w)) = Begun(c, w + Len(Portion(c, w)))
  BY <1>3, <1>8, WriteOf
<1>10. /\ store'[file] = Begun(c, w + Len(x))
       /\ \A name \in Names : name # file => store'[name] = store[name]
  BY <1>3, <1>4, <1>5, <1>6, <1>7, <1>9
<1>11. AnnouncedIsComplete'
  <2>1. ASSUME NEW name \in announced
        PROVE  \E k \in 1..Len(asked) :
                 asked[k].name = name /\ store'[name] = Original(asked[k].path)
    <3>1. name # file /\ name \in Names
      BY <1>4 DEF Basic, History
    <3> QED BY <1>10, <3>1 DEF Uploading, AnnouncedIsComplete
  <2>2. ASSUME w + Len(x) >= s.size
        PROVE  \E k \in 1..Len(asked) :
                 asked[k].name = file /\ store'[file] = Original(asked[k].path)
    <3>1. w + Len(x) = Len(c) /\ m.id + 1 \in 1..Len(asked)
      BY <1>3, <1>4, <1>6, <2>2
    <3>2. store'[file] = c
      BY <1>3, <1>10, <3>1, BegunAll
    <3> QED BY <1>4, <3>1, <3>2 DEF c
  <2> QED BY <1>1, <1>7, <2>1, <2>2 DEF AnnouncedIsComplete
<1>12. ASSUME NEW k \in Ids PROVE Sources(k)' /\ Sinks(k)'
  <2>1. /\ Sources(k) /\ Sinks(k) /\ ~Asks(m, k) /\ ~Agrees(m, k) /\ (Carries(m, k) <=> k = m.id)
        /\ k \in Keys
    BY <1>1 DEF Uploading, Agrees, Carries, Asks, Keys
  <2>2. Writing(k)' => Writing(k)
    BY <1>1, <1>7, <2>1 DEF Writing, IsWrite
  <2>3. Alive(k)' => Alive(k)
    BY <1>1, <2>1, <2>2, AliveTaken
  <2>4. CASE k = m.id /\ offers'[m.id] = None
    <3>1. ~Writing(k)'
      BY <2>4 DEF Writing, IsWrite
    <3>2. asks(k)' = 0
      <4>1. asks(k) = asks(k)' + (IF Asks(m, k) THEN 1 ELSE 0) /\ asks(k)' \in Nat
        BY <1>1, ToServerTaken
      <4> QED BY <1>3, <2>4, <4>1
    <3>3. ~Alive(k)'
      BY <3>1, <3>2 DEF Alive
    <3> QED BY <3>1, <3>3 DEF Sources, Sinks
  <2>5. CASE /\ k = m.id /\ w + Len(x) < s.size /\ announced' = announced
             /\ Is(offers'[m.id], file, "write", file, s.size, s.id, w + Len(x))
    <3>1. /\ offers'[k].file = file /\ offers'[k].size = s.size
          /\ offers'[k].written = offers[k].written + (IF m.data # <<>> THEN 1 ELSE 0)
          /\ offers'[k].written = w + Len(x)
      BY <1>6, <2>5 DEF Is, s, w
    <3>2. /\ pieces(k) = pieces(k)' + (IF m.data # <<>> THEN 1 ELSE 0)
          /\ pieces(k)' \in Nat
      BY <1>1, <2>1, <2>5, ToServerTaken
    <3>3. offers'[k].written + pieces(k)' = offers[k].written + pieces(k)
      <4>1. offers[k].written \in Nat
        BY <1>3, <2>5 DEF s, w
      <4> QED BY <3>1, <3>2, <4>1
    <3>4. Sources(k)'
      BY <1>1, <2>1, <2>3, <3>3, SourcesKept
    <3>5. Continues(k)'
      BY <1>1, <1>4, <2>1, <2>5, <3>1, ContinuesTaken
    <3>6. ASSUME NEW j \in Ids, Writing(j)', offers'[j].file = file PROVE j = k
      <4>1. CASE j # k
        <5>1. Writing(j) /\ offers'[j] = offers[j]
          BY <1>7, <2>5, <3>6, <4>1 DEF Writing, Keys
        <5> QED BY <1>4, <2>5, <3>6, <5>1
      <4> QED BY <4>1
    <3>7. /\ file = asked[k + 1].name /\ s.size = Size[asked[k + 1].path]
          /\ store'[file] = Begun(Original(asked[k + 1].path), w + Len(x))
      BY <1>3, <1>4, <1>10, <2>5 DEF c
    <3>8. Sinks(k)'
      BY <1>1, <1>4, <2>5, <3>1, <3>5, <3>6, <3>7 DEF Sinks
    <3> QED BY <3>4, <3>8
  <2>6. CASE k # m.id
    <3>1. offers'[k] = offers[k] /\ pieces(k)' = pieces(k)
      BY <1>1, <1>7, <2>1, <2>6, SamePieces
    <3>2. Sources(k)'
      BY <1>1, <2>1, <2>3, <3>1, SourcesKept
    <3>3. ASSUME Writing(k)' PROVE Sinks(k)'
      <4>1. Writing(k) /\ offers[k].file \in Names /\ offers[k].written \in Nat
        BY <1>1, <2>2, <3>3, SinkFacts
      <4>2. offers[k].file # file
        BY <1>4, <2>6, <4>1
      <4>3. store'[offers[k].file] = store[offers[k].file]
        BY <1>10, <4>1, <4>2
      <4>4. offers[k].file \notin announced'
        BY <1>7, <2>1, <4>1, <4>2 DEF Sinks
      <4>5. Continues(k)'
        <5>1. offers'[k].written =
                offers[k].written + (IF Carries(m, k) /\ m.data # <<>> THEN 1 ELSE 0)
          BY <2>1, <2>6, <3>1, <4>1
        <5> QED BY <1>1, <2>1, <4>1, <5>1, ContinuesTaken DEF Sinks
      <4>6. ASSUME NEW j \in Ids, Writing(j)', offers'[j].file = offers[k].file PROVE j = k
        <5>1. j # m.id
          BY <1>7, <4>2, <4>6 DEF Writing, IsWrite, Is
        <5>2. Writing(j) /\ offers'[j] = offers[j]
          BY <1>7, <4>6, <5>1 DEF Writing, Keys
        <5> QED BY <2>1, <4>1, <4>6, <5>2 DEF Sinks
      <4>7. /\ offers[k].file = asked[k + 1].name /\ offers[k].size = Size[asked[k + 1].path]
            /\ offers[k].written < offers[k].size \/ offers[k].size = 0
            /\ store[offers[k].file] = Begun(Original(asked[k + 1].path), offers[k].written)
        BY <2>1, <4>1 DEF Sinks
      <4> QED BY <1>1, <3>1, <4>3, <4>4, <4>5, <4>6, <4>7 DEF Sinks
    <3>4. Sinks(k)'
      BY <3>3 DEF Sinks
    <3> QED BY <3>2, <3>4
  <2> QED BY <1>7, <2>4, <2>5, <2>6
<1> QED BY <1>11, <1>12 DEF Uploading

\* A step that does nothing for an upload, on the side of the server or between.
LEMMA PassedUploading ==
  ASSUME Basic, Basic', Uploading,
         client' # "exited" => client # "exited",
         UNCHANGED <<asked, queue, offers, store, announced>>,
         \/ UNCHANGED toServer /\ \A k \in Ids : IsRead(sharers'[k]) => sharers'[k] = sharers[k]
         \/ \E m \in ClientMessages :
              /\ m.kind \in {"RequestFileDownload", "AgreeFileDownload", "Part"}
              /\ toServer' = Append(toServer, m)
              /\ \A k \in Ids :
                   IsRead(sharers'[k]) => sharers'[k] = sharers[k] \/ Agrees(m, k),
         \/ UNCHANGED toClient
         \/ \E m \in ServerMessages :
              m.kind # "AgreeFileUpload" /\ toClient' = Append(toClient, m)
         \/ \E m \in ServerMessages :
              toClient # <<>> /\ m = Head(toClient) /\ toClient' = Tail(toClient)
  PROVE  Uploading'
<1>1. \A k \in Ids : Writing(k)' => Writing(k) /\ offers'[k] = offers[k]
  BY DEF Writing
<1>2. Protocol'
  <2>1. \/ UNCHANGED toServer
        \/ \E m \in ClientMessages :
             m.kind \notin {"RequestFileUpload", "Chunk"} /\ toServer' = Append(toServer, m)
    OBVIOUS
  <2>2. Protocol /\ UNCHANGED <<asked, queue>>
    BY DEF Uploading
  <2> QED BY <1>1, <2>1, <2>2, ProtocolPassed
<1> QED BY <1>2, ClientUploading

LEMMA QuietUploading ==
  ASSUME Basic, Basic', Uploading,
         \/ Quiet \/ \E c \in Commands : CommandTyped(c)
         \/ \E s \in Sharer : SenderStops(s)
         \/ \E s, t \in Sharer : ChunkForwarded(s, t)
  PROVE  Uploading'
<1>1. /\ client' # "exited" => client # "exited"
      /\ UNCHANGED <<asked, queue, offers, store, announced, toServer, sharers>>
  BY DEF Quiet, CommandTyped, SenderStops, ChunkForwarded, local, remote, past
<1>2. \/ UNCHANGED toClient
      \/ \E m \in ServerMessages :
           m.kind # "AgreeFileUpload" /\ toClient' = Append(toClient, m)
  <2>1. ASSUME NEW s \in Sharer, NEW t \in Sharer, ChunkForwarded(s, t)
        PROVE  \E m \in ServerMessages :
                 m.kind # "AgreeFileUpload" /\ toClient' = Append(toClient, m)
    <3> DEFINE data == Portion(store[s.file], s.written)
    <3>1. toClient' = Append(toClient, Chunk(s.id, data)) /\ s \in senders
      BY <2>1 DEF ChunkForwarded
    <3>2. s.id \in Ids /\ s.written \in Nat /\ store[s.file] \in Seq(Piece)
      BY <2>1, <3>1, SharerFields DEF ChunkForwarded, Basic, ServerSide, SenderShape, Readable
    <3>3. data \in Seq(Piece)
      BY <3>2, PortionFacts
    <3> HIDE DEF data
    <3>4. Chunk(s.id, data) \in ServerMessages /\ Chunk(s.id, data).kind = "Chunk"
      BY <3>2, <3>3 DEF Chunk, ServerMessages, ChunkMessages
    <3> QED BY <3>1, <3>4
  <2> QED BY <2>1 DEF Quiet, CommandTyped, SenderStops
<1> QED BY <1>1, <1>2, PassedUploading

\* A message of no transfer is sent.
LEMMA PartFacts ==
  ASSUME PartSent
  PROVE  /\ Part \in ClientMessages /\ Part.kind = "Part" /\ toServer' = Append(toServer, Part)
         /\ UNCHANGED <<typed, client, sharers, next, queue, home, server, offers, free, senders,
                        store, toClient, asked, sought, refused, announced, saved, given>>
BY DEF PartSent, local, remote, past, ClientMessages, Part

LEMMA PartUploading ==
  ASSUME Basic, Basic', Uploading, PartSent PROVE Uploading'
<1>1. \E m \in ClientMessages :
        /\ m.kind \in {"RequestFileDownload", "AgreeFileDownload", "Part"}
        /\ toServer' = Append(toServer, m)
        /\ \A k \in Ids : IsRead(sharers'[k]) => sharers'[k] = sharers[k] \/ Agrees(m, k)
  BY PartFacts
<1>2. UNCHANGED <<client, asked, queue, offers, store, announced, toClient>>
  BY PartFacts
<1> QED BY <1>1, <1>2, PassedUploading

LEMMA DownloadBeginsUploading ==
  ASSUME Basic, Basic', Uploading, NEW d \in Downloads, DownloadBegins(d) PROVE Uploading'
<1>1. /\ client # "exited" /\ UNCHANGED <<asked, queue, offers, store, announced, toClient>>
      /\ d.name \in Names
  BY TransferAssumption DEF DownloadBegins, Commanded, remote
<1>2. ASSUME NEW k \in Ids, IsRead(sharers'[k]) PROVE sharers'[k] = sharers[k]
  BY <1>2 DEF DownloadBegins, Is, IsRead, Keys
<1>3. \/ UNCHANGED toServer
      \/ \E m \in ClientMessages :
           /\ m.kind \in {"RequestFileDownload", "AgreeFileDownload", "Part"}
           /\ toServer' = Append(toServer, m)
  <2>1. [kind |-> "RequestFileDownload", name |-> d.name] \in ClientMessages
    BY <1>1 DEF ClientMessages
  <2> QED BY <2>1 DEF DownloadBegins
<1> QED BY <1>1, <1>2, <1>3, PassedUploading

LEMMA ReceivedUploading ==
  ASSUME Basic, Basic', Uploading, NEW m \in ServerMessages,
         \/ ChunkIgnored(m) \/ ChunkSaved(m) \/ UploadDeclined(m) \/ DownloadDeclined(m)
         \/ DownloadOffered(m)
  PROVE  Uploading'
<1>1. Received(m)
  BY DEF ChunkIgnored, ChunkSaved, UploadDeclined, DownloadDeclined, DownloadOffered
<1>2. /\ client # "exited" /\ UNCHANGED <<asked, offers, store, announced>>
      /\ toClient # <<>> /\ m = Head(toClient) /\ toClient' = Tail(toClient)
  BY <1>1 DEF Received, remote
<1>3. UNCHANGED queue
  BY DEF ChunkIgnored, ChunkSaved, UploadDeclined, DownloadDeclined, DownloadOffered
<1>4. CASE ~DownloadOffered(m)
  <2>1. UNCHANGED toServer
    BY <1>4 DEF ChunkIgnored, ChunkSaved, UploadDeclined, DownloadDeclined
  <2>2. ASSUME NEW k \in Ids, IsRead(sharers'[k]) PROVE sharers'[k] = sharers[k]
    <3>1. k \in Keys
      BY DEF Keys
    <3>2. CASE ChunkIgnored(m) \/ UploadDeclined(m) \/ DownloadDeclined(m)
      BY <2>2, <3>1, <3>2 DEF ChunkIgnored, UploadDeclined, DownloadDeclined, IsRead
    <3>3. CASE ChunkSaved(m)
      <4>1. k # m.id => sharers'[k] = sharers[k]
        BY <3>1, <3>3 DEF ChunkSaved
      <4>2. ~IsRead(sharers'[m.id])
        BY <3>3 DEF ChunkSaved, Is, IsRead
      <4> QED BY <2>2, <4>1, <4>2
    <3> QED BY <1>4, <3>2, <3>3
  <2> QED BY <1>2, <1>3, <2>1, <2>2, PassedUploading
<1>5. CASE DownloadOffered(m)
  <2>1. m.id \in Ids /\ m.kind = "AgreeFileDownload"
    BY <1>5, ToClient DEF DownloadOffered
  <2> DEFINE answer == [kind |-> "AgreeFileDownload", id |-> m.id]
  <2>2. answer \in ClientMessages /\ answer.kind = "AgreeFileDownload" /\ answer.id = m.id
    BY <2>1 DEF ClientMessages
  <2>3. toServer' = Append(toServer, answer) \/ (client' = "exited" /\ UNCHANGED toServer)
    BY <1>5 DEF DownloadOffered
  <2>4. ASSUME NEW k \in Ids, IsRead(sharers'[k]) PROVE sharers'[k] = sharers[k] \/ k = m.id
    BY <1>5, <2>4 DEF DownloadOffered, IsRead, Keys
  <2> HIDE DEF answer
  <2>5. CASE toServer' = Append(toServer, answer)
    <3>1. \A k \in Ids : IsRead(sharers'[k]) => sharers'[k] = sharers[k] \/ Agrees(answer, k)
      BY <2>2, <2>4 DEF Agrees
    <3> QED BY <1>2, <1>3, <2>2, <2>5, <3>1, PassedUploading
  <2>6. CASE client' = "exited" /\ UNCHANGED toServer
    <3>1. Protocol /\ \A k \in Ids : Writing(k)' => Writing(k) /\ offers'[k] = offers[k]
      BY <1>2 DEF Uploading, Writing
    <3>2. Protocol'
      BY <1>2, <1>3, <2>6, <3>1, ProtocolPassed
    <3>3. AnnouncedIsComplete'
      BY <1>2 DEF Uploading, AnnouncedIsComplete
    <3>4. ASSUME NEW k \in Ids PROVE Sources(k)' /\ Sinks(k)'
      <4>1. Sinks(k) /\ (Continues(k) => Continues(k)')
        BY <1>2, <2>6 DEF Uploading, Continues
      <4>2. Sinks(k)'
        BY <1>2, <3>1, <4>1, SinksKept
      <4> QED BY <2>6, <4>2 DEF Sources
    <3> QED BY <3>2, <3>3, <3>4 DEF Uploading
  <2> QED BY <2>3, <2>5, <2>6
<1> QED BY <1>4, <1>5

LEMMA ServedUploading ==
  ASSUME Basic, Basic', Uploading, NEW m \in ClientMessages,
         \/ UploadRefused(m) \/ DownloadRefused(m) \/ DownloadGranted(m) \/ SenderStarts(m)
         \/ ChunkDropped(m)
  PROVE  Uploading'
<1>1. Served(m)
  BY DEF UploadRefused, DownloadRefused, DownloadGranted, SenderStarts, ChunkDropped
<1>2. /\ UNCHANGED <<store, announced, asked, queue>> /\ Protocol
      /\ toServer # <<>> /\ m = Head(toServer) /\ toServer' = Tail(toServer)
  BY <1>1 DEF UploadRefused, DownloadRefused, DownloadGranted, SenderStarts, ChunkDropped, Served,
              remote, local, Uploading
<1>3. \/ UNCHANGED toClient
      \/ \E answer \in ServerMessages :
           answer.kind # "AgreeFileUpload" /\ toClient' = Append(toClient, answer)
  <2>1. CASE UploadRefused(m)
    <3>1. [kind |-> "DeclineFileUpload", id |-> m.id] \in ServerMessages
      BY <2>1, ToServer DEF UploadRefused, ServerMessages
    <3> QED BY <2>1, <3>1 DEF UploadRefused
  <2>2. CASE DownloadRefused(m)
    <3>1. [kind |-> "DeclineFileDownload", name |-> m.name] \in ServerMessages
      BY <2>2, ToServer DEF DownloadRefused, ServerMessages
    <3> QED BY <2>2, <3>1 DEF DownloadRefused
  <2>3. CASE DownloadGranted(m)
    <3>1. m.name \in Names /\ free \in Ids /\ store[m.name] \in Seq(Piece)
      BY <2>3, ToServer, NumbersAreIds DEF DownloadGranted, Basic, ServerSide
    <3>2. [kind |-> "AgreeFileDownload", name |-> m.name, size |-> Len(store[m.name]),
           id |-> free] \in ServerMessages
      BY <3>1 DEF ServerMessages
    <3> QED BY <2>3, <3>2 DEF DownloadGranted
  <2>4. CASE SenderStarts(m) \/ ChunkDropped(m)
    BY <2>4 DEF SenderStarts, ChunkDropped
  <2> QED BY <2>1, <2>2, <2>3, <2>4
<1>4. ASSUME NEW k \in Ids, Writing(k)'
      PROVE  Writing(k) /\ offers'[k] = offers[k] /\ ~Agrees(m, k) /\ ~Carries(m, k)
  <2>1. k \in Keys
    BY DEF Keys
  <2>2. CASE UploadRefused(m) \/ DownloadRefused(m)
    BY <1>4, <2>2 DEF UploadRefused, DownloadRefused, remote, Writing, Agrees, Carries
  <2>3. CASE DownloadGranted(m)
    <3>1. offers'[k] = offers[k] /\ m.kind = "RequestFileDownload"
      BY <1>4, <2>1, <2>3 DEF DownloadGranted, Writing, IsWrite, Is
    <3> QED BY <1>4, <3>1 DEF Writing, Agrees, Carries
  <2>4. CASE SenderStarts(m)
    <3>1. offers'[k] = offers[k] /\ m.kind = "AgreeFileDownload" /\ k # m.id
      BY <1>4, <2>1, <2>4 DEF SenderStarts, Writing, IsWrite
    <3> QED BY <1>4, <3>1 DEF Writing, Agrees, Carries
  <2>5. CASE ChunkDropped(m)
    BY <1>4, <2>5 DEF ChunkDropped, Writing, Agrees, Carries
  <2> QED BY <2>2, <2>3, <2>4, <2>5
<1>5. Protocol'
  BY <1>2, <1>3, <1>4, ProtocolPassed
<1> QED BY <1>1, <1>2, <1>4, <1>5, TakenUploading

LEMMA UploadingStep == ASSUME Basic, Basic', Uploading, Step PROVE Uploading'
<1>1. Protocol
  BY DEF Uploading
<1>2. CASE OfClient
  <2>1. ASSUME NEW u \in Uploads, UploadBegins(u) PROVE Uploading'
    BY <1>1, <2>1, BeginsProtocol, BeginsUploading
  <2>2. ASSUME NEW m \in ServerMessages, UploadAgreed(m) PROVE Uploading'
    BY <1>1, <2>2, AgreedProtocol, AgreedUploading
  <2>3. ASSUME NEW i \in 1..Len(queue), NEW w \in Nat, ChunkSent(i, w) PROVE Uploading'
    BY <1>1, <2>3, SentProtocol, SentUploading
  <2> QED BY <1>2, <2>1, <2>2, <2>3, QuietUploading, PartUploading, DownloadBeginsUploading, ReceivedUploading
          DEF OfClient
<1>3. CASE OfServer
  <2>1. ASSUME NEW m \in ClientMessages, UploadGranted(m) PROVE Uploading'
    BY <1>1, <2>1, GrantedProtocol, GrantedUploading
  <2>2. ASSUME NEW m \in ClientMessages, ChunkStored(m) PROVE Uploading'
    <3>1. /\ UNCHANGED <<asked, queue, toClient>> /\ m.kind = "Chunk" /\ m.id \in Ids
          /\ toServer # <<>> /\ m = Head(toServer) /\ toServer' = Tail(toServer)
      BY <2>2, ToServer DEF ChunkStored, Served, local
    <3>2. ASSUME NEW k \in Ids, Writing(k)'
          PROVE  Writing(k) /\ (offers'[k] = offers[k] \/ chunks(k) > 0)
      <4>1. CASE k = m.id
        <5>1. /\ chunks(k) = chunks(k)' + (IF Carries(m, k) THEN 1 ELSE 0) /\ chunks(k)' \in Nat
          BY <3>1, ToServerTaken
        <5> QED BY <2>2, <3>1, <4>1, <5>1 DEF Carries, ChunkStored, Writing
      <4>2. CASE k # m.id
        BY <2>2, <3>2, <4>2 DEF ChunkStored, Writing, Keys
      <4> QED BY <4>1, <4>2
    <3>3. Protocol'
      BY <1>1, <3>1, <3>2, ProtocolPassed
    <3> QED BY <2>2, <3>3, StoredUploading
  <2> QED BY <1>3, <2>1, <2>2, QuietUploading, ServedUploading DEF OfServer
<1> QED BY <1>2, <1>3 DEF Step

LEMMA InitUploading == Init => Uploading
<1> SUFFICES ASSUME Init PROVE Uploading
  OBVIOUS
<1>1. Len(toServer) = 0 /\ Len(toClient) = 0 /\ Len(queue) = 0 /\ Len(asked) = 0
  BY DEF Init
<1>2. \A k : asks(k) = 0 /\ permits(k) = 0 /\ turns(k) = 0 /\ chunks(k) = 0
  BY <1>1, NoneBefore DEF asks, permits, turns, chunks, Count
<1>3. \A k \in Ids : ~Writing(k)
  BY DEF Init, Writing, IsWrite, Keys
<1>4. Protocol
  BY <1>1, <1>2, <1>3 DEF Protocol, Once
<1>5. \A k \in Ids : Sources(k) /\ Sinks(k)
  BY <1>2, <1>3 DEF Sources, Sinks, Alive
<1>6. AnnouncedIsComplete
  BY DEF Init, AnnouncedIsComplete
<1> QED BY <1>4, <1>5, <1>6 DEF Uploading

\* Whatever the user types meanwhile, an upload is requested, agreed to, sent and
\* received under its number in this order, once; and what the server has written
\* of it (handle_client_chunk) is the beginning of the user's file.
THEOREM UploadsArrive == Spec => []Uploading
<1>1. Basic /\ Basic' /\ Uploading /\ [Next]_vars => Uploading'
  BY Steps, UploadingStep
<1> QED BY InitUploading, <1>1, BasicHolds, PTL DEF Spec

\* NewFile tells the truth: the server announces a file when it has all of what
\* the user uploaded (handle_client_chunk), also when downloads take the place of
\* uploads in the map of the client.
THEOREM AnnouncedAreComplete == Spec => []AnnouncedIsComplete
<1>1. Uploading => AnnouncedIsComplete
  BY DEF Uploading
<1> QED BY <1>1, UploadsArrive, PTL

-----------------------------------------------------------------------------
(* The files of the server are an archive *)

LEMMA FirstIsBegun ==
  ASSUME NEW c \in Seq(Piece), NEW w \in 0..Len(c) PROVE SubSeq(c, 1, w) = Begun(c, w)
<1>1. /\ Begun(c, w) \in Seq(Piece) /\ Len(Begun(c, w)) = w
      /\ \A n \in 1..w : Begun(c, w)[n] = c[n]
  BY BegunFacts
<1>2. /\ SubSeq(c, 1, w) \in Seq(Piece) /\ Len(SubSeq(c, 1, w)) = w
      /\ \A n \in 1..w : SubSeq(c, 1, w)[n] = c[n]
  OBVIOUS
<1> QED BY <1>1, <1>2, SeqEqual

LEMMA InitArchive == Init => Archive!Init
BY DEF Init, Archive!Init

LEMMA FillingIsFill ==
  ASSUME Basic, NEW name \in Names, NEW path \in Paths, NEW w \in Nat,
         Filling(name, Original(path), w)
  PROVE  Archive!Next
<1> DEFINE c == Original(path)
           n == w + Len(Portion(c, w))
           originals == {Original(p) : p \in Paths}
           kept == [stored \in Stored |-> Original(stored)]
<1>1. /\ c \in Seq(Piece) /\ Len(c) \in Nat /\ w \in 0..Len(c) /\ n \in 0..Len(c)
      /\ n = (IF w < Len(c) THEN w + 1 ELSE w) /\ c \in originals
  BY FillingFacts
<1>2. /\ w < Len(c) \/ Len(c) = 0
      /\ name \notin Stored \union announced
      /\ store[name] = Begun(c, w)
      /\ store' = [store EXCEPT ![name] = Begun(c, n)]
      /\ announced' = IF n = Len(c) THEN announced \union {name} ELSE announced
  BY DEF Filling
<1>3. Archive!Open(name)
  BY <1>2 DEF Archive!Open
<1>4. CASE w < Len(c)
  <2>1. Begun(c, w) = SubSeq(c, 1, w) /\ Begun(c, w + 1) = SubSeq(c, 1, w + 1)
    <3> HIDE DEF c
    <3>1. w + 1 \in 0..Len(c)
      BY <1>1, <1>4
    <3> QED BY <1>1, <3>1, FirstIsBegun
  <2>2. w \in 0..(Len(c) - 1) /\ n = w + 1
    BY <1>1, <1>4
  <2>3. Archive!Fill(name, c, w)
    BY <1>2, <1>3, <2>1, <2>2 DEF Archive!Fill
  <2> QED BY <1>1, <2>2, <2>3 DEF Archive!Next
<1>5. CASE Len(c) = 0
  <2>1. w = 0 /\ n = 0 /\ c = <<>>
    BY <1>1, <1>5, EmptySeq
  <2>2. Begun(c, 0) = <<>>
    BY BegunNothing
  <2>3. store[name] = <<>> /\ store' = [store EXCEPT ![name] = <<>>]
        /\ announced' = announced \union {name}
    BY <1>2, <1>5, <2>1, <2>2
  <2>4. store' = store
    BY <2>3 DEF Basic, ServerSide
  <2>5. Archive!FillNothing(name)
    BY <1>1, <1>3, <2>1, <2>3, <2>4 DEF Archive!FillNothing
  <2> QED BY <2>5 DEF Archive!Next
<1> QED BY <1>2, <1>4, <1>5

\* A request that is granted begins a file, a chunk fills it, all else leaves the
\* directory as it is.
LEMMA ArchiveStep == ASSUME Basic, Uploading, Step PROVE [Archive!Next]_(Archive!vars)
<1>1. ASSUME NEW m \in ClientMessages, UploadGranted(m) PROVE Archive!Next
  <2>1. m.name \in Names
    BY <1>1, ToServer DEF UploadGranted
  <2>2. Archive!Begin(m.name)
    BY <1>1 DEF UploadGranted, Archive!Begin
  <2> QED BY <2>1, <2>2 DEF Archive!Next
<1>2. ASSUME NEW m \in ClientMessages, ChunkStored(m) PROVE Archive!Next
  BY <1>2, StoredContent, FillingIsFill
<1>3. ASSUME NEW m \in ClientMessages,
             \/ UploadRefused(m) \/ DownloadRefused(m) \/ DownloadGranted(m)
             \/ SenderStarts(m) \/ ChunkDropped(m)
      PROVE  UNCHANGED <<store, announced>>
  BY <1>3 DEF UploadRefused, DownloadRefused, DownloadGranted, SenderStarts, ChunkDropped, remote
<1>4. ASSUME NEW s \in Sharer, NEW t \in Sharer, ChunkForwarded(s, t)
      PROVE  UNCHANGED <<store, announced>>
  BY <1>4 DEF ChunkForwarded, past
<1>5. ASSUME NEW s \in Sharer, SenderStops(s) PROVE UNCHANGED <<store, announced>>
  BY <1>5 DEF SenderStops, past
<1>6. CASE OfServer
  BY <1>1, <1>2, <1>3, <1>4, <1>5, <1>6 DEF OfServer, Archive!vars
<1>7. CASE OfClient
  <2>1. ASSUME NEW m \in ServerMessages, Received(m) PROVE UNCHANGED <<store, announced>>
    BY <2>1 DEF Received, remote
  <2>2. UNCHANGED <<store, announced>>
    BY <1>7, <2>1, PartFacts DEF OfClient, Quiet, CommandTyped, UploadBegins, DownloadBegins, Commanded,
         ChunkIgnored, ChunkSaved, UploadAgreed, UploadDeclined, DownloadOffered,
         DownloadDeclined, ChunkSent, remote, past
  <2> QED BY <2>2 DEF Archive!vars
<1> QED BY <1>6, <1>7 DEF Step

\* The directory of the server is an archive: its files are begun once, filled from
\* the front with one original, announced with the last piece, and then stay as
\* they are (handle_client_request_file_upload, handle_client_chunk), also when a name
\* is a number and when the client has confused an upload with a download.
THEOREM ServerIsAnArchive == Spec => ImplementsArchive
<1>1. Basic /\ Uploading /\ [Next]_vars => [Archive!Next]_(Archive!vars)
  BY Steps, ArchiveStep
<1> QED BY InitArchive, <1>1, BasicHolds, UploadsArrive, PTL
        DEF Spec, ImplementsArchive, Archive!Spec

-----------------------------------------------------------------------------
(* Uploads alone: nothing is downloaded, and no name is a number *)

NothingSought ==
  sought = {} =>
    /\ \A i \in 1..Len(toServer) :
         toServer[i].kind \notin {"RequestFileDownload", "AgreeFileDownload"}
    /\ \A i \in 1..Len(toClient) : toClient[i].kind # "AgreeFileDownload"
    /\ client # "exited" =>
         /\ \A key \in Keys : ~IsWrite(sharers[key])
         /\ \A i \in 1..Len(queue) : queue[i].mode = "read"

\* The server has a sharer for what it granted, and an empty file is sent once.
Granted(k) ==
  /\ permits(k) > 0 \/ turns(k) > 0 => Writing(k)
  /\ \A i \in 1..Len(queue) : queue[i] \in Turns(k) /\ queue[i].size = 0 => chunks(k) = 0

Alone ==
  /\ NothingSought
  /\ NamesAreNoNumbers /\ sought = {} /\ client # "exited" => \A k \in Ids : Granted(k)

\* Nothing new is there but what has to do with uploads.
LEMMA NothingSoughtKept ==
  ASSUME Basic, Basic', NothingSought,
         sought' = {} =>
           /\ sought = {}
           /\ \A i \in 1..Len(toServer') :
                \/ \E j \in 1..Len(toServer) : toServer'[i] = toServer[j]
                \/ toServer'[i].kind \in {"RequestFileUpload", "Chunk", "Part"}
           /\ \A i \in 1..Len(toClient') :
                \/ \E j \in 1..Len(toClient) : toClient'[i] = toClient[j]
                \/ toClient'[i].kind # "AgreeFileDownload"
           /\ client' # "exited" =>
                /\ client # "exited"
                /\ \A key \in Keys : IsWrite(sharers'[key]) => sharers'[key] = sharers[key]
                /\ \A i \in 1..Len(queue') :
                     (\E j \in 1..Len(queue) : queue'[i].mode = queue[j].mode)
                       \/ queue'[i].mode = "read"
  PROVE  NothingSought'
<1> SUFFICES ASSUME sought' = {}
             PROVE  /\ \A i \in 1..Len(toServer') :
                         toServer'[i].kind \notin {"RequestFileDownload", "AgreeFileDownload"}
                    /\ \A i \in 1..Len(toClient') : toClient'[i].kind # "AgreeFileDownload"
                    /\ client' # "exited" =>
                         /\ \A key \in Keys : ~IsWrite(sharers'[key])
                         /\ \A i \in 1..Len(queue') : queue'[i].mode = "read"
  BY DEF NothingSought
<1>1. \A i \in 1..Len(toServer') :
         toServer'[i].kind \notin {"RequestFileDownload", "AgreeFileDownload"}
  BY DEF NothingSought
<1>2. \A i \in 1..Len(toClient') : toClient'[i].kind # "AgreeFileDownload"
  BY DEF NothingSought
<1>3. ASSUME client' # "exited"
      PROVE  /\ \A key \in Keys : ~IsWrite(sharers'[key])
             /\ \A i \in 1..Len(queue') : queue'[i].mode = "read"
  BY <1>3 DEF NothingSought
<1> QED BY <1>1, <1>2, <1>3

LEMMA GrantedKept ==
  ASSUME Basic, Basic', Protocol, NEW k \in Ids, Granted(k),
         permits(k)' <= permits(k), turns(k)' <= turns(k), chunks(k)' <= chunks(k),
         \A i \in 1..Len(queue') : queue'[i] \in Turns(k) =>
            \E j \in 1..Len(queue) : queue'[i] = queue[j],
         Writing(k) => Writing(k)' \/ (permits(k) = 0 /\ turns(k) = 0)
  PROVE  Granted(k)'
<1>1. /\ permits(k) \in Nat /\ turns(k) \in Nat /\ chunks(k) \in Nat
      /\ permits(k)' \in Nat /\ turns(k)' \in Nat /\ chunks(k)' \in Nat
  BY CountsAreNats, NextCountsAreNats
<1>2. permits(k)' > 0 \/ turns(k)' > 0 => permits(k) > 0 \/ turns(k) > 0
  BY <1>1
<1>3. permits(k)' > 0 \/ turns(k)' > 0 => Writing(k)'
  BY <1>1, <1>2 DEF Granted
<1>4. chunks(k) = 0 => chunks(k)' = 0
  BY <1>1
<1>5. \A i \in 1..Len(queue') :
         queue'[i] \in Turns(k) /\ queue'[i].size = 0 => chunks(k)' = 0
  BY <1>4 DEF Granted
<1> QED BY <1>3, <1>5 DEF Granted

\* The messages after one was sent, or taken.
LEMMA SentMessages ==
  ASSUME NEW M, NEW q \in Seq(M), NEW m \in M, NEW r, r = Append(q, m)
  PROVE  \A i \in 1..Len(r) : r[i] = m \/ \E j \in 1..Len(q) : r[i] = q[j]
<1>1. /\ Len(r) = Len(q) + 1 /\ r[Len(q) + 1] = m /\ Len(q) \in Nat
      /\ \A i \in 1..Len(q) : r[i] = q[i]
  BY AppendProperties
<1>2. \A i \in 1..Len(r) : i \in 1..Len(q) \/ i = Len(q) + 1
  BY <1>1
<1> QED BY <1>1, <1>2

LEMMA TakenMessages ==
  ASSUME NEW M, NEW q \in Seq(M), q # <<>>, NEW r, r = Tail(q)
  PROVE  /\ \A i \in 1..Len(r) : \E j \in 1..Len(q) : r[i] = q[j]
         /\ \E j \in 1..Len(q) : q[j] = Head(q)
<1>1. /\ Len(q) \in Nat \ {0} /\ Len(r) = Len(q) - 1 /\ Head(q) = q[1]
      /\ \A i \in 1..Len(r) : r[i] = q[i + 1]
  BY HeadTailProperties, EmptySeq
<1>2. (\A i \in 1..Len(r) : i + 1 \in 1..Len(q)) /\ 1 \in 1..Len(q)
  BY <1>1
<1> QED BY <1>1, <1>2

\* A step that neither sends nor grants for an upload, without downloads.
LEMMA PassedAlone ==
  ASSUME Basic, Basic', Uploading, Alone, UNCHANGED queue,
         client' # "exited" => client # "exited",
         sought' = {} =>
           /\ sought = {}
           /\ \A key \in Keys : IsWrite(sharers'[key]) => sharers'[key] = sharers[key]
           /\ \/ UNCHANGED toServer
              \/ \E m \in ClientMessages :
                   m.kind \in {"RequestFileUpload", "Part"} /\ toServer' = Append(toServer, m)
              \/ \E m \in ClientMessages :
                   toServer # <<>> /\ m = Head(toServer) /\ toServer' = Tail(toServer)
           /\ \/ UNCHANGED toClient
              \/ \E m \in ServerMessages :
                   /\ m.kind \notin {"AgreeFileUpload", "AgreeFileDownload"}
                   /\ toClient' = Append(toClient, m)
              \/ \E m \in ServerMessages :
                   toClient # <<>> /\ m = Head(toClient) /\ toClient' = Tail(toClient)
           /\ NamesAreNoNumbers /\ client # "exited" =>
                \A k \in Ids :
                  Writing(k) => Writing(k)' \/ (permits(k) = 0 /\ turns(k) = 0)
  PROVE  Alone'
<1>1. toServer \in Seq(ClientMessages) /\ toClient \in Seq(ServerMessages)
  BY DEF Basic, Between
<1>2. ASSUME sought' = {}
      PROVE  \A i \in 1..Len(toServer') :
               \/ \E j \in 1..Len(toServer) : toServer'[i] = toServer[j]
               \/ toServer'[i].kind \in {"RequestFileUpload", "Chunk", "Part"}
  <2>1. CASE UNCHANGED toServer
    BY <2>1
  <2>2. ASSUME NEW m \in ClientMessages, m.kind \in {"RequestFileUpload", "Part"},
               toServer' = Append(toServer, m)
        PROVE  <1>2!2
    <3>1. \A i \in 1..Len(toServer') :
            toServer'[i] = m \/ \E j \in 1..Len(toServer) : toServer'[i] = toServer[j]
      BY <1>1, <2>2, SentMessages
    <3> QED BY <2>2, <3>1
  <2>3. CASE toServer # <<>> /\ toServer' = Tail(toServer)
    BY <1>1, <2>3, TakenMessages
  <2> QED BY <1>2, <2>1, <2>2, <2>3
<1>3. ASSUME sought' = {}
      PROVE  \A i \in 1..Len(toClient') :
               \/ \E j \in 1..Len(toClient) : toClient'[i] = toClient[j]
               \/ toClient'[i].kind # "AgreeFileDownload"
  <2>1. CASE UNCHANGED toClient
    BY <2>1
  <2>2. ASSUME NEW m \in ServerMessages, m.kind \notin {"AgreeFileUpload", "AgreeFileDownload"},
               toClient' = Append(toClient, m)
        PROVE  <1>3!2
    <3>1. \A i \in 1..Len(toClient') :
            toClient'[i] = m \/ \E j \in 1..Len(toClient) : toClient'[i] = toClient[j]
      BY <1>1, <2>2, SentMessages
    <3> QED BY <2>2, <3>1
  <2>3. CASE toClient # <<>> /\ toClient' = Tail(toClient)
    BY <1>1, <2>3, TakenMessages
  <2> QED BY <1>3, <2>1, <2>2, <2>3
<1>4. NothingSought'
  <2>1. \A i \in 1..Len(queue') : \E j \in 1..Len(queue) : queue'[i].mode = queue[j].mode
    OBVIOUS
  <2> QED BY <1>2, <1>3, <2>1, NothingSoughtKept DEF Alone
<1>5. ASSUME NamesAreNoNumbers, sought' = {}, client' # "exited", NEW k \in Ids
      PROVE  Granted(k)'
  <2>1. Granted(k) /\ Protocol
    BY <1>5 DEF Alone, Uploading
  <2>2. permits(k)' <= permits(k)
    <3>1. permits(k) \in Nat
      BY CountsAreNats
    <3>2. CASE UNCHANGED toClient
      BY <3>1, <3>2 DEF permits
    <3>3. ASSUME NEW m \in ServerMessages, m.kind \notin {"AgreeFileUpload", "AgreeFileDownload"},
                 toClient' = Append(toClient, m)
          PROVE  permits(k)' <= permits(k)
      <4>1. permits(k)' = permits(k) + (IF Grants(m, k) THEN 1 ELSE 0) /\ ~Grants(m, k)
        BY <3>3, ToClientSent DEF Grants
      <4> QED BY <3>1, <4>1
    <3>4. ASSUME NEW m \in ServerMessages, toClient # <<>>, m = Head(toClient),
                 toClient' = Tail(toClient)
          PROVE  permits(k)' <= permits(k)
      <4>1. permits(k) = permits(k)' + (IF Grants(m, k) THEN 1 ELSE 0) /\ permits(k)' \in Nat
        BY <3>4, ToClientTaken
      <4> QED BY <4>1
    <3> QED BY <1>5, <3>2, <3>3, <3>4
  <2>3. chunks(k)' <= chunks(k)
    <3>1. chunks(k) \in Nat
      BY CountsAreNats
    <3>2. CASE UNCHANGED toServer
      BY <3>1, <3>2 DEF chunks
    <3>3. ASSUME NEW m \in ClientMessages, m.kind \in {"RequestFileUpload", "Part"},
                 toServer' = Append(toServer, m)
          PROVE  chunks(k)' <= chunks(k)
      <4>1. chunks(k)' = chunks(k) + (IF Carries(m, k) THEN 1 ELSE 0) /\ ~Carries(m, k)
        BY <3>3, ToServerSent DEF Carries
      <4> QED BY <3>1, <4>1
    <3>4. ASSUME NEW m \in ClientMessages, toServer # <<>>, m = Head(toServer),
                 toServer' = Tail(toServer)
          PROVE  chunks(k)' <= chunks(k)
      <4>1. chunks(k) = chunks(k)' + (IF Carries(m, k) THEN 1 ELSE 0) /\ chunks(k)' \in Nat
        BY <3>4, ToServerTaken
      <4> QED BY <4>1
    <3> QED BY <1>5, <3>2, <3>3, <3>4
  <2>4. turns(k)' <= turns(k)
    BY CountsAreNats DEF turns
  <2>5. Writing(k) => Writing(k)' \/ (permits(k) = 0 /\ turns(k) = 0)
    BY <1>5
  <2> QED BY <2>1, <2>2, <2>3, <2>4, <2>5, GrantedKept
<1> QED BY <1>4, <1>5 DEF Alone

LEMMA QuietAlone ==
  ASSUME Basic, Basic', Uploading, Alone,
         \/ Quiet \/ \E c \in Commands : CommandTyped(c)
         \/ \E s \in Sharer : SenderStops(s)
         \/ \E s, t \in Sharer : ChunkForwarded(s, t)
  PROVE  Alone'
<1>1. /\ client' # "exited" => client # "exited"
      /\ UNCHANGED <<queue, sought, sharers, toServer, offers>>
  BY DEF Quiet, CommandTyped, SenderStops, ChunkForwarded, local, remote, past
<1>2. \/ UNCHANGED toClient
      \/ \E m \in ServerMessages :
           /\ m.kind \notin {"AgreeFileUpload", "AgreeFileDownload"}
           /\ toClient' = Append(toClient, m)
  <2>1. ASSUME NEW s \in Sharer, NEW t \in Sharer, ChunkForwarded(s, t)
        PROVE  \E m \in ServerMessages :
                 /\ m.kind \notin {"AgreeFileUpload", "AgreeFileDownload"}
                 /\ toClient' = Append(toClient, m)
    <3> DEFINE data == Portion(store[s.file], s.written)
    <3>1. toClient' = Append(toClient, Chunk(s.id, data)) /\ s \in senders
      BY <2>1 DEF ChunkForwarded
    <3>2. s.id \in Ids /\ s.written \in Nat /\ store[s.file] \in Seq(Piece)
      BY <2>1, <3>1, SharerFields DEF ChunkForwarded, Basic, ServerSide, SenderShape, Readable
    <3>3. data \in Seq(Piece)
      BY <3>2, PortionFacts
    <3> HIDE DEF data
    <3>4. Chunk(s.id, data) \in ServerMessages /\ Chunk(s.id, data).kind = "Chunk"
      BY <3>2, <3>3 DEF Chunk, ServerMessages, ChunkMessages
    <3> QED BY <3>1, <3>4
  <2> QED BY <2>1 DEF Quiet, CommandTyped, SenderStops
<1>3. \A k \in Ids : Writing(k) => Writing(k)'
  BY <1>1 DEF Writing
<1> QED BY <1>1, <1>2, <1>3, PassedAlone

LEMMA PartAlone ==
  ASSUME Basic, Basic', Uploading, Alone, PartSent PROVE Alone'
<1>1. UNCHANGED <<client, queue, sought, sharers, toClient, offers>>
  BY PartFacts
<1>2. \E m \in ClientMessages :
        m.kind \in {"RequestFileUpload", "Part"} /\ toServer' = Append(toServer, m)
  BY PartFacts
<1>3. \A k \in Ids : Writing(k) => Writing(k)'
  BY <1>1 DEF Writing
<1> QED BY <1>1, <1>2, <1>3, PassedAlone

LEMMA BeginsAlone ==
  ASSUME Basic, Basic', Uploading, Alone, NEW u \in Uploads, UploadBegins(u) PROVE Alone'
<1>1. /\ client # "exited" /\ UNCHANGED <<queue, sought, offers, toClient>>
      /\ u.name \in Names
  BY TransferAssumption DEF UploadBegins, Commanded, remote
<1>2. ASSUME NEW key \in Keys, IsWrite(sharers'[key]) PROVE sharers'[key] = sharers[key]
  BY <1>2 DEF UploadBegins, Is, IsWrite
<1>3. \/ UNCHANGED toServer
      \/ \E m \in ClientMessages :
           m.kind = "RequestFileUpload" /\ toServer' = Append(toServer, m)
  <2>1. next \in Ids /\ Size[u.path] \in Nat
    BY NumbersAreIds, TransferAssumption
  <2>2. [kind |-> "RequestFileUpload", name |-> u.name, size |-> Size[u.path], id |-> next]
          \in ClientMessages
    BY <1>1, <2>1 DEF ClientMessages
  <2> QED BY <2>2 DEF UploadBegins
<1>4. \A k \in Ids : Writing(k) => Writing(k)'
  BY <1>1 DEF Writing
<1> QED BY <1>1, <1>2, <1>3, <1>4, PassedAlone

LEMMA DownloadBeginsAlone ==
  ASSUME Basic, Basic', Uploading, Alone, NEW d \in Downloads, DownloadBegins(d) PROVE Alone'
<1>1. client # "exited" /\ UNCHANGED <<queue, toClient>>
  BY DEF DownloadBegins, Commanded
<1>2. CASE sought' = sought \union {d}
  <2>1. sought' # {}
    BY <1>2
  <2> QED BY <1>1, <2>1, PassedAlone
<1>3. CASE client' = "exited" /\ UNCHANGED <<toServer, sought>>
  BY <1>1, <1>3 DEF Alone, NothingSought
<1> QED BY <1>2, <1>3 DEF DownloadBegins

LEMMA ReceivedAlone ==
  ASSUME Basic, Basic', Uploading, Alone, NEW m \in ServerMessages,
         \/ ChunkIgnored(m) \/ ChunkSaved(m) \/ UploadDeclined(m) \/ DownloadDeclined(m)
         \/ DownloadOffered(m)
  PROVE  Alone'
<1>1. Received(m)
  BY DEF ChunkIgnored, ChunkSaved, UploadDeclined, DownloadDeclined, DownloadOffered
<1>2. /\ client # "exited" /\ UNCHANGED <<offers, sought>>
      /\ toClient # <<>> /\ m = Head(toClient) /\ toClient' = Tail(toClient)
  BY <1>1 DEF Received, remote
<1>3. UNCHANGED queue
  BY DEF ChunkIgnored, ChunkSaved, UploadDeclined, DownloadDeclined, DownloadOffered
<1>4. ASSUME sought' = {}
      PROVE  UNCHANGED toServer /\ \A key \in Keys : IsWrite(sharers'[key]) => sharers'[key] = sharers[key]
  <2>1. (\A key \in Keys : ~IsWrite(sharers[key])) /\ m.kind # "AgreeFileDownload"
    <3>1. NothingSought /\ sought = {}
      BY <1>2, <1>4 DEF Alone
    <3>2. toClient \in Seq(ServerMessages)
      BY DEF Basic, Between
    <3>3. PICK j \in 1..Len(toClient) : toClient[j] = m
      BY <1>2, <3>2, TakenMessages
    <3> QED BY <1>2, <3>1, <3>3 DEF NothingSought
  <2>2. ~ChunkSaved(m) /\ ~DownloadOffered(m)
    <3>1. m.kind = "Chunk" => m.id \in Keys
      BY ToClient DEF Keys
    <3> QED BY <2>1, <3>1 DEF ChunkSaved, DownloadOffered
  <2>3. \A key \in Keys : sharers'[key] \in {sharers[key], None}
    BY <2>2 DEF ChunkIgnored, UploadDeclined, DownloadDeclined
  <2>4. UNCHANGED toServer
    BY <2>2 DEF ChunkIgnored, UploadDeclined, DownloadDeclined
  <2> QED BY <2>3, <2>4 DEF IsWrite
<1>5. \A k \in Ids : Writing(k) => Writing(k)'
  BY <1>2 DEF Writing
<1> QED BY <1>2, <1>3, <1>4, <1>5, PassedAlone

\* The server is not asked for downloads.
LEMMA TakenAlone ==
  ASSUME Basic, Alone, sought = {}, NEW m \in ClientMessages, Served(m)
  PROVE  m.kind \in {"RequestFileUpload", "Chunk", "Part"}
<1>1. toServer \in Seq(ClientMessages) /\ toServer # <<>> /\ m = Head(toServer)
  BY DEF Basic, Between, Served
<1>2. PICK j \in 1..Len(toServer) : toServer[j] = m
  BY <1>1, TakenMessages
<1>3. m.kind \notin {"RequestFileDownload", "AgreeFileDownload"}
  BY <1>2 DEF Alone, NothingSought
<1> QED BY <1>3, ToServer

LEMMA ServedAlone ==
  ASSUME Basic, Basic', Uploading, Alone, NEW m \in ClientMessages,
         \/ UploadRefused(m) \/ DownloadRefused(m) \/ DownloadGranted(m) \/ SenderStarts(m)
         \/ ChunkDropped(m)
  PROVE  Alone'
<1>1. Served(m)
  BY DEF UploadRefused, DownloadRefused, DownloadGranted, SenderStarts, ChunkDropped
<1>2. /\ UNCHANGED <<client, queue, sharers, sought>>
      /\ toServer # <<>> /\ m = Head(toServer) /\ toServer' = Tail(toServer)
  BY <1>1 DEF Served, local
<1>3. ASSUME sought' = {}
      PROVE  /\ UNCHANGED offers
             /\ \/ UNCHANGED toClient
                \/ \E answer \in ServerMessages :
                     /\ answer.kind \notin {"AgreeFileUpload", "AgreeFileDownload"}
                     /\ toClient' = Append(toClient, answer)
  <2>1. m.kind \in {"RequestFileUpload", "Chunk", "Part"}
    BY <1>1, <1>2, <1>3, TakenAlone
  <2>2. CASE UploadRefused(m)
    <3>1. [kind |-> "DeclineFileUpload", id |-> m.id] \in ServerMessages
      BY <2>2, ToServer DEF UploadRefused, ServerMessages
    <3> QED BY <2>2, <3>1 DEF UploadRefused, remote
  <2>3. CASE ChunkDropped(m)
    BY <2>3 DEF ChunkDropped
  <2>4. ~DownloadRefused(m) /\ ~DownloadGranted(m) /\ ~SenderStarts(m)
    BY <2>1 DEF DownloadRefused, DownloadGranted, SenderStarts
  <2> QED BY <2>2, <2>3, <2>4
<1>4. ASSUME sought' = {} PROVE \A k \in Ids : Writing(k) => Writing(k)'
  BY <1>3, <1>4 DEF Writing
<1> QED BY <1>2, <1>3, <1>4, PassedAlone

LEMMA AgreedAlone ==
  ASSUME Basic, Basic', Uploading, Alone, NEW m \in ServerMessages, UploadAgreed(m)
  PROVE  Alone'
<1>1. /\ client # "exited" /\ UNCHANGED <<offers, sought, toServer>>
      /\ toClient # <<>> /\ m = Head(toClient) /\ toClient' = Tail(toClient)
      /\ m.kind = "AgreeFileUpload" /\ m.id \in Ids /\ m.id \in Keys
      /\ toClient \in Seq(ServerMessages) /\ queue \in Seq(Sharer)
  BY ToClient DEF UploadAgreed, Received, remote, Keys, Basic, Between, ClientSide
<1>2. /\ queue' = IF sharers[m.id] = None THEN queue ELSE Append(queue, sharers[m.id])
      /\ sharers[m.id] # None => sharers[m.id] \in Sharer
  BY <1>1 DEF UploadAgreed, Basic, ClientSide, Map
<1>3. \A i \in 1..Len(queue') :
        \/ \E j \in 1..Len(queue) : queue'[i] = queue[j]
        \/ sharers[m.id] # None /\ queue'[i] = sharers[m.id]
  <2>1. CASE sharers[m.id] = None
    BY <1>2, <2>1
  <2>2. CASE sharers[m.id] # None
    <3>1. queue' = Append(queue, sharers[m.id]) /\ sharers[m.id] \in Sharer
      BY <1>2, <2>2
    <3>2. \A i \in 1..Len(queue') :
            queue'[i] = sharers[m.id] \/ \E j \in 1..Len(queue) : queue'[i] = queue[j]
      BY <1>1, <3>1, SentMessages
    <3> QED BY <2>2, <3>2
  <2> QED BY <2>1, <2>2
<1>4. NothingSought'
  <2>1. \A i \in 1..Len(toClient') : \E j \in 1..Len(toClient) : toClient'[i] = toClient[j]
    BY <1>1, TakenMessages
  <2>2. \A key \in Keys : IsWrite(sharers'[key]) => sharers'[key] = sharers[key]
    BY DEF UploadAgreed, IsWrite
  <2>3. ASSUME sought' = {}, NEW i \in 1..Len(queue')
        PROVE  (\E j \in 1..Len(queue) : queue'[i].mode = queue[j].mode)
                 \/ queue'[i].mode = "read"
    <3>1. ~IsWrite(sharers[m.id])
      BY <1>1, <2>3 DEF Alone, NothingSought
    <3>2. sharers[m.id] # None => sharers[m.id].mode = "read"
      BY <1>2, <3>1, SharerFields DEF IsWrite
    <3> QED BY <1>3, <3>2
  <2> QED BY <1>1, <2>1, <2>2, <2>3, NothingSoughtKept DEF Alone
<1>5. ASSUME NamesAreNoNumbers, sought' = {}, NEW k \in Ids
      PROVE  Granted(k)'
  <2>1. Granted(k) /\ Protocol /\ Once(k)
    BY <1>1, <1>5 DEF Alone, Uploading, Protocol
  <2>2. permits(k) = permits(k)' + (IF Grants(m, k) THEN 1 ELSE 0) /\ permits(k)' \in Nat
    BY <1>1, ToClientTaken
  <2>3. chunks(k)' = chunks(k) /\ (Writing(k)' <=> Writing(k)) /\ chunks(k) \in Nat
    BY <1>1, CountsAreNats DEF chunks, Writing
  <2>4. CASE k = m.id
    <3>1. permits(k) > 0
      BY <1>1, <2>2, <2>4 DEF Grants
    <3>2. Writing(k) /\ chunks(k) = 0
      BY <2>1, <3>1 DEF Granted, Once
    <3> QED BY <2>3, <3>2 DEF Granted
  <2>5. CASE k # m.id
    <3>1. sharers[m.id] # None => sharers[m.id] \notin Turns(k)
      BY <1>1, <2>5 DEF Turns, Basic, ClientSide, ClientShape, IsRead
    <3>2. \A i \in 1..Len(queue') : queue'[i] \in Turns(k) =>
            \E j \in 1..Len(queue) : queue'[i] = queue[j]
      BY <1>3, <3>1
    <3>3. turns(k)' = turns(k)
      <4>1. CASE sharers[m.id] = None
        BY <1>2, <4>1 DEF turns
      <4>2. CASE sharers[m.id] # None
        <5>1. queue' = Append(queue, sharers[m.id]) /\ sharers[m.id] \in Sharer
          BY <1>2, <4>2
        <5>2. Count(queue', Turns(k)) =
                Count(queue, Turns(k)) + (IF sharers[m.id] \in Turns(k) THEN 1 ELSE 0)
          BY <1>1, <5>1, BeforeAppend
        <5>3. Count(queue, Turns(k)) \in Nat
          BY CountsAreNats DEF turns
        <5> QED BY <3>1, <4>2, <5>2, <5>3 DEF turns
      <4> QED BY <4>1, <4>2
    <3>4. permits(k)' <= permits(k) /\ turns(k)' <= turns(k) /\ chunks(k)' <= chunks(k)
      BY <2>2, <2>3, <3>3, CountsAreNats
    <3> QED BY <2>1, <2>3, <3>2, <3>4, GrantedKept
  <2> QED BY <2>4, <2>5
<1> QED BY <1>4, <1>5 DEF Alone

LEMMA SentAlone ==
  ASSUME Basic, Basic', Uploading, Alone, NEW i \in 1..Len(queue), NEW w \in Nat, ChunkSent(i, w)
  PROVE  Alone'
<1> DEFINE data == Portion(Original(queue[i].file), queue[i].written)
           m == Chunk(queue[i].id, data)
<1>1. /\ queue[i] \in Sharer /\ queue[i].id \in Ids /\ queue[i].written \in Nat
      /\ Size[queue[i].file] \in Nat /\ w = queue[i].written + Len(data)
      /\ Len(data) = (IF queue[i].written < Size[queue[i].file] THEN 1 ELSE 0)
      /\ m \in ClientMessages /\ toServer' = Append(toServer, m)
      /\ m.kind = "Chunk" /\ m.id = queue[i].id
  BY SentFacts DEF Chunk
<1> HIDE DEF m, data
<1>2. /\ client # "exited" /\ UNCHANGED <<offers, sought, sharers, toClient>>
      /\ queue[i].mode = "read"
      /\ queue \in Seq(Sharer) /\ queue' \in Seq(Sharer) /\ toServer \in Seq(ClientMessages)
  BY DEF ChunkSent, remote, past, Basic, ClientSide, Between
<1>3. \A j \in 1..Len(queue') :
        \/ \E n \in 1..Len(queue) : queue'[j] = queue[n]
        \/ /\ Len(queue') = Len(queue) /\ j = i /\ queue[i].size # w
           /\ Is(queue'[i], queue[i].file, "read", queue[i].name, queue[i].size, queue[i].id, w)
  <2>1. Len(queue) \in Nat
    BY <1>2
  <2>2. CASE queue' = queue
    BY <2>2
  <2>3. CASE /\ Len(queue') = Len(queue) - 1
             /\ \A j \in 1..(Len(queue) - 1) :
                  queue'[j] = IF j < i THEN queue[j] ELSE queue[j + 1]
    BY <2>1, <2>3
  <2>4. CASE /\ Len(queue') = Len(queue) /\ queue[i].size # w
             /\ Is(queue'[i], queue[i].file, "read", queue[i].name, queue[i].size, queue[i].id, w)
             /\ \A j \in 1..Len(queue) : j # i => queue'[j] = queue[j]
    BY <2>4
  <2> QED BY <2>2, <2>3, <2>4 DEF ChunkSent
<1>4. NothingSought'
  <2>1. \A j \in 1..Len(toServer') :
          \/ \E n \in 1..Len(toServer) : toServer'[j] = toServer[n]
          \/ toServer'[j].kind \in {"RequestFileUpload", "Chunk"}
    <3>1. \A j \in 1..Len(toServer') :
            toServer'[j] = m \/ \E n \in 1..Len(toServer) : toServer'[j] = toServer[n]
      BY <1>1, <1>2, SentMessages
    <3> QED BY <1>1, <3>1
  <2>2. \A j \in 1..Len(queue') :
          (\E n \in 1..Len(queue) : queue'[j].mode = queue[n].mode) \/ queue'[j].mode = "read"
    BY <1>3 DEF Is
  <2> QED BY <1>2, <2>1, <2>2, NothingSoughtKept DEF Alone
<1>5. ASSUME NamesAreNoNumbers, sought' = {}, client' # "exited", NEW k \in Ids
      PROVE  Granted(k)'
  <2>1. Granted(k) /\ Protocol /\ Once(k)
    BY <1>2, <1>5 DEF Alone, Uploading, Protocol
  <2>2. /\ permits(k)' = permits(k) /\ (Writing(k)' <=> Writing(k))
        /\ permits(k) \in Nat /\ turns(k) \in Nat /\ turns(k)' \in Nat
    BY <1>2, CountsAreNats, NextCountsAreNats DEF permits, Writing
  <2>3. turns(k)' <= turns(k) /\ (queue[i].id = k => turns(k) > 0)
    BY SentTurns
  <2>4. chunks(k)' = chunks(k) + (IF Carries(m, k) THEN 1 ELSE 0) /\ chunks(k) \in Nat
    BY <1>1, ToServerSent, CountsAreNats
  <2>5. CASE k # queue[i].id
    <3>1. chunks(k)' <= chunks(k) /\ permits(k)' <= permits(k)
      BY <1>1, <2>2, <2>4, <2>5 DEF Carries
    <3>2. \A j \in 1..Len(queue') : queue'[j] \in Turns(k) =>
            \E n \in 1..Len(queue) : queue'[j] = queue[n]
      BY <1>3, <2>5 DEF Turns, Is
    <3> QED BY <2>1, <2>2, <2>3, <3>1, <3>2, GrantedKept
  <2>6. CASE k = queue[i].id
    <3>1. Writing(k)'
      BY <2>1, <2>2, <2>3, <2>6 DEF Granted
    <3>2. turns(k) <= 1
      BY <2>1, <2>2, CountsAreNats DEF Once
    <3>3. ASSUME NEW j \in 1..Len(queue'), queue'[j] \in Turns(k) PROVE queue'[j].size # 0
      <4>1. CASE queue[i].size = w
        <5>1. /\ Len(queue') = Len(queue) - 1
              /\ \A n \in 1..(Len(queue) - 1) :
                   queue'[n] = IF n < i THEN queue[n] ELSE queue[n + 1]
          BY <1>5, <4>1 DEF ChunkSent
        <5>2. turns(k) = turns(k)' + (IF queue[i] \in Turns(k) THEN 1 ELSE 0)
          BY <5>1, TurnTaken
        <5>3. turns(k)' = 0
          <6>1. queue[i] \in Turns(k)
            BY <1>1, <1>2, <2>6 DEF Turns
          <6>2. turns(k) = turns(k)' + 1
            BY <5>2, <6>1, Zenon
          <6> QED BY <2>2, <3>2, <6>2
        <5>4. Count(queue', Turns(k)) > 0
          BY <1>2, <3>3, CountOne
        <5> QED BY <5>3, <5>4 DEF turns
      <4>2. CASE queue[i].size # w
        <5>1. /\ Len(queue') = Len(queue)
              /\ Is(queue'[i], queue[i].file, "read", queue[i].name, queue[i].size,
                    queue[i].id, w)
          BY <1>5, <4>2 DEF ChunkSent
        <5>2. queue'[i] \in Turns(k) /\ i \in 1..Len(queue')
          BY <2>6, <5>1 DEF Is, Turns
        <5>3. Count(queue', Turns(k)) <= 1
          BY <2>2, <2>3, <3>2 DEF turns
        <5>4. j = i
          BY <1>2, <3>3, <5>2, <5>3, CountTwo
        <5>5. queue[i].size = Size[queue[i].file] /\ queue[i].written <= queue[i].size
          BY <1>2, <1>5 DEF Basic, ClientSide, QueueShape
        <5>6. queue[i].size # 0
          BY <1>1, <4>2, <5>5
        <5> QED BY <5>1, <5>4, <5>6 DEF Is
      <4> QED BY <4>1, <4>2
    <3> QED BY <3>1, <3>3 DEF Granted
  <2> QED BY <2>5, <2>6
<1> QED BY <1>4, <1>5 DEF Alone

LEMMA GrantedAlone ==
  ASSUME Basic, Basic', Uploading, Alone, NEW m \in ClientMessages, UploadGranted(m)
  PROVE  Alone'
<1>1. /\ UNCHANGED <<client, queue, sharers, sought>>
      /\ toServer # <<>> /\ m = Head(toServer) /\ toServer' = Tail(toServer)
      /\ m.kind = "RequestFileUpload" /\ m.id \in Ids /\ m.id \in Keys /\ m.name \in Names
      /\ toServer \in Seq(ClientMessages) /\ toClient \in Seq(ServerMessages)
      /\ queue \in Seq(Sharer)
  BY ToServer DEF UploadGranted, Served, local, Keys, Basic, Between, ClientSide
<1> DEFINE answer == [kind |-> "AgreeFileUpload", id |-> m.id]
<1>2. /\ answer \in ServerMessages /\ toClient' = Append(toClient, answer)
      /\ answer.kind = "AgreeFileUpload" /\ answer.id = m.id
  BY <1>1 DEF UploadGranted, ServerMessages
<1> HIDE DEF answer
<1>3. NothingSought'
  <2>1. \A i \in 1..Len(toServer') : \E j \in 1..Len(toServer) : toServer'[i] = toServer[j]
    BY <1>1, TakenMessages
  <2>2. \A i \in 1..Len(toClient') :
          toClient'[i] = answer \/ \E j \in 1..Len(toClient) : toClient'[i] = toClient[j]
    BY <1>1, <1>2, SentMessages
  <2>3. \A i \in 1..Len(toClient') :
          \/ \E j \in 1..Len(toClient) : toClient'[i] = toClient[j]
          \/ toClient'[i].kind # "AgreeFileDownload"
    BY <1>2, <2>2
  <2> QED BY <1>1, <2>1, <2>3, NothingSoughtKept DEF Alone
<1>4. ASSUME NamesAreNoNumbers, sought' = {}, client' # "exited", NEW k \in Ids
      PROVE  Granted(k)'
  <2>1. Granted(k) /\ Protocol /\ Once(k) /\ k \in Keys
    BY <1>1, <1>4 DEF Alone, Uploading, Protocol, Keys
  <2>2. permits(k)' = permits(k) + (IF Grants(answer, k) THEN 1 ELSE 0)
    BY <1>2, ToClientSent
  <2>3. /\ asks(k) = asks(k)' + (IF Asks(m, k) THEN 1 ELSE 0)
        /\ chunks(k) = chunks(k)' + (IF Carries(m, k) THEN 1 ELSE 0)
        /\ asks(k)' \in Nat /\ chunks(k)' \in Nat
    BY <1>1, ToServerTaken
  <2>4. permits(k) \in Nat /\ turns(k) \in Nat /\ turns(k)' = turns(k)
    BY <1>1, CountsAreNats DEF turns
  <2>5. CASE k = m.id
    <3>1. asks(k) > 0
      BY <1>1, <2>3, <2>5 DEF Asks
    <3>2. chunks(k) = 0
      BY <2>1, <3>1 DEF Once
    <3>3. chunks(k)' = 0
      BY <2>3, <3>2
    <3>4. Writing(k)'
      BY <2>5 DEF UploadGranted, Writing, IsWrite, Is
    <3> QED BY <3>3, <3>4 DEF Granted
  <2>6. CASE k # m.id
    <3>1. permits(k)' <= permits(k) /\ turns(k)' <= turns(k) /\ chunks(k)' <= chunks(k)
      BY <1>2, <2>2, <2>3, <2>4, <2>6 DEF Grants
    <3>2. k # m.name
      BY <1>1, <1>4 DEF NamesAreNoNumbers
    <3>3. Writing(k) => Writing(k)'
      BY <2>1, <2>6, <3>2 DEF UploadGranted, Writing
    <3> QED BY <1>1, <2>1, <3>1, <3>3, GrantedKept
  <2> QED BY <2>5, <2>6
<1> QED BY <1>3, <1>4 DEF Alone

\* What a turn of a live upload says, while the server writes for it.
LEMMA TurnFacts ==
  ASSUME Basic, Uploading, Alone, sought = {}, client # "exited", NEW k \in Ids, Writing(k),
         NEW j \in 1..Len(queue), queue[j] \in Turns(k)
  PROVE  /\ k < Len(asked) /\ queue[j].size = Size[asked[k + 1].path]
         /\ queue[j].written = offers[k].written + pieces(k)
         /\ queue[j].written < queue[j].size \/ queue[j].size = 0
<1>1. k < Len(asked)
  BY SinkFacts DEF Uploading
<1>2. ~Dying(k)
  BY DEF Dying, Agrees, Alone, NothingSought
<1>3. Sources(k) /\ Alive(k)
  BY <1>2 DEF Uploading, Alive
<1> QED BY <1>1, <1>3 DEF Sources, Source

LEMMA StoredAlone ==
  ASSUME Basic, Basic', Uploading, Alone, NEW m \in ClientMessages, ChunkStored(m)
  PROVE  Alone'
<1>1. /\ UNCHANGED <<client, queue, sharers, sought, toClient>>
      /\ toServer # <<>> /\ m = Head(toServer) /\ toServer' = Tail(toServer)
      /\ m.kind = "Chunk" /\ m.id \in Ids /\ m.id \in Keys
      /\ queue \in Seq(Sharer)
  BY ToServer DEF ChunkStored, Served, local, Keys, Basic, ClientSide
<1>2. ASSUME NamesAreNoNumbers, sought' = {}, client # "exited", NEW k \in Ids,
             Writing(k), ~Writing(k)'
      PROVE  permits(k) = 0 /\ turns(k) = 0
  <2>1. k = m.id
    BY <1>2 DEF ChunkStored, Writing, Keys
  <2>2. /\ chunks(k) = chunks(k)' + (IF Carries(m, k) THEN 1 ELSE 0)
        /\ pieces(k) = pieces(k)' + (IF Carries(m, k) /\ m.data # <<>> THEN 1 ELSE 0)
        /\ chunks(k)' \in Nat /\ pieces(k)' \in Nat
        /\ Len(toServer) \in Nat \ {0} /\ toServer[1] = m
    BY <1>1, ToServerTaken
  <2>3. chunks(k) > 0
    BY <1>1, <2>1, <2>2 DEF Carries
  <2>4. Protocol /\ Once(k) /\ Granted(k) /\ Sinks(k)
    BY <1>1, <1>2 DEF Uploading, Protocol, Alone
  <2>5. permits(k) \in Nat /\ turns(k) \in Nat
    BY CountsAreNats
  <2>6. permits(k) = 0
    BY <2>3, <2>4, <2>5 DEF Once
  <2>7. ASSUME turns(k) # 0 PROVE FALSE
    <3>1. PICK j \in 1..Len(queue) : queue[j] \in Turns(k)
      BY <1>1, <2>7, CountSome DEF turns
    <3>2. /\ queue[j].size = Size[asked[k + 1].path]
          /\ queue[j].written = offers[k].written + pieces(k)
          /\ queue[j].written < queue[j].size \/ queue[j].size = 0
      BY <1>1, <1>2, <3>1, TurnFacts
    <3>3. queue[j].size # 0
      BY <2>3, <2>4, <3>1 DEF Granted
    <3>4. /\ offers[k] \in Sharer /\ offers[k].written \in Nat /\ offers[k].size \in Nat
          /\ Original(asked[k + 1].path) \in Seq(Piece)
          /\ Len(Original(asked[k + 1].path)) = Size[asked[k + 1].path]
      BY <1>2, <2>4, SinkFacts
    <3>5. offers[k].size = Size[asked[k + 1].path] /\ offers[k].written < offers[k].size
      BY <1>2, <2>4, <3>2, <3>3 DEF Sinks
    <3>6. m.data = Portion(Original(asked[k + 1].path), offers[k].written)
      <4>1. Before(toServer, Pieces(k), 1) = 0
        BY NoneBefore
      <4>2. Carries(toServer[1], k) /\ 1 \in 1..Len(toServer)
        BY <1>1, <2>1, <2>2 DEF Carries
      <4>3. m.data = Portion(Original(asked[k + 1].path), offers[k].written + 0)
        BY <1>2, <2>2, <2>4, <4>1, <4>2 DEF Sinks, Continues
      <4> QED BY <3>4, <4>3
    <3>7. Accepted(offers[k], m.data) = m.data /\ Len(m.data) = 1 /\ m.data # <<>>
      <4> DEFINE s == offers[k]
                 c == Original(asked[k + 1].path)
      <4>1. /\ s \in Sharer /\ c \in Seq(Piece) /\ s.size = Len(c) /\ s.written < s.size
            /\ s.size \in Nat /\ s.written \in Nat /\ m.data = Portion(c, s.written)
        BY <3>4, <3>5, <3>6
      <4> HIDE DEF s, c
      <4>2. s.written <= s.size
        BY <4>1
      <4>3. Accepted(s, m.data) = m.data /\ Len(m.data) = (IF m.data # <<>> THEN 1 ELSE 0)
        BY <4>1, <4>2, PortionAccepted
      <4>4. Len(m.data) = 1
        BY <4>1, PortionFacts
      <4>5. m.data # <<>>
        BY <4>3, <4>4
      <4> QED BY <4>3, <4>4, <4>5 DEF s
    <3>8. pieces(k) >= 1
      BY <1>1, <2>1, <2>2, <3>7 DEF Carries
    <3>9. ~(offers[k].written + 1 >= offers[k].size)
      BY <2>2, <3>2, <3>3, <3>4, <3>5, <3>8
    <3>10. Is(offers'[k], offers[k].file, "write", offers[k].name, offers[k].size, offers[k].id,
              offers[k].written + 1)
      BY <2>1, <3>7, <3>9 DEF ChunkStored
    <3> QED BY <1>2, <3>10 DEF Writing, IsWrite, Is
  <2> QED BY <2>6, <2>7
<1>3. sought' = {} /\ NamesAreNoNumbers /\ client # "exited" =>
        \A k \in Ids : Writing(k) => Writing(k)' \/ (permits(k) = 0 /\ turns(k) = 0)
  BY <1>2
<1> QED BY <1>1, <1>3, PassedAlone

LEMMA AloneStep == ASSUME Basic, Basic', Uploading, Alone, Step PROVE Alone'
<1>1. CASE OfClient
  BY <1>1, QuietAlone, PartAlone, BeginsAlone, DownloadBeginsAlone, ReceivedAlone, AgreedAlone, SentAlone
     DEF OfClient
<1>2. CASE OfServer
  BY <1>2, QuietAlone, ServedAlone, GrantedAlone, StoredAlone DEF OfServer
<1> QED BY <1>1, <1>2 DEF Step

LEMMA InitAlone == Init => Alone
<1> SUFFICES ASSUME Init PROVE Alone
  OBVIOUS
<1>1. Len(toServer) = 0 /\ Len(toClient) = 0 /\ Len(queue) = 0
  BY DEF Init
<1>2. \A k : permits(k) = 0 /\ turns(k) = 0 /\ chunks(k) = 0
  BY <1>1, NoneBefore DEF permits, turns, chunks, Count
<1>3. \A key \in Keys : ~IsWrite(sharers[key])
  BY DEF Init, IsWrite
<1> QED BY <1>1, <1>2, <1>3 DEF Alone, NothingSought, Granted

LEMMA AloneIsKept == Spec => []Alone
<1>1. Basic /\ Basic' /\ Uploading /\ Alone /\ [Next]_vars => Alone'
  BY Steps, AloneStep
<1> QED BY InitAlone, <1>1, BasicHolds, UploadsArrive, PTL DEF Spec

LEMMA AloneIsAccountedFor ==
  ASSUME Basic, Uploading, Alone, NamesAreNoNumbers
  PROVE  SentIsAccountedFor
<1> SUFFICES ASSUME client # "exited", sought = {}, NEW n \in 1..Len(queue)
             PROVE  LET underway == {i \in 1..Len(toServer) :
                          /\ toServer[i].kind = "Chunk" /\ toServer[i].id = queue[n].id
                          /\ toServer[i].data # <<>>}
                    IN  /\ offers[queue[n].id] # None
                        /\ queue[n].written =
                             offers[queue[n].id].written + Cardinality(underway)
  BY DEF SentIsAccountedFor
<1> DEFINE k == queue[n].id
<1>1. /\ queue \in Seq(Sharer) /\ queue[n].mode = "read" /\ k \in Ids /\ queue[n] \in Sharer
      /\ toServer \in Seq(ClientMessages) /\ Len(toServer) \in Nat
  BY DEF Alone, NothingSought, Basic, ClientSide, QueueShape, Between
<1>2. queue[n] \in Turns(k)
  BY <1>1 DEF Turns
<1> HIDE DEF k
<1>3. turns(k) > 0
  BY <1>1, <1>2, CountOne DEF turns
<1>4. Writing(k)
  BY <1>1, <1>3 DEF Alone, Granted
<1>5. queue[n].written = offers[k].written + pieces(k)
  BY <1>1, <1>2, <1>4, TurnFacts
<1>6. {i \in 1..Len(toServer) :
         /\ toServer[i].kind = "Chunk" /\ toServer[i].id = k /\ toServer[i].data # <<>>}
        = {i \in 1..((Len(toServer) + 1) - 1) : toServer[i] \in Pieces(k)}
  <2>1. (Len(toServer) + 1) - 1 = Len(toServer)
    BY <1>1
  <2>2. \A i \in 1..Len(toServer) :
          toServer[i] \in Pieces(k) <=>
            toServer[i].kind = "Chunk" /\ toServer[i].id = k /\ toServer[i].data # <<>>
    BY <1>1, ToServer DEF Carries
  <2> QED BY <2>1, <2>2
<1> QED BY <1>4, <1>5, <1>6 DEF pieces, Count, Before, Writing, IsWrite, k

\* While nothing is downloaded, the position of an upload in the client
\* (process_sending_sharers) is that in the server plus what is underway, also
\* after writes that the socket refused, wholly or in part, until the server reads
\* what it had taken of a chunk.
THEOREM SentIsAccounted == ASSUME NamesAreNoNumbers PROVE Spec => []SentIsAccountedFor
<1>1. Basic /\ Uploading /\ Alone => SentIsAccountedFor
  BY AloneIsAccountedFor
<1> QED BY <1>1, BasicHolds, UploadsArrive, AloneIsKept, PTL

-----------------------------------------------------------------------------
(* The files of the server only grow *)

Grown ==
  \A name \in Names : store[name] # None =>
    /\ store'[name] # None
    /\ Len(store[name]) <= Len(store'[name])
    /\ \A n \in 1..Len(store[name]) : store'[name][n] = store[name][n]

\* What the files of the server hold.
LEMMA StoreFacts ==
  ASSUME Basic, NEW name \in Names, store[name] # None
  PROVE  store[name] \in Seq(Piece) /\ Len(store[name]) \in Nat
BY DEF Basic, ServerSide

LEMMA StoreUnchanged == ASSUME Basic, UNCHANGED store PROVE Grown
BY StoreFacts DEF Grown

LEMMA StoredGrows ==
  ASSUME Basic, Uploading, NEW m \in ClientMessages, ChunkStored(m) PROVE Grown
<1>1. PICK file \in Names, path \in Paths, w \in Nat : Filling(file, Original(path), w)
  BY StoredContent
<1> DEFINE c == Original(path)
           n == w + Len(Portion(c, w))
<1>2. /\ c \in Seq(Piece) /\ Len(c) \in Nat /\ w \in 0..Len(c) /\ n \in 0..Len(c) /\ w <= n
      /\ store'[file] = Begun(c, n) /\ store[file] = Begun(c, w)
      /\ \A other \in Names \ {file} : store'[other] = store[other]
  <2>1. /\ c \in Seq(Piece) /\ Len(c) \in Nat /\ w \in 0..Len(c) /\ n \in 0..Len(c)
        /\ n = (IF w < Len(c) THEN w + 1 ELSE w) /\ store'[file] = Begun(c, n)
        /\ \A other \in Names \ {file} : store'[other] = store[other]
    BY <1>1, FillingFacts
  <2>2. store[file] = Begun(c, w)
    BY <1>1 DEF Filling
  <2> HIDE DEF c, n
  <2> QED BY <2>1, <2>2
<1> HIDE DEF c, n
<1>3. /\ Begun(c, n) \in Seq(Piece) /\ Len(Begun(c, n)) = n /\ Len(Begun(c, w)) = w
      /\ \A j \in 1..w : Begun(c, n)[j] = Begun(c, w)[j]
  <2>1. /\ Begun(c, n) \in Seq(Piece) /\ Len(Begun(c, n)) = n
        /\ \A j \in 1..n : Begun(c, n)[j] = c[j]
    BY <1>2, BegunFacts
  <2>2. Len(Begun(c, w)) = w /\ \A j \in 1..w : Begun(c, w)[j] = c[j]
    BY <1>2, BegunFacts
  <2> QED BY <1>2, <2>1, <2>2
<1>4. Begun(c, n) # None
  BY <1>3, TransferAssumption
<1>5. ASSUME NEW name \in Names, store[name] # None
      PROVE  /\ store'[name] # None
             /\ Len(store[name]) <= Len(store'[name])
             /\ \A j \in 1..Len(store[name]) : store'[name][j] = store[name][j]
  <2>1. CASE name = file
    BY <1>2, <1>3, <1>4, <2>1
  <2>2. CASE name # file
    BY <1>2, <1>5, <2>2, StoreFacts
  <2> QED BY <2>1, <2>2
<1> QED BY <1>5 DEF Grown

LEMMA StoreGrows == ASSUME Basic, Uploading, Step PROVE Grown
<1>1. ASSUME NEW m \in ClientMessages, UploadGranted(m) PROVE Grown
  <2>1. store[m.name] = None /\ store' = [store EXCEPT ![m.name] = <<>>]
    BY <1>1 DEF UploadGranted
  <2>2. \A name \in Names : store[name] # None => store'[name] = store[name]
    BY <2>1 DEF Basic, ServerSide
  <2> QED BY <2>2, StoreFacts DEF Grown
<1>2. ASSUME NEW m \in ClientMessages,
             \/ UploadRefused(m) \/ DownloadRefused(m) \/ DownloadGranted(m)
             \/ SenderStarts(m) \/ ChunkDropped(m)
      PROVE  UNCHANGED store
  BY <1>2 DEF UploadRefused, DownloadRefused, DownloadGranted, SenderStarts, ChunkDropped, remote
<1>3. ASSUME NEW s \in Sharer, NEW t \in Sharer, ChunkForwarded(s, t) PROVE UNCHANGED store
  BY <1>3 DEF ChunkForwarded
<1>4. ASSUME NEW s \in Sharer, SenderStops(s) PROVE UNCHANGED store
  BY <1>4 DEF SenderStops
<1>5. CASE OfServer
  BY <1>1, <1>2, <1>3, <1>4, <1>5, StoredGrows, StoreUnchanged DEF OfServer
<1>6. CASE OfClient
  <2>1. ASSUME NEW m \in ServerMessages, Received(m) PROVE UNCHANGED store
    BY <2>1 DEF Received, remote
  <2>2. UNCHANGED store
    BY <1>6, <2>1, PartFacts DEF OfClient, Quiet, CommandTyped, UploadBegins, DownloadBegins, Commanded,
         ChunkIgnored, ChunkSaved, UploadAgreed, UploadDeclined, DownloadOffered,
         DownloadDeclined, ChunkSent, remote
  <2> QED BY <2>2, StoreUnchanged
<1> QED BY <1>5, <1>6 DEF Step

-----------------------------------------------------------------------------
(* Downloads, if no name is a number *)

\* What was there of a file is there afterwards.
LEMMA GrownFacts ==
  ASSUME Basic, Basic', Grown, NEW name \in Names, store[name] # None
  PROVE  /\ \A w \in 0..Len(store[name]) : Begun(store'[name], w) = Begun(store[name], w)
         /\ \A w \in Nat : w < Len(store[name]) =>
              Portion(store'[name], w) = Portion(store[name], w)
         /\ name \in Stored => store'[name] = store[name]
<1> DEFINE c == store[name]
           d == store'[name]
<1>1. /\ Len(c) \in Nat /\ d # None /\ Len(c) <= Len(d) /\ \A n \in 1..Len(c) : d[n] = c[n]
  BY StoreFacts DEF Grown
<1>2. Len(d) \in Nat
  BY <1>1 DEF Basic, ServerSide
<1>3. name \in Stored => d = c
  BY DEF Basic, ServerSide, StoredIsKept
<1> HIDE DEF c, d
<1>4. ASSUME NEW w \in 0..Len(c) PROVE Begun(d, w) = Begun(c, w)
  <2>1. \A n \in 1..w : d[n] = c[n]
    BY <1>1
  <2> QED BY <2>1 DEF Begun
<1>5. ASSUME NEW w \in Nat, w < Len(c) PROVE Portion(d, w) = Portion(c, w)
  <2>1. w < Len(d) /\ d[w + 1] = c[w + 1]
    BY <1>1, <1>2, <1>5
  <2> QED BY <1>5, <2>1 DEF Portion
<1> QED BY <1>3, <1>4, <1>5 DEF c, d

-----------------------------------------------------------------------------
(* A download is in one place at a time *)

Offers(k)     == {m \in ServerMessages : Agrees(m, k)}
Agreements(k) == {m \in ClientMessages : Agrees(m, k)}
Arrivals(k)   == {m \in ServerMessages : Carries(m, k)}

offered(k)  == Count(toClient, Offers(k))
agreeing(k) == Count(toServer, Agreements(k))
coming(k)   == Count(toClient, Arrivals(k))
arriving(k) == Count(toClient, Pieces(k))

Threads(k) == {s \in senders : s.id = k}
Saving(k)  == IsWrite(sharers[k])

\* It is offered once, agreed to once and sent by one thread; nothing is sent
\* before it is agreed to.
Fetching(k) ==
  /\ offered(k) + agreeing(k) <= 1
  /\ k >= free => /\ offered(k) = 0 /\ agreeing(k) = 0 /\ coming(k) = 0
                  /\ Threads(k) = {} /\ ~Saving(k)
  /\ offered(k) > 0 => coming(k) = 0 /\ Threads(k) = {} /\ ~Saving(k)
  /\ agreeing(k) > 0 => coming(k) = 0 /\ Threads(k) = {} /\ (Saving(k) => sharers[k].written = 0)
  /\ \A s, t \in Threads(k) : s = t

LEMMA OffersAreNats ==
  ASSUME Basic
  PROVE  \A k : offered(k) \in Nat /\ agreeing(k) \in Nat /\ coming(k) \in Nat
                /\ arriving(k) \in Nat
BY CountType DEF Basic, Between, offered, agreeing, coming, arriving

LEMMA NextOffersAreNats ==
  ASSUME Basic'
  PROVE  \A k : offered(k)' \in Nat /\ agreeing(k)' \in Nat /\ coming(k)' \in Nat
                /\ arriving(k)' \in Nat
BY CountType DEF Basic, Between, offered, agreeing, coming, arriving

LEMMA AgreementSent ==
  ASSUME Basic, NEW m \in ClientMessages, toServer' = Append(toServer, m), NEW k
  PROVE  agreeing(k)' = agreeing(k) + (IF Agrees(m, k) THEN 1 ELSE 0)
BY BeforeAppend DEF agreeing, Agreements, Basic, Between

LEMMA AgreementTaken ==
  ASSUME Basic, toServer # <<>>, NEW m \in ClientMessages, m = Head(toServer),
         toServer' = Tail(toServer), NEW k
  PROVE  /\ agreeing(k) = agreeing(k)' + (IF Agrees(m, k) THEN 1 ELSE 0)
         /\ agreeing(k)' \in Nat
<1>1. toServer \in Seq(ClientMessages) /\ toServer' \in Seq(ClientMessages)
  BY DEF Basic, Between
<1>2. agreeing(k)' \in Nat
  BY <1>1, CountType DEF agreeing
<1>3. agreeing(k) = agreeing(k)' + (IF m \in Agreements(k) THEN 1 ELSE 0)
  BY <1>1, BeforeTail DEF agreeing
<1> QED BY <1>2, <1>3 DEF Agreements

LEMMA AnswerSent ==
  ASSUME Basic, NEW m \in ServerMessages, toClient' = Append(toClient, m), NEW k
  PROVE  /\ offered(k)' = offered(k) + (IF Agrees(m, k) THEN 1 ELSE 0)
         /\ coming(k)' = coming(k) + (IF Carries(m, k) THEN 1 ELSE 0)
         /\ arriving(k)' = arriving(k) + (IF Carries(m, k) /\ m.data # <<>> THEN 1 ELSE 0)
         /\ Len(toClient') = Len(toClient) + 1 /\ toClient'[Len(toClient) + 1] = m
         /\ Len(toClient) \in Nat
         /\ \A i \in 1..Len(toClient) : toClient'[i] = toClient[i]
         /\ \A i \in 1..(Len(toClient) + 1) : \A S : Before(toClient', S, i) = Before(toClient, S, i)
<1>1. toClient \in Seq(ServerMessages)
  BY DEF Basic, Between
<1>2. \A S : /\ Count(toClient', S) = Count(toClient, S) + (IF m \in S THEN 1 ELSE 0)
             /\ \A i \in 1..(Len(toClient) + 1) : Before(toClient', S, i) = Before(toClient, S, i)
  BY <1>1, BeforeAppend
<1>3. /\ Len(toClient') = Len(toClient) + 1 /\ toClient'[Len(toClient) + 1] = m
      /\ Len(toClient) \in Nat
      /\ \A i \in 1..Len(toClient) : toClient'[i] = toClient[i]
  BY <1>1, AppendProperties
<1>4. m \in Pieces(k) <=> Carries(m, k) /\ m.data # <<>>
  BY ToClient
<1> QED BY <1>2, <1>3, <1>4 DEF offered, coming, arriving, Offers, Arrivals

LEMMA AnswerTaken ==
  ASSUME Basic, toClient # <<>>, NEW m \in ServerMessages, m = Head(toClient),
         toClient' = Tail(toClient), NEW k
  PROVE  /\ offered(k) = offered(k)' + (IF Agrees(m, k) THEN 1 ELSE 0)
         /\ coming(k) = coming(k)' + (IF Carries(m, k) THEN 1 ELSE 0)
         /\ arriving(k) = arriving(k)' + (IF Carries(m, k) /\ m.data # <<>> THEN 1 ELSE 0)
         /\ offered(k)' \in Nat /\ coming(k)' \in Nat /\ arriving(k)' \in Nat
         /\ Len(toClient) \in Nat \ {0} /\ Len(toClient') = Len(toClient) - 1 /\ toClient[1] = m
         /\ \A i \in 1..Len(toClient') : toClient'[i] = toClient[i + 1]
         /\ \A i \in 1..Len(toClient) : \A S :
              Before(toClient, S, i + 1) = Before(toClient', S, i) + (IF m \in S THEN 1 ELSE 0)
<1>1. toClient \in Seq(ServerMessages)
  BY DEF Basic, Between
<1>2. \A S : /\ Count(toClient, S) = Count(toClient', S) + (IF m \in S THEN 1 ELSE 0)
             /\ \A i \in 1..Len(toClient) :
                  Before(toClient, S, i + 1) = Before(toClient', S, i) + (IF m \in S THEN 1 ELSE 0)
  BY <1>1, BeforeTail
<1>3. /\ Len(toClient) \in Nat \ {0} /\ Len(toClient') = Len(toClient) - 1 /\ toClient[1] = m
      /\ \A i \in 1..Len(toClient') : toClient'[i] = toClient[i + 1]
      /\ toClient' \in Seq(ServerMessages)
  BY <1>1, HeadTailProperties, EmptySeq
<1>4. m \in Pieces(k) <=> Carries(m, k) /\ m.data # <<>>
  BY ToClient
<1>5. offered(k)' \in Nat /\ coming(k)' \in Nat /\ arriving(k)' \in Nat
  BY <1>3, CountType DEF offered, coming, arriving
<1> QED BY <1>2, <1>3, <1>4, <1>5 DEF offered, coming, arriving, Offers, Arrivals

-----------------------------------------------------------------------------

\* Nothing new happens to a download.
LEMMA FetchingKept ==
  ASSUME Basic, Basic', NEW k \in Ids, Fetching(k),
         free' >= free,
         offered(k)' <= offered(k), agreeing(k)' <= agreeing(k), coming(k)' <= coming(k),
         Threads(k)' \subseteq Threads(k),
         Saving(k)' => Saving(k) /\ (sharers'[k] = sharers[k] \/ coming(k) > 0)
  PROVE  Fetching(k)'
<1>1. /\ offered(k) \in Nat /\ agreeing(k) \in Nat /\ coming(k) \in Nat
      /\ offered(k)' \in Nat /\ agreeing(k)' \in Nat /\ coming(k)' \in Nat
      /\ free \in Nat /\ free' \in Nat /\ k \in Nat
  BY OffersAreNats, NextOffersAreNats DEF Basic, Numbers, Ids
<1>2. offered(k)' + agreeing(k)' <= 1
  BY <1>1 DEF Fetching
<1>3. k >= free' => /\ offered(k)' = 0 /\ agreeing(k)' = 0 /\ coming(k)' = 0
                    /\ Threads(k)' = {} /\ ~Saving(k)'
  <2>1. k >= free' => k >= free
    BY <1>1
  <2>2. /\ offered(k) = 0 => offered(k)' = 0
        /\ agreeing(k) = 0 => agreeing(k)' = 0
        /\ coming(k) = 0 => coming(k)' = 0
    BY <1>1
  <2> QED BY <2>1, <2>2 DEF Fetching
<1>4. coming(k) = 0 => coming(k)' = 0
  BY <1>1
<1>5. offered(k)' > 0 => coming(k)' = 0 /\ Threads(k)' = {} /\ ~Saving(k)'
  BY <1>1, <1>4 DEF Fetching
<1>6. agreeing(k)' > 0 =>
        coming(k)' = 0 /\ Threads(k)' = {} /\ (Saving(k)' => sharers'[k].written = 0)
  BY <1>1, <1>4 DEF Fetching
<1>7. \A s, t \in Threads(k)' : s = t
  BY DEF Fetching
<1> QED BY <1>2, <1>3, <1>5, <1>6, <1>7 DEF Fetching

\* A message passes that is nothing to the k-th download, or one is taken.
Passed(k) ==
  /\ \/ UNCHANGED toServer
     \/ \E m \in ClientMessages : ~Agrees(m, k) /\ toServer' = Append(toServer, m)
     \/ \E m \in ClientMessages :
          toServer # <<>> /\ m = Head(toServer) /\ toServer' = Tail(toServer)
  /\ \/ UNCHANGED toClient
     \/ \E m \in ServerMessages :
          ~Agrees(m, k) /\ ~Carries(m, k) /\ toClient' = Append(toClient, m)
     \/ \E m \in ServerMessages :
          toClient # <<>> /\ m = Head(toClient) /\ toClient' = Tail(toClient)

LEMMA PassedCounts ==
  ASSUME Basic, NEW k, Passed(k)
  PROVE  offered(k)' <= offered(k) /\ agreeing(k)' <= agreeing(k) /\ coming(k)' <= coming(k)
<1>1. offered(k) \in Nat /\ agreeing(k) \in Nat /\ coming(k) \in Nat
  BY OffersAreNats
<1>2. agreeing(k)' <= agreeing(k)
  <2>1. CASE UNCHANGED toServer
    BY <1>1, <2>1 DEF agreeing
  <2>2. ASSUME NEW m \in ClientMessages, ~Agrees(m, k), toServer' = Append(toServer, m)
        PROVE  agreeing(k)' <= agreeing(k)
    <3>1. agreeing(k)' = agreeing(k) + (IF Agrees(m, k) THEN 1 ELSE 0)
      BY <2>2, AgreementSent
    <3> QED BY <1>1, <2>2, <3>1
  <2>3. ASSUME NEW m \in ClientMessages, toServer # <<>>, m = Head(toServer),
               toServer' = Tail(toServer)
        PROVE  agreeing(k)' <= agreeing(k)
    <3>1. agreeing(k) = agreeing(k)' + (IF Agrees(m, k) THEN 1 ELSE 0) /\ agreeing(k)' \in Nat
      BY <2>3, AgreementTaken
    <3> QED BY <3>1
  <2> QED BY <2>1, <2>2, <2>3 DEF Passed
<1>3. offered(k)' <= offered(k) /\ coming(k)' <= coming(k)
  <2>1. CASE UNCHANGED toClient
    BY <1>1, <2>1 DEF offered, coming
  <2>2. ASSUME NEW m \in ServerMessages, ~Agrees(m, k), ~Carries(m, k),
               toClient' = Append(toClient, m)
        PROVE  offered(k)' <= offered(k) /\ coming(k)' <= coming(k)
    <3>1. /\ offered(k)' = offered(k) + (IF Agrees(m, k) THEN 1 ELSE 0)
          /\ coming(k)' = coming(k) + (IF Carries(m, k) THEN 1 ELSE 0)
      BY <2>2, AnswerSent
    <3> QED BY <1>1, <2>2, <3>1
  <2>3. ASSUME NEW m \in ServerMessages, toClient # <<>>, m = Head(toClient),
               toClient' = Tail(toClient)
        PROVE  offered(k)' <= offered(k) /\ coming(k)' <= coming(k)
    <3>1. /\ offered(k) = offered(k)' + (IF Agrees(m, k) THEN 1 ELSE 0)
          /\ coming(k) = coming(k)' + (IF Carries(m, k) THEN 1 ELSE 0)
          /\ offered(k)' \in Nat /\ coming(k)' \in Nat
      BY <2>3, AnswerTaken
    <3> QED BY <3>1
  <2> QED BY <2>1, <2>2, <2>3 DEF Passed
<1> QED BY <1>2, <1>3

LEMMA PassedFetching ==
  ASSUME Basic, Basic', NEW k \in Ids, Fetching(k), Passed(k),
         free' >= free, Threads(k)' \subseteq Threads(k),
         Saving(k)' => Saving(k) /\ (sharers'[k] = sharers[k] \/ coming(k) > 0)
  PROVE  Fetching(k)'
BY PassedCounts, FetchingKept

\* What is offered is what the server has.
OfferShape(i) ==
  toClient[i].kind = "AgreeFileDownload" =>
    LET m == toClient[i] IN
    /\ store[m.name] # None /\ m.size <= Len(store[m.name])
    /\ m.name \in Stored => m.size = Len(store[m.name])
    /\ IsRead(offers[m.id]) => offers[m.id].file = m.name /\ offers[m.id].size = m.size

\* What comes under the number continues what the client has of the file, and the
\* thread that sends it goes on from there.
Follows(k, s) ==
  /\ \A t \in Threads(k) : t.mode = "read" =>
       t.file = s.name /\ t.size = s.size /\ t.written = s.written + arriving(k)
  /\ \A i \in 1..Len(toClient) : Carries(toClient[i], k) =>
       /\ s.written + Before(toClient, Pieces(k), i) < s.size
       /\ toClient[i].data =
            Portion(store[s.name], s.written + Before(toClient, Pieces(k), i))

Copies(k, s) ==
  /\ s.id = k
  /\ store[s.name] # None /\ s.size <= Len(store[s.name])
  /\ s.name \in Stored => s.size = Len(store[s.name])
  /\ s.written < s.size \/ s.size = 0
  /\ IsRead(offers[k]) => offers[k].file = s.name /\ offers[k].size = s.size

Receiving(k) == Saving(k) => Copies(k, sharers[k]) /\ Follows(k, sharers[k])

\* What waits for an answer is filed under its name.
Waiting(name) == Saving(name) => sharers[name].name = name

Fetches ==
  /\ \A k \in Ids : Fetching(k) /\ Receiving(k)
  /\ \A i \in 1..Len(toClient) : OfferShape(i)
  /\ \A name \in Names : Waiting(name)

LEMMA SavingFacts ==
  ASSUME Basic, NEW key \in Keys, Saving(key)
  PROVE  /\ sharers[key] \in Sharer /\ sharers[key].name \in Names /\ sharers[key].size \in Nat
         /\ sharers[key].written \in Nat /\ sharers[key].id \in Nat
         /\ sharers[key].mode = "write" /\ sharers[key].file \in Places
         /\ [name |-> sharers[key].name, place |-> sharers[key].file] \in Downloads
         /\ home[sharers[key].file] # None
         /\ NamesAreNoNumbers => sharers[key].written <= sharers[key].size
<1>1. sharers[key] \in Sharer /\ ClientShape(key)
  BY DEF Saving, IsWrite, Basic, ClientSide, Map
<1> QED BY <1>1, SharerFields DEF Saving, IsWrite, ClientShape

\* Of what is on its way under the number, nothing is taken and nothing is new.
LEMMA ArrivalsKept ==
  ASSUME Basic, NEW k,
         \/ UNCHANGED toClient
         \/ \E m \in ServerMessages : ~Carries(m, k) /\ toClient' = Append(toClient, m)
         \/ \E m \in ServerMessages :
              ~Carries(m, k) /\ toClient # <<>> /\ m = Head(toClient) /\ toClient' = Tail(toClient)
  PROVE  /\ arriving(k)' = arriving(k)
         /\ \A i \in 1..Len(toClient') : Carries(toClient'[i], k) =>
              \E j \in 1..Len(toClient) :
                /\ toClient'[i] = toClient[j]
                /\ Before(toClient', Pieces(k), i) = Before(toClient, Pieces(k), j)
<1>1. arriving(k) \in Nat /\ toClient \in Seq(ServerMessages)
  BY OffersAreNats DEF Basic, Between
<1>2. CASE UNCHANGED toClient
  BY <1>2 DEF arriving
<1>3. ASSUME NEW m \in ServerMessages, ~Carries(m, k), toClient' = Append(toClient, m)
      PROVE  /\ arriving(k)' = arriving(k)
             /\ \A i \in 1..Len(toClient') : Carries(toClient'[i], k) =>
                  \E j \in 1..Len(toClient) :
                    /\ toClient'[i] = toClient[j]
                    /\ Before(toClient', Pieces(k), i) = Before(toClient, Pieces(k), j)
  <2>1. /\ arriving(k)' = arriving(k) + (IF Carries(m, k) /\ m.data # <<>> THEN 1 ELSE 0)
        /\ Len(toClient') = Len(toClient) + 1 /\ toClient'[Len(toClient) + 1] = m
        /\ Len(toClient) \in Nat
        /\ \A i \in 1..Len(toClient) : toClient'[i] = toClient[i]
        /\ \A i \in 1..(Len(toClient) + 1) : \A S : Before(toClient', S, i) = Before(toClient, S, i)
    BY <1>3, AnswerSent
  <2>2. \A i \in 1..Len(toClient') : Carries(toClient'[i], k) => i \in 1..Len(toClient)
    BY <1>3, <2>1
  <2>3. \A i \in 1..Len(toClient) :
          Before(toClient', Pieces(k), i) = Before(toClient, Pieces(k), i)
    BY <2>1
  <2> QED BY <1>1, <1>3, <2>1, <2>2, <2>3
<1>4. ASSUME NEW m \in ServerMessages, ~Carries(m, k), toClient # <<>>, m = Head(toClient),
             toClient' = Tail(toClient)
      PROVE  /\ arriving(k)' = arriving(k)
             /\ \A i \in 1..Len(toClient') : Carries(toClient'[i], k) =>
                  \E j \in 1..Len(toClient) :
                    /\ toClient'[i] = toClient[j]
                    /\ Before(toClient', Pieces(k), i) = Before(toClient, Pieces(k), j)
  <2>1. /\ arriving(k) = arriving(k)' + (IF Carries(m, k) /\ m.data # <<>> THEN 1 ELSE 0)
        /\ arriving(k)' \in Nat
        /\ Len(toClient) \in Nat \ {0} /\ Len(toClient') = Len(toClient) - 1
        /\ \A i \in 1..Len(toClient') : toClient'[i] = toClient[i + 1]
        /\ \A i \in 1..Len(toClient) : \A S :
             Before(toClient, S, i + 1) = Before(toClient', S, i) + (IF m \in S THEN 1 ELSE 0)
    BY <1>4, AnswerTaken
  <2>2. m \notin Pieces(k)
    BY <1>4, ToClient
  <2>3. toClient' \in Seq(ServerMessages)
    BY <1>1, <1>4
  <2>4. ASSUME NEW i \in 1..Len(toClient')
        PROVE  /\ i + 1 \in 1..Len(toClient) /\ toClient'[i] = toClient[i + 1]
               /\ Before(toClient', Pieces(k), i) = Before(toClient, Pieces(k), i + 1)
    <3>1. i \in 1..Len(toClient) /\ i + 1 \in 1..Len(toClient) /\ i \in Nat
      BY <2>1
    <3>2. Before(toClient', Pieces(k), i) \in Nat
      BY <3>1, BeforeType
    <3>3. Before(toClient, Pieces(k), i + 1) = Before(toClient', Pieces(k), i) + 0
      BY <2>1, <2>2, <3>1
    <3> QED BY <2>1, <3>1, <3>2, <3>3
  <2>5. arriving(k)' = arriving(k)
    <3>1. /\ arriving(k) = arriving(k)' + (IF Carries(m, k) /\ m.data # <<>> THEN 1 ELSE 0)
          /\ arriving(k)' \in Nat
      BY <2>1
    <3>2. arriving(k) = arriving(k)' + 0
      BY <1>4, <3>1, Zenon
    <3> QED BY <3>1, <3>2
  <2>6. ASSUME NEW i \in 1..Len(toClient')
        PROVE  \E j \in 1..Len(toClient) :
                 /\ toClient'[i] = toClient[j]
                 /\ Before(toClient', Pieces(k), i) = Before(toClient, Pieces(k), j)
    BY <2>4
  <2> QED BY <2>5, <2>6
<1> QED BY <1>2, <1>3, <1>4

LEMMA ReceivingKept ==
  ASSUME Basic, Basic', Grown, NEW k \in Ids, Receiving(k),
         Saving(k)' =>
           /\ sharers'[k] = sharers[k]
           /\ Threads(k)' \subseteq Threads(k)
           /\ IsRead(offers'[k]) => offers'[k] = offers[k]
           /\ \/ UNCHANGED toClient
              \/ \E m \in ServerMessages : ~Carries(m, k) /\ toClient' = Append(toClient, m)
              \/ \E m \in ServerMessages :
                   /\ ~Carries(m, k)
                   /\ toClient # <<>> /\ m = Head(toClient) /\ toClient' = Tail(toClient)
  PROVE  Receiving(k)'
<1> SUFFICES ASSUME Saving(k)' PROVE Copies(k, sharers[k])' /\ Follows(k, sharers[k])'
  BY DEF Receiving
<1> DEFINE s == sharers[k]
<1>1. Saving(k) /\ sharers'[k] = s /\ k \in Keys
  BY DEF Saving, IsWrite, Keys
<1>2. Copies(k, s) /\ Follows(k, s)
  BY <1>1 DEF Receiving
<1>3. s.name \in Names /\ s.size \in Nat /\ s.written \in Nat
  BY <1>1, SavingFacts
<1> HIDE DEF s
<1>4. store[s.name] # None /\ s.size <= Len(store[s.name]) /\ Len(store[s.name]) \in Nat
  BY <1>2, <1>3, StoreFacts DEF Copies
<1>5. /\ store'[s.name] # None /\ Len(store[s.name]) <= Len(store'[s.name])
      /\ \A w \in Nat : w < Len(store[s.name]) =>
           Portion(store'[s.name], w) = Portion(store[s.name], w)
      /\ s.name \in Stored => store'[s.name] = store[s.name]
  BY <1>3, <1>4, GrownFacts DEF Grown
<1>6. Len(store'[s.name]) \in Nat
  BY <1>3, <1>5 DEF Basic, ServerSide
<1>7. Copies(k, sharers[k])'
  <2>1. s.size <= Len(store'[s.name])
    BY <1>3, <1>4, <1>5, <1>6
  <2>2. IsRead(offers'[k]) => offers'[k] = offers[k]
    OBVIOUS
  <2>3. IsRead(offers'[k]) => offers'[k].file = s.name /\ offers'[k].size = s.size
    BY <1>2, <2>2 DEF Copies
  <2> QED BY <1>1, <1>2, <1>5, <2>1, <2>3 DEF Copies
<1>8. /\ arriving(k)' = arriving(k)
      /\ \A i \in 1..Len(toClient') : Carries(toClient'[i], k) =>
           \E j \in 1..Len(toClient) :
             /\ toClient'[i] = toClient[j]
             /\ Before(toClient', Pieces(k), i) = Before(toClient, Pieces(k), j)
  BY ArrivalsKept
<1>9. Follows(k, sharers[k])'
  <2>1. \A t \in Threads(k)' : t.mode = "read" =>
          t.file = s.name /\ t.size = s.size /\ t.written = s.written + arriving(k)'
    BY <1>2, <1>8 DEF Follows
  <2>2. ASSUME NEW i \in 1..Len(toClient'), Carries(toClient'[i], k)
        PROVE  /\ s.written + Before(toClient', Pieces(k), i) < s.size
               /\ toClient'[i].data =
                    Portion(store'[s.name], s.written + Before(toClient', Pieces(k), i))
    <3>1. PICK j \in 1..Len(toClient) :
            /\ toClient'[i] = toClient[j]
            /\ Before(toClient', Pieces(k), i) = Before(toClient, Pieces(k), j)
      BY <1>8, <2>2
    <3> DEFINE n == Before(toClient, Pieces(k), j)
    <3>2. s.written + n < s.size /\ toClient[j].data = Portion(store[s.name], s.written + n)
      BY <1>2, <2>2, <3>1 DEF Follows
    <3>3. n \in Nat
      <4>1. j \in Nat
        OBVIOUS
      <4> QED BY <4>1, BeforeType
    <3> HIDE DEF n
    <3>4. s.written + n \in Nat /\ s.written + n < Len(store[s.name])
      BY <1>3, <1>4, <3>2, <3>3
    <3>5. Portion(store'[s.name], s.written + n) = Portion(store[s.name], s.written + n)
      BY <1>5, <3>4
    <3> QED BY <3>1, <3>2, <3>5 DEF n
  <2> QED BY <1>1, <2>1, <2>2 DEF Follows
<1> QED BY <1>7, <1>9

LEMMA FetchKept ==
  ASSUME Basic, Basic', Grown, NEW k \in Ids, Fetching(k), Receiving(k), Passed(k),
         free' >= free, Threads(k)' \subseteq Threads(k),
         IsRead(offers'[k]) => offers'[k] = offers[k],
         Saving(k)' =>
           /\ sharers'[k] = sharers[k]
           /\ toClient # <<>> /\ toClient' = Tail(toClient) => ~Carries(Head(toClient), k)
  PROVE  Fetching(k)' /\ Receiving(k)'
<1>1. Saving(k)' => Saving(k) /\ sharers'[k] = sharers[k]
  BY DEF Saving, IsWrite
<1>2. Fetching(k)'
  BY <1>1, PassedFetching
<1>3. ASSUME Saving(k)'
      PROVE  \/ UNCHANGED toClient
             \/ \E m \in ServerMessages : ~Carries(m, k) /\ toClient' = Append(toClient, m)
             \/ \E m \in ServerMessages :
                  /\ ~Carries(m, k)
                  /\ toClient # <<>> /\ m = Head(toClient) /\ toClient' = Tail(toClient)
  BY <1>3 DEF Passed
<1>4. Receiving(k)'
  BY <1>3, ReceivingKept
<1> QED BY <1>2, <1>4

\* A message passes that is nothing to any download, or one is taken.
Passes ==
  /\ \/ UNCHANGED toServer
     \/ \E m \in ClientMessages :
          m.kind # "AgreeFileDownload" /\ toServer' = Append(toServer, m)
     \/ \E m \in ClientMessages :
          toServer # <<>> /\ m = Head(toServer) /\ toServer' = Tail(toServer)
  /\ \/ UNCHANGED toClient
     \/ \E m \in ServerMessages :
          /\ m.kind \notin {"AgreeFileDownload", "Chunk"}
          /\ toClient' = Append(toClient, m)
     \/ \E m \in ServerMessages :
          toClient # <<>> /\ m = Head(toClient) /\ toClient' = Tail(toClient)

LEMMA PassesFacts ==
  ASSUME Basic, Passes
  PROVE  /\ \A k : Passed(k)
         /\ \A i \in 1..Len(toClient') : toClient'[i].kind = "AgreeFileDownload" =>
              \E j \in 1..Len(toClient) : toClient'[i] = toClient[j]
<1>1. \A k : Passed(k)
  BY DEF Passes, Passed, Agrees, Carries
<1>2. toClient \in Seq(ServerMessages)
  BY DEF Basic, Between
<1>3. CASE UNCHANGED toClient
  BY <1>1, <1>3
<1>4. ASSUME NEW m \in ServerMessages, m.kind # "AgreeFileDownload",
             toClient' = Append(toClient, m)
      PROVE  \A i \in 1..Len(toClient') : toClient'[i].kind = "AgreeFileDownload" =>
               \E j \in 1..Len(toClient) : toClient'[i] = toClient[j]
  <2>1. \A i \in 1..Len(toClient') :
          toClient'[i] = m \/ \E j \in 1..Len(toClient) : toClient'[i] = toClient[j]
    BY <1>2, <1>4, SentMessages
  <2> QED BY <1>4, <2>1
<1>5. CASE toClient # <<>> /\ toClient' = Tail(toClient)
  BY <1>1, <1>2, <1>5, TakenMessages
<1> QED BY <1>1, <1>3, <1>4, <1>5 DEF Passes

LEMMA OffersKept ==
  ASSUME Basic, Basic', Grown, Fetches,
         \A i \in 1..Len(toClient') :
           \/ toClient'[i].kind = "AgreeFileDownload" =>
                \E j \in 1..Len(toClient) : toClient'[i] = toClient[j]
           \/ OfferShape(i)',
         \A k \in Ids : IsRead(offers'[k]) => offers'[k] = offers[k] \/ offered(k) = 0
  PROVE  \A i \in 1..Len(toClient') : OfferShape(i)'
<1> SUFFICES ASSUME NEW i \in 1..Len(toClient'), toClient'[i].kind = "AgreeFileDownload",
                    NEW j \in 1..Len(toClient), toClient'[i] = toClient[j]
             PROVE  OfferShape(i)'
  BY DEF OfferShape
<1> DEFINE m == toClient[j]
<1>1. /\ m \in ServerMessages /\ m.kind = "AgreeFileDownload" /\ m = toClient'[i]
      /\ toClient \in Seq(ServerMessages)
  BY DEF Basic, Between
<1>2. m.name \in Names /\ m.size \in Nat /\ m.id \in Ids
  BY <1>1, ToClient
<1>3. /\ store[m.name] # None /\ m.size <= Len(store[m.name])
      /\ m.name \in Stored => m.size = Len(store[m.name])
      /\ IsRead(offers[m.id]) => offers[m.id].file = m.name /\ offers[m.id].size = m.size
  BY <1>1 DEF Fetches, OfferShape
<1>4. offered(m.id) > 0
  <2>1. m \in Offers(m.id)
    BY <1>1 DEF Offers, Agrees
  <2> QED BY <1>1, <2>1, CountOne DEF offered
<1> HIDE DEF m
<1>5. IsRead(offers'[m.id]) => offers'[m.id].file = m.name /\ offers'[m.id].size = m.size
  BY <1>2, <1>3, <1>4
<1>6. /\ store'[m.name] # None /\ Len(store[m.name]) <= Len(store'[m.name])
      /\ m.name \in Stored => store'[m.name] = store[m.name]
      /\ Len(store[m.name]) \in Nat
  BY <1>2, <1>3, GrownFacts, StoreFacts DEF Grown
<1>7. Len(store'[m.name]) \in Nat
  BY <1>2, <1>6 DEF Basic, ServerSide
<1>8. m.size <= Len(store'[m.name])
  BY <1>2, <1>3, <1>6, <1>7
<1>9. m.name \in Stored => m.size = Len(store'[m.name])
  BY <1>3, <1>6
<1> QED BY <1>1, <1>5, <1>6, <1>8, <1>9 DEF OfferShape

\* A step that is nothing to any download.
LEMMA FetchesKept ==
  ASSUME Basic, Basic', Grown, Fetches, Passes,
         free' >= free, senders' \subseteq senders,
         \A k \in Ids : IsRead(offers'[k]) => offers'[k] = offers[k],
         \A key \in Keys : Saving(key)' =>
           \/ sharers'[key] = sharers[key]
           \/ key \in Names \ Ids /\ Waiting(key)',
         \A k \in Ids : Saving(k)' =>
           (toClient # <<>> /\ toClient' = Tail(toClient) => ~Carries(Head(toClient), k))
  PROVE  Fetches'
<1>1. ASSUME NEW k \in Ids PROVE Fetching(k)' /\ Receiving(k)'
  <2>1. Fetching(k) /\ Receiving(k) /\ Passed(k)
    BY PassesFacts DEF Fetches
  <2>2. Threads(k)' \subseteq Threads(k)
    BY DEF Threads
  <2>3. Saving(k)' => sharers'[k] = sharers[k]
    BY DEF Keys
  <2> QED BY <2>1, <2>2, <2>3, FetchKept
<1>2. \A i \in 1..Len(toClient') : OfferShape(i)'
  BY PassesFacts, OffersKept
<1>3. \A name \in Names : Waiting(name)'
  BY DEF Fetches, Waiting, Saving, Keys
<1> QED BY <1>1, <1>2, <1>3 DEF Fetches

-----------------------------------------------------------------------------

\* The server's messages stay.
LEMMA NoneTaken ==
  ASSUME Basic, toClient # <<>>,
         UNCHANGED toClient \/ \E m \in ServerMessages : toClient' = Append(toClient, m)
  PROVE  toClient' # Tail(toClient)
<1> DEFINE r == Tail(toClient)
<1>1. toClient \in Seq(ServerMessages)
  BY DEF Basic, Between
<1>2. Len(toClient) \in Nat /\ Len(r) = Len(toClient) - 1
  BY <1>1, HeadTailProperties
<1> HIDE DEF r
<1>3. Len(toClient) # Len(r) /\ Len(toClient) + 1 # Len(r)
  BY <1>2
<1>4. CASE UNCHANGED toClient
  BY <1>3, <1>4, Zenon DEF r
<1>5. ASSUME NEW m \in ServerMessages, toClient' = Append(toClient, m)
      PROVE  toClient' # Tail(toClient)
  <2>1. Len(toClient') = Len(toClient) + 1
    BY <1>1, <1>5, AppendProperties
  <2> QED BY <1>3, <2>1, Zenon DEF r
<1> QED BY <1>4, <1>5

LEMMA QuietFetches ==
  ASSUME Basic, Basic', Grown, Fetches,
         \/ Quiet \/ \E c \in Commands : CommandTyped(c)
         \/ \E s \in Sharer : SenderStops(s)
  PROVE  Fetches'
<1>1. /\ UNCHANGED <<sharers, toServer, toClient, offers, free>> /\ senders' \subseteq senders
  BY DEF Quiet, CommandTyped, SenderStops, local, remote
<1>2. Passes /\ free' >= free
  BY <1>1 DEF Passes, Basic, Numbers
<1>3. toClient # <<>> => toClient' # Tail(toClient)
  BY <1>1, NoneTaken
<1> QED BY <1>1, <1>2, <1>3, FetchesKept

LEMMA PartFetches ==
  ASSUME Basic, Basic', Grown, Fetches, PartSent PROVE Fetches'
<1>1. UNCHANGED <<sharers, toClient, offers, free, senders>>
  BY PartFacts
<1>2. Passes /\ free' >= free
  BY <1>1, PartFacts DEF Passes, Basic, Numbers
<1>3. toClient # <<>> => toClient' # Tail(toClient)
  BY <1>1, NoneTaken
<1> QED BY <1>1, <1>2, <1>3, FetchesKept

LEMMA BeginsFetches ==
  ASSUME Basic, Basic', Grown, Fetches, NamesAreNoNumbers,
         \/ \E u \in Uploads : UploadBegins(u)
         \/ \E d \in Downloads : DownloadBegins(d)
  PROVE  Fetches'
<1>1. UNCHANGED <<offers, free, senders, toClient>> /\ free' >= free
  <2>1. Commanded
    BY DEF UploadBegins, DownloadBegins
  <2>2. UNCHANGED <<offers, free, senders, toClient>>
    BY <2>1 DEF Commanded, remote
  <2> QED BY <2>2 DEF Basic, Numbers
<1>2. \/ UNCHANGED toServer
      \/ \E m \in ClientMessages :
           m.kind # "AgreeFileDownload" /\ toServer' = Append(toServer, m)
  <2>1. ASSUME NEW u \in Uploads, UploadBegins(u) PROVE <1>2!:
    <3>1. next \in Ids /\ Size[u.path] \in Nat /\ u.name \in Names
      BY NumbersAreIds, TransferAssumption
    <3>2. [kind |-> "RequestFileUpload", name |-> u.name, size |-> Size[u.path], id |-> next]
            \in ClientMessages
      BY <3>1 DEF ClientMessages
    <3> QED BY <2>1, <3>2 DEF UploadBegins
  <2>2. ASSUME NEW d \in Downloads, DownloadBegins(d) PROVE <1>2!:
    <3>1. d.name \in Names
      BY TransferAssumption
    <3>2. [kind |-> "RequestFileDownload", name |-> d.name] \in ClientMessages
      BY <3>1 DEF ClientMessages
    <3> QED BY <2>2, <3>2 DEF DownloadBegins
  <2> QED BY <2>1, <2>2
<1>3. Passes
  BY <1>1, <1>2 DEF Passes
<1>4. ASSUME NEW key \in Keys, Saving(key)'
      PROVE  \/ sharers'[key] = sharers[key]
             \/ key \in Names \ Ids /\ Waiting(key)'
  <2>1. ASSUME NEW u \in Uploads, UploadBegins(u) PROVE sharers'[key] = sharers[key]
    BY <1>4, <2>1 DEF UploadBegins, Saving, Is, IsWrite
  <2>2. ASSUME NEW d \in Downloads, DownloadBegins(d), key = d.name
        PROVE  key \in Names \ Ids /\ Waiting(key)'
    BY <2>2, TransferAssumption DEF DownloadBegins, Is, Waiting, NamesAreNoNumbers
  <2>3. ASSUME NEW d \in Downloads, DownloadBegins(d), key # d.name
        PROVE  sharers'[key] = sharers[key]
    BY <2>3 DEF DownloadBegins
  <2> QED BY <2>1, <2>2, <2>3
<1>5. toClient # <<>> => toClient' # Tail(toClient)
  BY <1>1, NoneTaken
<1> QED BY <1>1, <1>3, <1>4, <1>5, FetchesKept

LEMMA SentFetches ==
  ASSUME Basic, Basic', Grown, Fetches, NEW i \in 1..Len(queue), NEW w \in Nat, ChunkSent(i, w)
  PROVE  Fetches'
<1>1. UNCHANGED <<sharers, offers, free, senders, toClient>> /\ free' >= free
  BY DEF ChunkSent, remote, Basic, Numbers
<1>2. \E m \in ClientMessages :
        m.kind # "AgreeFileDownload" /\ toServer' = Append(toServer, m)
  BY SentFacts DEF Chunk
<1>3. Passes
  BY <1>1, <1>2 DEF Passes
<1>4. toClient # <<>> => toClient' # Tail(toClient)
  BY <1>1, NoneTaken
<1> QED BY <1>1, <1>3, <1>4, FetchesKept

LEMMA ReceivedFetches ==
  ASSUME Basic, Basic', Grown, Fetches, NEW m \in ServerMessages,
         ChunkIgnored(m) \/ UploadAgreed(m) \/ UploadDeclined(m) \/ DownloadDeclined(m)
  PROVE  Fetches'
<1>1. Received(m)
  BY DEF ChunkIgnored, UploadAgreed, UploadDeclined, DownloadDeclined
<1>2. /\ UNCHANGED <<offers, free, senders, toServer>> /\ free' >= free
      /\ toClient # <<>> /\ m = Head(toClient) /\ toClient' = Tail(toClient)
  BY <1>1 DEF Received, remote, ChunkIgnored, UploadAgreed, UploadDeclined, DownloadDeclined,
              Basic, Numbers
<1>3. Passes
  BY <1>2 DEF Passes
<1>4. ASSUME NEW key \in Keys, Saving(key)' PROVE sharers'[key] = sharers[key]
  BY <1>4 DEF Saving, IsWrite, ChunkIgnored, UploadAgreed, UploadDeclined, DownloadDeclined
<1>5. ASSUME NEW k \in Ids, Saving(k)' PROVE ~Carries(m, k)
  <2>1. Saving(k)
    BY <1>4, <1>5 DEF Saving, Keys
  <2> QED BY <2>1 DEF Saving, Carries, ChunkIgnored, UploadAgreed, UploadDeclined,
               DownloadDeclined
<1> QED BY <1>2, <1>3, <1>4, <1>5, FetchesKept

LEMMA ServedFetches ==
  ASSUME Basic, Basic', Grown, Fetches, NEW m \in ClientMessages,
         \/ UploadRefused(m) \/ UploadGranted(m) \/ DownloadRefused(m) \/ ChunkDropped(m)
         \/ ChunkStored(m)
  PROVE  Fetches'
<1>1. Served(m)
  BY DEF UploadRefused, UploadGranted, DownloadRefused, ChunkDropped, ChunkStored
<1>2. /\ UNCHANGED <<sharers, free, senders>> /\ free' >= free
      /\ toServer # <<>> /\ m = Head(toServer) /\ toServer' = Tail(toServer)
  BY <1>1 DEF Served, local, remote, UploadRefused, UploadGranted, DownloadRefused, ChunkDropped,
              ChunkStored, Basic, Numbers
<1>3. \/ UNCHANGED toClient
      \/ \E answer \in ServerMessages :
           /\ answer.kind \notin {"AgreeFileDownload", "Chunk"}
           /\ toClient' = Append(toClient, answer)
  <2>1. CASE UploadRefused(m)
    <3>1. [kind |-> "DeclineFileUpload", id |-> m.id] \in ServerMessages
      BY <2>1, ToServer DEF UploadRefused, ServerMessages
    <3> QED BY <2>1, <3>1 DEF UploadRefused
  <2>2. CASE UploadGranted(m)
    <3>1. [kind |-> "AgreeFileUpload", id |-> m.id] \in ServerMessages
      BY <2>2, ToServer DEF UploadGranted, ServerMessages
    <3> QED BY <2>2, <3>1 DEF UploadGranted
  <2>3. CASE DownloadRefused(m)
    <3>1. [kind |-> "DeclineFileDownload", name |-> m.name] \in ServerMessages
      BY <2>3, ToServer DEF DownloadRefused, ServerMessages
    <3> QED BY <2>3, <3>1 DEF DownloadRefused
  <2>4. CASE ChunkDropped(m) \/ ChunkStored(m)
    BY <2>4 DEF ChunkDropped, ChunkStored
  <2> QED BY <2>1, <2>2, <2>3, <2>4
<1>4. Passes
  BY <1>2, <1>3 DEF Passes
<1>5. ASSUME NEW k \in Ids, IsRead(offers'[k]) PROVE offers'[k] = offers[k]
  <2>1. k \in Keys
    BY DEF Keys
  <2>2. CASE UploadRefused(m) \/ DownloadRefused(m) \/ ChunkDropped(m)
    BY <2>2 DEF UploadRefused, DownloadRefused, ChunkDropped, remote
  <2>3. CASE UploadGranted(m)
    BY <1>5, <2>1, <2>3 DEF UploadGranted, IsRead, Is
  <2>4. CASE ChunkStored(m)
    BY <1>5, <2>1, <2>4 DEF ChunkStored, IsRead, Is
  <2> QED BY <2>2, <2>3, <2>4
<1>6. toClient # <<>> => toClient' # Tail(toClient)
  BY <1>3, NoneTaken
<1> QED BY <1>2, <1>4, <1>5, <1>6, FetchesKept

\* Nothing is on its way for the k-th download.
LEMMA NothingComing ==
  ASSUME Basic, NEW k, coming(k) = 0
  PROVE  arriving(k) = 0 /\ \A i \in 1..Len(toClient) : ~Carries(toClient[i], k)
<1>1. toClient \in Seq(ServerMessages) /\ Len(toClient) + 1 \in Nat /\ Len(toClient) \in Nat
  BY DEF Basic, Between
<1>2. ASSUME NEW i \in 1..Len(toClient), Carries(toClient[i], k) PROVE FALSE
  <2>1. toClient[i] \in Arrivals(k)
    BY <1>1, <1>2 DEF Arrivals
  <2>2. Count(toClient, Arrivals(k)) > 0
    BY <1>1, <2>1, CountOne
  <2> QED BY <2>2 DEF coming
<1>3. \A i \in 1..((Len(toClient) + 1) - 1) : toClient[i] \notin Pieces(k)
  <2>1. (Len(toClient) + 1) - 1 = Len(toClient)
    BY <1>1
  <2> QED BY <1>1, <1>2, <2>1, ToClient
<1>4. arriving(k) = 0
  BY <1>1, <1>3, NoneBefore DEF arriving, Count
<1> QED BY <1>2, <1>4

\* A receiver for which nothing is sent yet.
LEMMA NothingFollows ==
  ASSUME Basic, NEW k, coming(k) = 0, Threads(k) = {}, NEW s
  PROVE  Follows(k, s)
BY NothingComing DEF Follows

LEMMA NextNothingFollows ==
  ASSUME Basic', NEW k, coming(k)' = 0, Threads(k)' = {}, NEW s
  PROVE  Follows(k, s)'
<1>1. toClient' \in Seq(ServerMessages)
  BY DEF Basic, Between
<1>2. ASSUME NEW i \in 1..Len(toClient'), Carries(toClient'[i], k) PROVE FALSE
  <2>1. toClient'[i] \in Arrivals(k)
    BY <1>1, <1>2 DEF Arrivals
  <2>2. Count(toClient', Arrivals(k)) > 0
    BY <1>1, <2>1, CountOne
  <2> QED BY <2>2 DEF coming
<1> QED BY <1>2 DEF Follows

\* The map of the client for names, when at most a number is new.
LEMMA WaitingKept ==
  ASSUME Fetches, NamesAreNoNumbers, NEW k \in Ids,
         \A key \in Keys : key # k => sharers'[key] \in {None, sharers[key]}
  PROVE  \A name \in Names : Waiting(name)'
BY DEF Fetches, NamesAreNoNumbers, Keys, Waiting, Saving, IsWrite

\* The piece that is saved is the next one of the file of the server.
LEMMA SavedPiece ==
  ASSUME Basic, Fetches, NamesAreNoNumbers, NEW m \in ServerMessages, ChunkSaved(m),
         NEW s, s = sharers[m.id]
  PROVE  /\ m.id \in Ids /\ Saving(m.id)
         /\ s.written < s.size /\ s.size <= Len(store[s.name])
         /\ store[s.name] \in Seq(Piece) /\ Len(store[s.name]) \in Nat
         /\ m.data = Portion(store[s.name], s.written)
         /\ Len(m.data) = 1 /\ m.data # <<>> /\ Accepted(s, m.data) = m.data
<1> DEFINE k == m.id
<1>1. /\ toClient # <<>> /\ m = Head(toClient) /\ toClient' = Tail(toClient)
      /\ m.kind = "Chunk" /\ k \in Ids /\ k \in Keys /\ m.data \in Seq(Piece) /\ Saving(k)
  BY ToClient DEF ChunkSaved, Received, Saving, Keys
<1>2. /\ s \in Sharer /\ s.name \in Names /\ s.size \in Nat /\ s.written \in Nat
  BY <1>1, SavingFacts
<1>3. Copies(k, s) /\ Follows(k, s)
  BY <1>1 DEF Fetches, Receiving
<1>4. Len(toClient) \in Nat \ {0} /\ toClient[1] = m
  BY <1>1, AnswerTaken
<1>5. Before(toClient, Pieces(k), 1) = 0
  BY NoneBefore
<1>6. s.written < s.size /\ m.data = Portion(store[s.name], s.written)
  <2>1. Carries(toClient[1], k) /\ 1 \in 1..Len(toClient)
    <3>1. Len(toClient) \in Nat \ {0}
      BY <1>4
    <3>2. 1 \in 1..Len(toClient)
      BY <3>1
    <3> QED BY <1>1, <1>4, <3>2 DEF Carries
  <2>2. /\ s.written + Before(toClient, Pieces(k), 1) < s.size
        /\ m.data = Portion(store[s.name], s.written + Before(toClient, Pieces(k), 1))
    BY <1>3, <1>4, <2>1 DEF Follows
  <2>3. s.written + Before(toClient, Pieces(k), 1) = s.written
    BY <1>2, <1>5
  <2> QED BY <2>2, <2>3
<1>7. store[s.name] \in Seq(Piece) /\ Len(store[s.name]) \in Nat /\ s.size <= Len(store[s.name])
  BY <1>2, <1>3, StoreFacts DEF Copies
<1>8. Len(m.data) = 1
  <2>1. s.written < Len(store[s.name])
    BY <1>2, <1>6, <1>7
  <2>2. Len(Portion(store[s.name], s.written)) = 1
    BY <1>2, <1>7, <2>1, PortionFacts
  <2> QED BY <1>6, <2>2
<1>9. m.data # <<>> /\ Accepted(s, m.data) = m.data
  <2>1. s.written + Len(m.data) <= s.size
    BY <1>2, <1>6, <1>8
  <2>2. Accepted(s, m.data) = m.data
    BY <1>1, <1>2, <2>1, AcceptedFacts
  <2>3. Len(<<>>) # 1
    OBVIOUS
  <2>4. m.data # <<>>
    BY <1>8, <2>3, Zenon
  <2> QED BY <2>2, <2>4
<1> QED BY <1>1, <1>6, <1>7, <1>8, <1>9

LEMMA SavedFetches ==
  ASSUME Basic, Basic', Grown, Fetches, NamesAreNoNumbers, NEW m \in ServerMessages, ChunkSaved(m)
  PROVE  Fetches'
<1>1. /\ UNCHANGED <<offers, free, senders, store, toServer>> /\ Received(m)
      /\ toClient # <<>> /\ m = Head(toClient) /\ toClient' = Tail(toClient)
      /\ m.kind = "Chunk" /\ m.id \in Ids /\ m.id \in Keys /\ m.data \in Seq(Piece)
      /\ \A key \in Keys : key # m.id => sharers'[key] = sharers[key]
  BY ToClient DEF ChunkSaved, Received, remote, Keys
<1>2. free' >= free
  BY <1>1 DEF Basic, Numbers
<1>3. Passes
  BY <1>1 DEF Passes
<1>4. ASSUME NEW k \in Ids PROVE Fetching(k)' /\ Receiving(k)'
  <2>1. Fetching(k) /\ Receiving(k) /\ Passed(k) /\ k \in Keys
    BY <1>3, PassesFacts DEF Fetches, Keys
  <2>2. Threads(k)' \subseteq Threads(k)
    BY <1>1 DEF Threads
  <2>3. CASE k # m.id
    BY <1>1, <1>2, <2>1, <2>2, <2>3, FetchKept DEF Carries
  <2>4. CASE k = m.id
    <3> DEFINE s == sharers[k]
               x == Accepted(s, m.data)
               B(n) == Before(toClient, Pieces(k), n)
               C(n) == Before(toClient', Pieces(k), n)
    <3>1. Saving(k)
      BY <2>4 DEF ChunkSaved, Saving
    <3>2. /\ s \in Sharer /\ s.name \in Names /\ s.size \in Nat /\ s.written \in Nat
          /\ s.written <= s.size
      BY <2>1, <3>1, SavingFacts
    <3>3. Copies(k, s) /\ Follows(k, s)
      BY <2>1, <3>1 DEF Receiving
    <3>4. /\ coming(k) = coming(k)' + (IF Carries(m, k) THEN 1 ELSE 0)
          /\ arriving(k) = arriving(k)' + (IF Carries(m, k) /\ m.data # <<>> THEN 1 ELSE 0)
          /\ coming(k)' \in Nat /\ arriving(k)' \in Nat
          /\ Len(toClient) \in Nat \ {0} /\ Len(toClient') = Len(toClient) - 1 /\ toClient[1] = m
          /\ \A i \in 1..Len(toClient') : toClient'[i] = toClient[i + 1]
      BY <1>1, AnswerTaken
    <3>5. \A i \in 1..Len(toClient) : B(i + 1) = C(i) + (IF m \in Pieces(k) THEN 1 ELSE 0)
      BY <1>1, AnswerTaken
    <3>7. coming(k) > 0
      BY <1>1, <2>4, <3>4 DEF Carries
    <3>8. Fetching(k)'
      <4>1. Saving(k)' => Saving(k) /\ coming(k) > 0
        BY <3>1, <3>7
      <4> QED BY <1>2, <2>1, <2>2, <4>1, PassedFetching
    <3> HIDE DEF x, B, C
    <3>11. Len(m.data) = 1 /\ m.data # <<>> /\ x = m.data
      BY <2>4, SavedPiece DEF x
    <3>13. m \in Pieces(k) /\ Carries(m, k)
      BY <1>1, <2>4, <3>11, ToClient DEF Carries
    <3>14. arriving(k) = arriving(k)' + 1 /\ \A i \in 1..Len(toClient) : B(i + 1) = C(i) + 1
      BY <3>4, <3>5, <3>11, <3>13
    <3>15. ASSUME Saving(k)' PROVE Copies(k, sharers[k])' /\ Follows(k, sharers[k])'
      <4> DEFINE t == sharers'[k]
      <4>1. /\ s.written + Len(x) < s.size
            /\ Is(t, s.file, "write", s.name, s.size, s.id, s.written + Len(x))
        BY <2>4, <3>15 DEF ChunkSaved, Saving, IsWrite, x
      <4>2. /\ t.name = s.name /\ t.size = s.size /\ t.id = s.id /\ t.written = s.written + 1
            /\ s.written + 1 < s.size
        BY <3>11, <4>1 DEF Is
      <4> HIDE DEF t, s
      <4>3. Copies(k, sharers[k])'
        BY <1>1, <3>3, <4>2 DEF Copies, t
      <4>4. \A thread \in Threads(k)' : thread.mode = "read" =>
              /\ thread.file = t.name /\ thread.size = t.size
              /\ thread.written = t.written + arriving(k)'
        <5>1. \A thread \in Threads(k) : thread.mode = "read" =>
                /\ thread.file = s.name /\ thread.size = s.size
                /\ thread.written = s.written + arriving(k)
          BY <3>3 DEF Follows
        <5>2. s.written + arriving(k) = t.written + arriving(k)'
          BY <3>2, <3>4, <3>14, <4>2
        <5> QED BY <2>2, <4>2, <5>1, <5>2
      <4>5. ASSUME NEW i \in 1..Len(toClient'), Carries(toClient'[i], k)
            PROVE  /\ t.written + C(i) < t.size
                   /\ toClient'[i].data = Portion(store'[t.name], t.written + C(i))
        <5>1. i + 1 \in 1..Len(toClient) /\ i \in 1..Len(toClient) /\ i \in Nat
          BY <3>4, LenProperties DEF Basic, Between
        <5>2. toClient'[i] = toClient[i + 1] /\ B(i + 1) = C(i) + 1
          BY <3>4, <3>14, <5>1
        <5>3. C(i) \in Nat
          BY <5>1, BeforeType DEF C
        <5>4. /\ s.written + B(i + 1) < s.size
              /\ toClient[i + 1].data = Portion(store[s.name], s.written + B(i + 1))
          BY <3>3, <4>5, <5>1, <5>2 DEF Follows, B
        <5>5. s.written + B(i + 1) = t.written + C(i)
          BY <3>2, <4>2, <5>2, <5>3
        <5> QED BY <1>1, <4>2, <5>2, <5>4, <5>5
      <4>6. Follows(k, sharers[k])'
        BY <4>4, <4>5 DEF Follows, C, t
      <4> QED BY <4>3, <4>6
    <3> QED BY <3>8, <3>15 DEF Receiving
  <2> QED BY <2>3, <2>4
<1>5. \A i \in 1..Len(toClient') : OfferShape(i)'
  BY <1>1, <1>3, PassesFacts, OffersKept
<1>6. \A name \in Names : Waiting(name)'
  BY <1>1, WaitingKept
<1> QED BY <1>4, <1>5, <1>6 DEF Fetches

LEMMA OfferedFetches ==
  ASSUME Basic, Basic', Grown, Fetches, NamesAreNoNumbers, NEW m \in ServerMessages,
         DownloadOffered(m)
  PROVE  Fetches'
<1>1. /\ UNCHANGED <<offers, free, senders, store>> /\ Received(m)
      /\ toClient # <<>> /\ m = Head(toClient) /\ toClient' = Tail(toClient)
      /\ m.kind = "AgreeFileDownload" /\ m.id \in Ids /\ m.id \in Keys
      /\ m.name \in Names /\ m.name \in Keys /\ m.size \in Nat /\ m.name \notin Ids
      /\ toClient \in Seq(ServerMessages)
  BY ToClient DEF DownloadOffered, Received, remote, Keys, NamesAreNoNumbers, Basic, Between
<1>2. free' >= free
  BY <1>1 DEF Basic, Numbers
<1>3. \A key \in Keys : key # m.id => sharers'[key] \in {None, sharers[key]}
  BY DEF DownloadOffered
<1> DEFINE answer == [kind |-> "AgreeFileDownload", id |-> m.id]
<1>4. /\ answer \in ClientMessages /\ answer.kind = "AgreeFileDownload" /\ answer.id = m.id
      /\ toServer' = Append(toServer, answer) \/ UNCHANGED toServer
  BY <1>1 DEF ClientMessages, DownloadOffered
<1> HIDE DEF answer
<1>5. /\ \A k \in Ids : k # m.id => Passed(k)
      /\ \A i \in 1..Len(toClient') : \E j \in 1..Len(toClient) : toClient'[i] = toClient[j]
  <2>1. \A k \in Ids : k # m.id => ~Agrees(answer, k)
    BY <1>4 DEF Agrees
  <2>2. \A i \in 1..Len(toClient') : \E j \in 1..Len(toClient) : toClient'[i] = toClient[j]
    BY <1>1, TakenMessages
  <2> QED BY <1>1, <1>4, <2>1, <2>2 DEF Passed
<1>6. ASSUME NEW k \in Ids PROVE Fetching(k)' /\ Receiving(k)'
  <2>1. Fetching(k) /\ Receiving(k) /\ k \in Keys
    BY DEF Fetches, Keys
  <2>2. Threads(k)' = Threads(k)
    BY <1>1 DEF Threads
  <2>3. CASE k # m.id
    <3>1. Passed(k) /\ ~Carries(m, k)
      BY <1>1, <1>5, <2>3 DEF Carries
    <3>2. Saving(k)' => sharers'[k] = sharers[k]
      BY <1>3, <2>1, <2>3 DEF Saving, IsWrite
    <3> QED BY <1>1, <1>2, <2>1, <2>2, <3>1, <3>2, FetchKept
  <2>4. CASE k = m.id
    <3>1. /\ offered(k) = offered(k)' + (IF Agrees(m, k) THEN 1 ELSE 0)
          /\ coming(k) = coming(k)' + (IF Carries(m, k) THEN 1 ELSE 0)
          /\ offered(k)' \in Nat /\ coming(k)' \in Nat
      BY <1>1, AnswerTaken
    <3>2. Agrees(m, k) /\ ~Carries(m, k)
      BY <1>1, <2>4 DEF Agrees, Carries
    <3>3. offered(k) = offered(k)' + 1 /\ coming(k) = coming(k)' + 0
      BY <3>1, <3>2, Zenon
    <3>4. /\ offered(k) > 0 /\ coming(k)' = coming(k) /\ coming(k) \in Nat
          /\ agreeing(k) \in Nat /\ agreeing(k)' \in Nat /\ free \in Nat /\ k \in Nat
      <4>1. offered(k) > 0 /\ coming(k)' = coming(k)
        BY <3>1, <3>3
      <4>2. coming(k) \in Nat /\ agreeing(k) \in Nat
        BY OffersAreNats
      <4>3. agreeing(k)' \in Nat
        BY NextOffersAreNats
      <4>4. free \in Nat /\ k \in Nat
        BY DEF Basic, Numbers, Ids
      <4> QED BY <4>1, <4>2, <4>3, <4>4
    <3>5. coming(k) = 0 /\ Threads(k) = {} /\ ~Saving(k) /\ ~(k >= free)
      BY <2>1, <3>4 DEF Fetching
    <3>6. agreeing(k) = 0 /\ offered(k)' = 0
      BY <2>1, <3>1, <3>3, <3>4 DEF Fetching
    <3>7. agreeing(k)' <= 1
      <4>1. CASE toServer' = Append(toServer, answer)
        <5>1. agreeing(k)' = agreeing(k) + (IF Agrees(answer, k) THEN 1 ELSE 0)
          BY <1>4, <4>1, AgreementSent
        <5> QED BY <3>6, <5>1
      <4>2. CASE UNCHANGED toServer
        BY <3>6, <4>2 DEF agreeing
      <4> QED BY <1>4, <4>1, <4>2
    <3>8. Saving(k)' =>
            /\ sharers[m.name] # None
            /\ Is(sharers'[m.id], sharers[m.name].file, sharers[m.name].mode,
                  sharers[m.name].name, m.size, m.id, sharers[m.name].written)
      <4>1. sharers[m.name] = None => sharers' = sharers
        BY DEF DownloadOffered
      <4>2. Saving(k)' => sharers[m.name] # None
        BY <3>5, <4>1 DEF Saving
      <4> QED BY <4>2 DEF DownloadOffered
    <3>9. Saving(k)' => Saving(m.name)
      BY <2>4, <3>8 DEF Saving, IsWrite, Is
    <3>10. Saving(k)' => sharers'[k].name = m.name /\ sharers'[k].size = m.size
                         /\ sharers'[k].id = k /\ sharers'[k].written = 0
      <4>1. Saving(m.name) => sharers[m.name].name = m.name /\ sharers[m.name].written = 0
        BY <1>1 DEF Fetches, Waiting, Saving, Basic, ClientSide, ClientShape
      <4> QED BY <2>4, <3>8, <3>9, <4>1 DEF Is
    <3>11. Fetching(k)'
      <4>1. offered(k)' + agreeing(k)' <= 1 /\ ~(k >= free')
        BY <1>1, <3>4, <3>5, <3>6, <3>7
      <4> QED BY <2>2, <3>4, <3>5, <3>6, <3>10, <4>1 DEF Fetching
    <3>12. ASSUME Saving(k)' PROVE Copies(k, sharers[k])' /\ Follows(k, sharers[k])'
      <4>1. OfferShape(1) /\ toClient[1] = m
        BY <1>1, AnswerTaken DEF Fetches
      <4>2. /\ store[m.name] # None /\ m.size <= Len(store[m.name])
            /\ m.name \in Stored => m.size = Len(store[m.name])
            /\ IsRead(offers[m.id]) => offers[m.id].file = m.name /\ offers[m.id].size = m.size
        BY <1>1, <4>1 DEF OfferShape
      <4>3. 0 < m.size \/ m.size = 0
        BY <1>1
      <4>4. Copies(k, sharers[k])'
        BY <1>1, <2>4, <3>10, <3>12, <4>2, <4>3 DEF Copies
      <4>5. coming(k)' = 0 /\ Threads(k)' = {}
        BY <2>2, <3>4, <3>5
      <4> QED BY <4>4, <4>5, NextNothingFollows
    <3> QED BY <3>11, <3>12 DEF Receiving
  <2> QED BY <2>3, <2>4
<1>7. \A i \in 1..Len(toClient') : OfferShape(i)'
  BY <1>1, <1>5, OffersKept
<1>8. \A name \in Names : Waiting(name)'
  BY <1>1, <1>3, WaitingKept
<1> QED BY <1>6, <1>7, <1>8 DEF Fetches

LEMMA GrantedFetches ==
  ASSUME Basic, Basic', Grown, Fetches, NamesAreNoNumbers, NEW m \in ClientMessages,
         DownloadGranted(m)
  PROVE  Fetches'
<1>1. /\ UNCHANGED <<sharers, senders, store>> /\ free' = free + 1
      /\ toServer # <<>> /\ m = Head(toServer) /\ toServer' = Tail(toServer)
      /\ m.kind = "RequestFileDownload" /\ m.name \in Names /\ m.name \notin Ids
      /\ store[m.name] # None /\ store[m.name] \in Seq(Piece) /\ Len(store[m.name]) \in Nat
      /\ free \in Ids /\ free \in Keys /\ free \in Nat
      /\ toClient \in Seq(ServerMessages)
  <2>1. Served(m) /\ UNCHANGED <<senders, store>> /\ free' = free + 1
        /\ m.kind = "RequestFileDownload" /\ store[m.name] # None
    BY DEF DownloadGranted
  <2>2. /\ UNCHANGED sharers
        /\ toServer # <<>> /\ m = Head(toServer) /\ toServer' = Tail(toServer)
    BY <2>1 DEF Served, local
  <2>3. m.name \in Names /\ m.name \notin Ids
    BY <2>1, ToServer DEF NamesAreNoNumbers
  <2>4. store[m.name] \in Seq(Piece) /\ Len(store[m.name]) \in Nat
    BY <2>1, <2>3, StoreFacts
  <2>5. free \in Ids /\ free \in Keys /\ free \in Nat
    BY NumbersAreIds DEF Keys, Basic, Numbers
  <2>6. toClient \in Seq(ServerMessages)
    BY DEF Basic, Between
  <2> QED BY <2>1, <2>2, <2>3, <2>4, <2>5, <2>6
<1> DEFINE answer == [kind |-> "AgreeFileDownload", name |-> m.name,
                      size |-> Len(store[m.name]), id |-> free]
<1>2. /\ answer \in ServerMessages /\ toClient' = Append(toClient, answer)
      /\ answer.kind = "AgreeFileDownload" /\ answer.id = free /\ answer.name = m.name
      /\ answer.size = Len(store[m.name])
  BY <1>1 DEF DownloadGranted, ServerMessages
<1> HIDE DEF answer
<1>3. \A k \in Ids : k # free => (IsRead(offers'[k]) => offers'[k] = offers[k])
  BY DEF DownloadGranted, IsRead, Keys
<1>4. toClient # <<>> => toClient' # Tail(toClient)
  BY <1>2, NoneTaken
<1>5. ASSUME NEW k \in Ids PROVE Fetching(k)' /\ Receiving(k)'
  <2>1. Fetching(k) /\ Receiving(k) /\ k \in Keys
    BY DEF Fetches, Keys
  <2>2. Threads(k)' = Threads(k)
    BY <1>1 DEF Threads
  <2>3. CASE k # free
    <3>1. Passed(k)
      <4>1. ~Agrees(answer, k) /\ ~Carries(answer, k)
        BY <1>2, <2>3 DEF Agrees, Carries
      <4> QED BY <1>1, <1>2, <4>1 DEF Passed
    <3>2. free' >= free
      BY <1>1
    <3> QED BY <1>1, <1>3, <1>4, <2>1, <2>2, <2>3, <3>1, <3>2, FetchKept
  <2>4. CASE k = free
    <3>1. /\ offered(k)' = offered(k) + (IF Agrees(answer, k) THEN 1 ELSE 0)
          /\ coming(k)' = coming(k) + (IF Carries(answer, k) THEN 1 ELSE 0)
      BY <1>2, AnswerSent
    <3>2. agreeing(k) = agreeing(k)' + (IF Agrees(m, k) THEN 1 ELSE 0) /\ agreeing(k)' \in Nat
      BY <1>1, AgreementTaken
    <3>3. Agrees(answer, k) /\ ~Carries(answer, k) /\ ~Agrees(m, k)
      BY <1>1, <1>2, <2>4 DEF Agrees, Carries
    <3>4. /\ offered(k)' = offered(k) + 1 /\ coming(k)' = coming(k) + 0
          /\ agreeing(k) = agreeing(k)' + 0
      BY <3>1, <3>2, <3>3, Zenon
    <3>5. /\ offered(k) = 0 /\ agreeing(k) = 0 /\ coming(k) = 0
          /\ Threads(k) = {} /\ ~Saving(k)
      BY <1>1, <2>1, <2>4 DEF Fetching
    <3>6. offered(k)' = 1 /\ coming(k)' = 0 /\ agreeing(k)' = 0
      BY <3>2, <3>4, <3>5
    <3>7. ~Saving(k)' /\ Threads(k)' = {}
      BY <1>1, <2>2, <3>5 DEF Saving
    <3>8. ~(k >= free') /\ offered(k)' + agreeing(k)' <= 1
      BY <1>1, <2>4, <3>6
    <3> QED BY <3>6, <3>7, <3>8 DEF Fetching, Receiving
  <2> QED BY <2>3, <2>4
<1>6. \A i \in 1..Len(toClient') : OfferShape(i)'
  <2>1. \A i \in 1..Len(toClient') :
          toClient'[i] = answer \/ \E j \in 1..Len(toClient) : toClient'[i] = toClient[j]
    BY <1>1, <1>2, SentMessages
  <2>2. ASSUME NEW i \in 1..Len(toClient'), toClient'[i] = answer PROVE OfferShape(i)'
    <3>1. Len(store[m.name]) <= Len(store[m.name])
      BY <1>1
    <3>2. IsRead(offers'[free]) =>
            offers'[free].file = m.name /\ offers'[free].size = Len(store[m.name])
      BY DEF DownloadGranted, Is
    <3> QED BY <1>1, <1>2, <2>2, <3>1, <3>2 DEF OfferShape
  <2>3. \A k \in Ids : IsRead(offers'[k]) => offers'[k] = offers[k] \/ offered(k) = 0
    <3>1. offered(free) = 0
      BY <1>1 DEF Fetches, Fetching
    <3> QED BY <1>3, <3>1
  <2> QED BY <2>1, <2>2, <2>3, OffersKept
<1>7. \A name \in Names : Waiting(name)'
  BY <1>1 DEF Fetches, Waiting, Saving
<1> QED BY <1>5, <1>6, <1>7 DEF Fetches

LEMMA StartedFetches ==
  ASSUME Basic, Basic', Grown, Fetches, NEW m \in ClientMessages, SenderStarts(m)
  PROVE  Fetches'
<1>1. /\ UNCHANGED <<sharers, free, store, toClient>> /\ m.kind = "AgreeFileDownload"
      /\ m.id \in Ids /\ m.id \in Keys
      /\ toServer # <<>> /\ m = Head(toServer) /\ toServer' = Tail(toServer)
      /\ offers'[m.id] = None /\ \A key \in Keys : key # m.id => offers'[key] = offers[key]
  BY ToServer DEF SenderStarts, Served, local, Keys
<1>2. Passes /\ free' >= free
  BY <1>1 DEF Passes, Basic, Numbers
<1>3. toClient # <<>> => toClient' # Tail(toClient)
  BY <1>1, NoneTaken
<1>4. \A k \in Ids : IsRead(offers'[k]) => offers'[k] = offers[k]
  BY <1>1 DEF IsRead, Keys
<1>5. /\ \A t \in senders' : t \in senders \/ (offers[m.id] # None /\ t = offers[m.id])
      /\ offers[m.id] # None => offers[m.id].id = m.id
  BY <1>1 DEF SenderStarts, Basic, ServerSide, ServerShape
<1>6. ASSUME NEW k \in Ids PROVE Fetching(k)' /\ Receiving(k)'
  <2>1. Fetching(k) /\ Receiving(k) /\ Passed(k) /\ k \in Keys
    BY <1>2, PassesFacts DEF Fetches, Keys
  <2>2. CASE k # m.id
    <3>1. Threads(k)' \subseteq Threads(k)
      BY <1>5, <2>2 DEF Threads
    <3> QED BY <1>1, <1>2, <1>3, <1>4, <2>1, <3>1, FetchKept
  <2>3. CASE k = m.id
    <3>1. agreeing(k) = agreeing(k)' + (IF Agrees(m, k) THEN 1 ELSE 0) /\ agreeing(k)' \in Nat
      BY <1>1, AgreementTaken
    <3>2. Agrees(m, k)
      BY <1>1, <2>3 DEF Agrees
    <3>3. agreeing(k) = agreeing(k)' + 1
      BY <3>1, <3>2, Zenon
    <3>4. offered(k) \in Nat /\ coming(k) \in Nat /\ free \in Nat /\ k \in Nat
      BY OffersAreNats DEF Basic, Numbers, Ids
    <3>5. agreeing(k) > 0
      BY <3>1, <3>3
    <3>6. coming(k) = 0 /\ Threads(k) = {} /\ (Saving(k) => sharers[k].written = 0) /\ ~(k >= free)
      BY <2>1, <3>4, <3>5 DEF Fetching
    <3>7. offered(k) = 0 /\ agreeing(k)' = 0
      BY <2>1, <3>1, <3>3, <3>4 DEF Fetching
    <3>8. offered(k)' = 0 /\ coming(k)' = 0 /\ arriving(k)' = arriving(k) /\ free' = free
      BY <1>1, <3>6, <3>7 DEF offered, coming, arriving
    <3>9. \A t \in Threads(k)' : offers[k] # None /\ t = offers[k]
      BY <1>5, <2>3, <3>6 DEF Threads
    <3>10. Fetching(k)'
      BY <3>6, <3>7, <3>8, <3>9 DEF Fetching
    <3>11. ASSUME Saving(k)' PROVE Copies(k, sharers[k])' /\ Follows(k, sharers[k])'
      <4>1. Saving(k) /\ sharers'[k] = sharers[k]
        BY <1>1, <3>11 DEF Saving
      <4>2. Copies(k, sharers[k]) /\ sharers[k].written = 0
        BY <2>1, <3>6, <4>1 DEF Receiving
      <4>3. Copies(k, sharers[k])'
        BY <1>1, <2>3, <4>1, <4>2 DEF Copies, IsRead
      <4>4. arriving(k)' = 0 /\ \A i \in 1..Len(toClient') : ~Carries(toClient'[i], k)
        BY <1>1, <3>6, <3>8, NothingComing
      <4>5. ASSUME NEW t \in Threads(k)', t.mode = "read"
            PROVE  /\ t.file = sharers'[k].name /\ t.size = sharers'[k].size
                   /\ t.written = sharers'[k].written + arriving(k)'
        <5>1. t = offers[k] /\ IsRead(offers[k])
          BY <3>9, <4>5 DEF IsRead
        <5>2. t.written = 0
          BY <2>1, <5>1 DEF Basic, ServerSide, ServerShape, IsRead
        <5>3. t.file = sharers[k].name /\ t.size = sharers[k].size
          BY <4>2, <5>1 DEF Copies
        <5> QED BY <4>1, <4>2, <4>4, <5>2, <5>3
      <4>6. Follows(k, sharers[k])'
        BY <4>4, <4>5 DEF Follows
      <4> QED BY <4>3, <4>6
    <3> QED BY <3>10, <3>11 DEF Receiving
  <2> QED BY <2>2, <2>3
<1>7. \A i \in 1..Len(toClient') : OfferShape(i)'
  BY <1>2, <1>4, PassesFacts, OffersKept
<1>8. \A name \in Names : Waiting(name)'
  BY <1>1 DEF Fetches, Waiting, Saving
<1> QED BY <1>6, <1>7, <1>8 DEF Fetches

LEMMA ForwardedFetches ==
  ASSUME Basic, Basic', Grown, Fetches, NEW s \in Sharer, NEW t \in Sharer, ChunkForwarded(s, t)
  PROVE  Fetches'
<1>1. /\ UNCHANGED <<sharers, toServer, offers, free, store>>
      /\ s \in senders /\ s.mode = "read" /\ s.written < s.size
      /\ s.id \in Ids /\ s.written \in Nat /\ store[s.file] \in Seq(Piece)
      /\ senders' = (senders \ {s}) \union {t}
      /\ t.file = s.file /\ t.mode = "read" /\ t.size = s.size /\ t.id = s.id
      /\ t.written = s.written + 1
      /\ toClient \in Seq(ServerMessages)
  BY SharerFields DEF ChunkForwarded, local, Is, Basic, ServerSide, SenderShape, Readable, Between
<1> DEFINE data == Portion(store[s.file], s.written)
           m == Chunk(s.id, data)
<1>2. data \in Seq(Piece) /\ Len(data) = 1 /\ toClient' = Append(toClient, m)
  BY <1>1, PortionFacts DEF ChunkForwarded
<1>3. m \in ServerMessages /\ m.kind = "Chunk" /\ m.id = s.id /\ m.data = data
  BY <1>1, <1>2 DEF Chunk, ServerMessages, ChunkMessages
<1> HIDE DEF m
<1> HIDE DEF data
<1>4. data # <<>>
  <2>1. Len(data) = 1 BY <1>2
  <2>2. Len(<<>>) = 0 OBVIOUS
  <2>3. data = <<>> => Len(data) = Len(<<>>) OBVIOUS
  <2> QED BY <2>1, <2>2, <2>3
<1>5. toClient # <<>> => toClient' # Tail(toClient)
  BY <1>2, <1>3, NoneTaken
<1>6. free' >= free
  BY <1>1 DEF Basic, Numbers
<1>7. ASSUME NEW k \in Ids PROVE Fetching(k)' /\ Receiving(k)'
  <2>1. Fetching(k) /\ Receiving(k) /\ k \in Keys
    BY DEF Fetches, Keys
  <2>2. CASE k # s.id
    <3>1. Threads(k)' \subseteq Threads(k)
      BY <1>1, <2>2 DEF Threads
    <3>2. ~Agrees(m, k) /\ ~Carries(m, k)
      BY <1>3, <2>2 DEF Agrees, Carries
    <3>3. Passed(k)
      BY <1>1, <1>2, <1>3, <3>2 DEF Passed
    <3> QED BY <1>1, <1>5, <1>6, <2>1, <3>1, <3>3, FetchKept
  <2>3. CASE k = s.id
    <3> DEFINE B(i) == Before(toClient, Pieces(k), i)
               C(i) == Before(toClient', Pieces(k), i)
    <3>1. s \in Threads(k) /\ Threads(k)' = {t}
      <4>1. s \in Threads(k)
        BY <1>1, <2>3 DEF Threads
      <4>2. Threads(k) = {s}
        BY <2>1, <4>1 DEF Fetching
      <4> QED BY <1>1, <2>3, <4>1, <4>2 DEF Threads
    <3>2. offered(k) \in Nat /\ agreeing(k) \in Nat /\ arriving(k) \in Nat
      BY OffersAreNats
    <3>3. ~(k >= free) /\ ~(offered(k) > 0) /\ ~(agreeing(k) > 0)
      BY <2>1, <3>1 DEF Fetching
    <3>4. offered(k) = 0 /\ agreeing(k) = 0
      BY <3>2, <3>3
    <3>5. /\ offered(k)' = offered(k) + (IF Agrees(m, k) THEN 1 ELSE 0)
          /\ arriving(k)' = arriving(k) + (IF Carries(m, k) /\ m.data # <<>> THEN 1 ELSE 0)
          /\ Len(toClient') = Len(toClient) + 1 /\ toClient'[Len(toClient) + 1] = m
          /\ Len(toClient) \in Nat
          /\ \A i \in 1..Len(toClient) : toClient'[i] = toClient[i]
      BY <1>2, <1>3, AnswerSent
    <3>6. \A i \in 1..(Len(toClient) + 1) : C(i) = B(i)
      BY <1>2, <1>3, AnswerSent
    <3>7. ~Agrees(m, k) /\ Carries(m, k) /\ m.data # <<>>
      BY <1>3, <1>4, <2>3 DEF Agrees, Carries
    <3>8. offered(k)' = offered(k) + 0 /\ arriving(k)' = arriving(k) + 1
      BY <3>5, <3>7, Zenon
    <3>9. offered(k)' = 0 /\ agreeing(k)' = 0 /\ ~(k >= free')
      BY <1>1, <3>3, <3>4, <3>8 DEF agreeing
    <3>10. Fetching(k)'
      BY <3>1, <3>9 DEF Fetching
    <3>11. B(Len(toClient) + 1) = arriving(k)
      BY DEF arriving, Count
    <3> HIDE DEF B, C
    <3>12. ASSUME Saving(k)' PROVE Copies(k, sharers[k])' /\ Follows(k, sharers[k])'
      <4> DEFINE r == sharers[k]
      <4>1. Saving(k) /\ sharers'[k] = r
        BY <1>1, <3>12 DEF Saving
      <4>2. Copies(k, r) /\ Follows(k, r) /\ r.written \in Nat /\ r.size \in Nat
        BY <2>1, <4>1, SavingFacts DEF Receiving
      <4> HIDE DEF r
      <4>3. Copies(k, sharers[k])'
        BY <1>1, <4>1, <4>2 DEF Copies
      <4>4. s.file = r.name /\ s.size = r.size /\ s.written = r.written + arriving(k)
        BY <1>1, <3>1, <4>2 DEF Follows
      <4>5. t.file = r.name /\ t.size = r.size /\ t.written = r.written + arriving(k)'
        <5>1. t.written = (r.written + arriving(k)) + 1
          BY <1>1, <4>4
        <5>2. (r.written + arriving(k)) + 1 = r.written + arriving(k)'
          BY <3>2, <3>8, <4>2
        <5> QED BY <1>1, <4>4, <5>1, <5>2
      <4>6. ASSUME NEW i \in 1..Len(toClient'), Carries(toClient'[i], k)
            PROVE  /\ r.written + C(i) < r.size
                   /\ toClient'[i].data = Portion(store[r.name], r.written + C(i))
        <5>1. CASE i \in 1..Len(toClient)
          <6>1. toClient'[i] = toClient[i] /\ C(i) = B(i)
            BY <3>5, <3>6, <5>1
          <6> QED BY <4>2, <4>6, <5>1, <6>1 DEF Follows, B
        <5>2. CASE i = Len(toClient) + 1
          <6>1. toClient'[i] = m /\ C(i) = arriving(k)
            BY <3>5, <3>6, <3>11, <5>2
          <6>2. m.data = Portion(store[r.name], s.written) /\ s.written < r.size
            BY <1>1, <1>3, <4>4 DEF data
          <6> QED BY <4>4, <6>1, <6>2
        <5> QED BY <3>5, <5>1, <5>2
      <4>7. Follows(k, sharers[k])'
        BY <1>1, <3>1, <4>1, <4>5, <4>6 DEF Follows, C
      <4> QED BY <4>3, <4>7
    <3> QED BY <3>10, <3>12 DEF Receiving
  <2> QED BY <2>2, <2>3
<1>8. \A i \in 1..Len(toClient') : OfferShape(i)'
  <2>1. \A i \in 1..Len(toClient') :
          toClient'[i] = m \/ \E j \in 1..Len(toClient) : toClient'[i] = toClient[j]
    BY <1>1, <1>2, <1>3, SentMessages
  <2>2. \A i \in 1..Len(toClient') : toClient'[i].kind = "AgreeFileDownload" =>
          \E j \in 1..Len(toClient) : toClient'[i] = toClient[j]
    BY <1>3, <2>1
  <2> QED BY <1>1, <2>2, OffersKept
<1>9. \A name \in Names : Waiting(name)'
  BY <1>1 DEF Fetches, Waiting, Saving
<1> QED BY <1>7, <1>8, <1>9 DEF Fetches

LEMMA FetchesStep ==
  ASSUME Basic, Basic', Grown, Fetches, NamesAreNoNumbers, Step PROVE Fetches'
<1>1. CASE OfClient
  BY <1>1, QuietFetches, PartFetches, BeginsFetches, SentFetches, ReceivedFetches, SavedFetches,
     OfferedFetches DEF OfClient
<1>2. CASE OfServer
  BY <1>2, QuietFetches, ServedFetches, GrantedFetches, StartedFetches, ForwardedFetches
     DEF OfServer
<1> QED BY <1>1, <1>2 DEF Step

LEMMA InitFetches == Init => Fetches
<1> SUFFICES ASSUME Init PROVE Fetches
  OBVIOUS
<1>1. Len(toServer) = 0 /\ Len(toClient) = 0 /\ senders = {} /\ \A key \in Keys : ~Saving(key)
  BY DEF Init, Saving, IsWrite
<1>2. \A k : offered(k) = 0 /\ agreeing(k) = 0 /\ coming(k) = 0
  BY <1>1, NoneBefore DEF offered, agreeing, coming, Count
<1>3. \A k \in Ids : Fetching(k) /\ Receiving(k)
  BY <1>1, <1>2 DEF Fetching, Receiving, Threads, Keys
<1>4. \A name \in Names : Waiting(name)
  BY <1>1 DEF Waiting, Keys
<1> QED BY <1>1, <1>3, <1>4 DEF Fetches

-----------------------------------------------------------------------------
(* What is at the places downloads are saved to *)

To(c, place) == "download" \in DOMAIN c /\ c.download.place = place

\* The commands the loop has not read are the last that were typed.
InOrder == \A i \in 1..Len(typed) : typed[i] = given[(Len(given) - Len(typed)) + i]

At(key, place) == Saving(key) /\ sharers[key].file = place

\* The file that is saved there is the beginning of the server's.
Held(key, place) ==
  /\ \A d \in saved : d.place # place
  /\ key \in Names => home[place] = <<>>
  /\ key \in Ids => home[place] = Begun(store[sharers[key].name], sharers[key].written)

Place(place) ==
  FetchedOnce(place) =>
    /\ \A i \in 1..Len(typed) : To(typed[i], place) => home[place] = None
    /\ \A key, other \in Keys : At(key, place) /\ At(other, place) => key = other
    /\ \A key \in Keys : At(key, place) => Held(key, place)

Copied(d) ==
  /\ home[d.place] # None
  /\ FetchedOnce(d.place) =>
       /\ store[d.name] # None
       /\ \E w \in 0..Len(store[d.name]) :
            /\ home[d.place] = Begun(store[d.name], w)
            /\ d.name \in Stored => w = Len(store[d.name])

Saves ==
  /\ InOrder
  /\ \A place \in Places : Place(place)
  /\ \A d \in saved : Copied(d)

LEMMA OnceFacts ==
  ASSUME NEW place
  PROVE  FetchedOnce(place) <=>
           \A i, j \in 1..Len(given) : To(given[i], place) /\ To(given[j], place) => i = j
BY DEF FetchedOnce, To

\* Nothing new is at the place.
LEMMA PlaceKept ==
  ASSUME Basic, Basic', Grown, Fetches, NamesAreNoNumbers, NEW place \in Places, Place(place),
         FetchedOnce(place)' => FetchedOnce(place), home'[place] = home[place],
         \A d \in saved' : d.place = place => d \in saved,
         \A i \in 1..Len(typed') : To(typed'[i], place) =>
           home[place] = None \/ \E j \in 1..Len(typed) : typed'[i] = typed[j],
         \A key \in Keys : At(key, place)' => sharers'[key] = sharers[key]
  PROVE  Place(place)'
<1> SUFFICES ASSUME FetchedOnce(place)'
             PROVE  /\ \A i \in 1..Len(typed') : To(typed'[i], place) => home'[place] = None
                    /\ \A key, other \in Keys : At(key, place)' /\ At(other, place)' => key = other
                    /\ \A key \in Keys : At(key, place)' => Held(key, place)'
  BY DEF Place
<1>1. /\ \A i \in 1..Len(typed) : To(typed[i], place) => home[place] = None
      /\ \A key, other \in Keys : At(key, place) /\ At(other, place) => key = other
      /\ \A key \in Keys : At(key, place) => Held(key, place)
  BY DEF Place
<1>2. \A key \in Keys : At(key, place)' => At(key, place)
  BY DEF At, Saving, IsWrite
<1>3. ASSUME NEW key \in Keys, At(key, place)' PROVE Held(key, place)'
  <2>1. Held(key, place) /\ Saving(key) /\ sharers'[key] = sharers[key]
    BY <1>1, <1>2, <1>3 DEF At
  <2>2. ASSUME key \in Ids
        PROVE  home'[place] = Begun(store'[sharers'[key].name], sharers'[key].written)
    <3> DEFINE s == sharers[key]
    <3>1. /\ s.name \in Names /\ s.written \in Nat /\ s.size \in Nat /\ s.written <= s.size
      BY <2>1, SavingFacts
    <3>2. store[s.name] # None /\ s.size <= Len(store[s.name])
      BY <2>1, <2>2 DEF Fetches, Receiving, Copies
    <3>3. s.written \in 0..Len(store[s.name])
      BY <3>1, <3>2, StoreFacts
    <3>4. Begun(store'[s.name], s.written) = Begun(store[s.name], s.written)
      BY <3>1, <3>2, <3>3, GrownFacts
    <3> QED BY <2>1, <2>2, <3>4 DEF Held
  <2> QED BY <2>1, <2>2 DEF Held
<1>4. \A i \in 1..Len(typed') : To(typed'[i], place) => home'[place] = None
  BY <1>1
<1> QED BY <1>1, <1>2, <1>3, <1>4

LEMMA CopiedKept ==
  ASSUME Basic, Basic', Grown, NEW d \in Downloads, Copied(d),
         FetchedOnce(d.place)' => FetchedOnce(d.place), home'[d.place] = home[d.place]
  PROVE  Copied(d)'
<1>1. home'[d.place] # None
  BY DEF Copied
<1>2. ASSUME FetchedOnce(d.place)'
      PROVE  /\ store'[d.name] # None
             /\ \E w \in 0..Len(store'[d.name]) :
                  /\ home'[d.place] = Begun(store'[d.name], w)
                  /\ d.name \in Stored => w = Len(store'[d.name])
  <2>1. d.name \in Names /\ store[d.name] # None
    BY <1>2, TransferAssumption DEF Copied
  <2>2. PICK w \in 0..Len(store[d.name]) :
          /\ home[d.place] = Begun(store[d.name], w)
          /\ d.name \in Stored => w = Len(store[d.name])
    BY <1>2 DEF Copied
  <2>3. /\ store'[d.name] # None /\ Len(store[d.name]) <= Len(store'[d.name])
        /\ Len(store[d.name]) \in Nat /\ Len(store'[d.name]) \in Nat
    <3>1. store'[d.name] # None /\ Len(store[d.name]) <= Len(store'[d.name])
      BY <2>1 DEF Grown
    <3> QED BY <2>1, <3>1, StoreFacts DEF Basic, ServerSide
  <2>4. /\ Begun(store'[d.name], w) = Begun(store[d.name], w)
        /\ d.name \in Stored => store'[d.name] = store[d.name]
    BY <2>1, GrownFacts
  <2>5. w \in 0..Len(store'[d.name])
    BY <2>3
  <2> QED BY <2>2, <2>3, <2>4, <2>5
<1> QED BY <1>1, <1>2 DEF Copied

\* Commands are read in the order they were typed in.
LEMMA InOrderKept ==
  ASSUME Basic, Basic', InOrder,
         \/ UNCHANGED <<typed, given>>
         \/ UNCHANGED given /\ typed # <<>> /\ typed' = Tail(typed)
         \/ \E c \in Commands : typed' = Append(typed, c) /\ given' = Append(given, c)
  PROVE  InOrder'
<1>1. typed \in Seq(Commands) /\ given \in Seq(Commands) /\ Len(typed) \in Nat /\ Len(given) \in Nat
  BY DEF Basic, History
<1>2. Len(typed) <= Len(given)
  <2>1. /\ next \in Nat /\ free \in Nat /\ Count(toServer, Wants) \in Nat
        /\ next + free + Count(toServer, Wants) + Len(typed) <= Len(given)
    BY NumbersAreIds DEF Basic, Numbers
  <2> QED BY <1>1, <2>1
<1>3. CASE UNCHANGED <<typed, given>>
  BY <1>3 DEF InOrder
<1>4. CASE UNCHANGED given /\ typed # <<>> /\ typed' = Tail(typed)
  <2>1. /\ Len(typed) # 0 /\ Len(typed') = Len(typed) - 1
        /\ \A i \in 1..Len(typed') : typed'[i] = typed[i + 1]
    BY <1>1, <1>4
  <2>2. ASSUME NEW i \in 1..Len(typed')
        PROVE  typed'[i] = given'[(Len(given') - Len(typed')) + i]
    <3>1. i + 1 \in 1..Len(typed)
      BY <1>1, <2>1
    <3>2. (Len(given) - Len(typed)) + (i + 1) = (Len(given') - Len(typed')) + i
      <4>1. i \in Nat
        OBVIOUS
      <4>2. Len(given') = Len(given)
        BY <1>4
      <4> QED BY <1>1, <2>1, <4>1, <4>2
    <3> QED BY <1>4, <2>1, <3>1, <3>2 DEF InOrder
  <2> QED BY <2>2 DEF InOrder
<1>5. ASSUME NEW c \in Commands, typed' = Append(typed, c), given' = Append(given, c)
      PROVE  InOrder'
  <2>1. /\ Len(typed') = Len(typed) + 1 /\ Len(given') = Len(given) + 1
        /\ \A i \in 1..Len(typed) : typed'[i] = typed[i]
        /\ \A i \in 1..Len(given) : given'[i] = given[i]
        /\ typed'[Len(typed) + 1] = c /\ given'[Len(given) + 1] = c
    BY <1>1, <1>5
  <2>2. ASSUME NEW i \in 1..Len(typed')
        PROVE  typed'[i] = given'[(Len(given') - Len(typed')) + i]
    <3>1. Len(given') - Len(typed') = Len(given) - Len(typed)
      BY <1>1, <2>1
    <3>2. CASE i \in 1..Len(typed)
      <4>1. (Len(given) - Len(typed)) + i \in 1..Len(given)
        BY <1>1, <1>2, <3>2
      <4> QED BY <2>1, <3>1, <3>2, <4>1 DEF InOrder
    <3>3. CASE i = Len(typed) + 1
      <4>1. (Len(given) - Len(typed)) + i = Len(given) + 1
        BY <1>1, <3>3
      <4> QED BY <2>1, <3>1, <3>3, <4>1
    <3> QED BY <1>1, <2>1, <3>2, <3>3
  <2> QED BY <2>2 DEF InOrder
<1> QED BY <1>3, <1>4, <1>5

\* Nothing new is saved anywhere.
LEMMA SavesKept ==
  ASSUME Basic, Basic', Grown, Fetches, NamesAreNoNumbers, Saves,
         UNCHANGED <<home, saved>>,
         \/ UNCHANGED <<typed, given>>
         \/ UNCHANGED given /\ typed # <<>> /\ typed' = Tail(typed)
         \/ \E c \in Commands : CommandTyped(c),
         \A key \in Keys : Saving(key)' => sharers'[key] = sharers[key]
  PROVE  Saves'
<1>1. typed \in Seq(Commands) /\ given \in Seq(Commands) /\ saved \subseteq Downloads
  BY DEF Basic, History
<1>2. InOrder'
  BY InOrderKept DEF Saves, CommandTyped
<1>3. ASSUME NEW place PROVE FetchedOnce(place)' => FetchedOnce(place)
  <2>1. CASE UNCHANGED given
    BY <2>1 DEF FetchedOnce
  <2>2. ASSUME NEW c \in Commands, CommandTyped(c)
        PROVE  FetchedOnce(place)' => FetchedOnce(place)
    <3>1. /\ Len(given) \in Nat /\ Len(given') = Len(given) + 1
          /\ \A i \in 1..Len(given) : given'[i] = given[i]
      BY <1>1, <2>2 DEF CommandTyped
    <3>2. \A i \in 1..Len(given) : i \in 1..Len(given')
      BY <3>1
    <3> QED BY <3>1, <3>2 DEF FetchedOnce
  <2> QED BY <2>1, <2>2
<1>4. ASSUME NEW place, NEW i \in 1..Len(typed'), To(typed'[i], place)
      PROVE  home[place] = None \/ \E j \in 1..Len(typed) : typed'[i] = typed[j]
  <2>1. CASE UNCHANGED typed
    BY <2>1
  <2>2. CASE typed # <<>> /\ typed' = Tail(typed)
    <3>1. /\ Len(typed) \in Nat /\ Len(typed') = Len(typed) - 1
          /\ typed'[i] = typed[i + 1]
      BY <1>1, <2>2
    <3>2. i + 1 \in 1..Len(typed)
      BY <3>1
    <3> QED BY <3>1, <3>2
  <2>3. ASSUME NEW c \in Commands, CommandTyped(c)
        PROVE  home[place] = None \/ \E j \in 1..Len(typed) : typed'[i] = typed[j]
    <3>1. /\ Len(typed) \in Nat /\ Len(typed') = Len(typed) + 1
          /\ \A j \in 1..Len(typed) : typed'[j] = typed[j]
          /\ typed'[Len(typed) + 1] = c
      BY <1>1, <2>3 DEF CommandTyped
    <3>2. CASE i \in 1..Len(typed)
      BY <3>1, <3>2
    <3>3. CASE i = Len(typed) + 1
      BY <1>4, <2>3, <3>1, <3>3 DEF CommandTyped, To
    <3>4. i \in 1..Len(typed) \/ i = Len(typed) + 1
      BY <3>1
    <3> QED BY <3>2, <3>3, <3>4
  <2> QED BY <2>1, <2>2, <2>3
<1>5. ASSUME NEW place \in Places PROVE Place(place)'
  <2>1. Place(place)
    BY DEF Saves
  <2>2. \A key \in Keys : At(key, place)' => sharers'[key] = sharers[key]
    BY DEF At
  <2> QED BY <1>3, <1>4, <2>1, <2>2, PlaceKept
<1>6. ASSUME NEW d \in saved' PROVE Copied(d)'
  <2>1. d \in Downloads /\ Copied(d)
    BY <1>1 DEF Saves
  <2> QED BY <1>3, <2>1, CopiedKept
<1> QED BY <1>2, <1>5, <1>6 DEF Saves

LEMMA QuietSaves ==
  ASSUME Basic, Basic', Grown, Fetches, NamesAreNoNumbers, Saves,
         \/ Quiet \/ PartSent
         \/ \E c \in Commands : CommandTyped(c)
         \/ \E u \in Uploads : UploadBegins(u)
         \/ \E i \in 1..Len(queue), w \in Nat : ChunkSent(i, w)
         \/ \E m \in ServerMessages :
              ChunkIgnored(m) \/ UploadAgreed(m) \/ UploadDeclined(m) \/ DownloadDeclined(m)
         \/ OfServer
  PROVE  Saves'
<1>1. CASE Quiet
  BY <1>1, SavesKept DEF Quiet, local, past
<1>2. ASSUME NEW c \in Commands, CommandTyped(c) PROVE Saves'
  BY <1>2, SavesKept DEF CommandTyped, local, past
<1>3. ASSUME NEW u \in Uploads, UploadBegins(u) PROVE Saves'
  <2>1. /\ UNCHANGED <<home, saved, given>> /\ typed # <<>> /\ typed' = Tail(typed)
        /\ next \in Keys
    BY <1>3, NumbersAreIds DEF UploadBegins, Commanded, Keys
  <2>2. \A key \in Keys : Saving(key)' => sharers'[key] = sharers[key]
    BY <1>3 DEF UploadBegins, Saving, IsWrite, Is
  <2> QED BY <2>1, <2>2, SavesKept
<1>4. ASSUME NEW i \in 1..Len(queue), NEW w \in Nat, ChunkSent(i, w) PROVE Saves'
  BY <1>4, SavesKept DEF ChunkSent, past
<1>5. ASSUME NEW m \in ServerMessages,
             ChunkIgnored(m) \/ UploadAgreed(m) \/ UploadDeclined(m) \/ DownloadDeclined(m)
      PROVE  Saves'
  <2>1. UNCHANGED <<home, saved, typed, given>>
    BY <1>5 DEF ChunkIgnored, UploadAgreed, UploadDeclined, DownloadDeclined, Received
  <2>2. \A key \in Keys : Saving(key)' => sharers'[key] = sharers[key]
    BY <1>5 DEF ChunkIgnored, UploadAgreed, UploadDeclined, DownloadDeclined, Saving, IsWrite
  <2> QED BY <2>1, <2>2, SavesKept
<1>6. CASE OfServer
  <2>1. ASSUME NEW m \in ClientMessages, Served(m)
        PROVE  UNCHANGED <<home, sharers, saved, typed, given>>
    BY <2>1 DEF Served, local
  <2>2. UNCHANGED <<home, sharers, saved, typed, given>>
    BY <1>6, <2>1 DEF OfServer, UploadRefused, UploadGranted, DownloadRefused, DownloadGranted,
         SenderStarts, ChunkDropped, ChunkStored, ChunkForwarded, SenderStops, local, past
  <2> QED BY <2>2, SavesKept
<1>7. CASE PartSent
  <2>1. UNCHANGED <<home, sharers, saved, typed, given>>
    BY <1>7, PartFacts
  <2> QED BY <2>1, SavesKept
<1> QED BY <1>1, <1>2, <1>3, <1>4, <1>5, <1>6, <1>7

\* What the loop has read is gone.
LEMMA CommandTaken ==
  ASSUME Basic, typed # <<>>, typed' = Tail(typed)
  PROVE  /\ Len(typed) \in Nat \ {0} /\ Len(typed') = Len(typed) - 1
         /\ Head(typed) = typed[1] /\ 1 \in 1..Len(typed)
         /\ \A i \in 1..Len(typed') : i + 1 \in 1..Len(typed) /\ typed'[i] = typed[i + 1]
<1>1. typed \in Seq(Commands)
  BY DEF Basic, History
<1>2. /\ Len(typed) \in Nat \ {0} /\ Len(typed') = Len(typed) - 1 /\ Head(typed) = typed[1]
      /\ \A i \in 1..Len(typed') : typed'[i] = typed[i + 1]
  BY <1>1
<1>3. 1 \in 1..Len(typed) /\ \A i \in 1..Len(typed') : i + 1 \in 1..Len(typed)
  BY <1>2
<1> QED BY <1>2, <1>3

LEMMA BeginsSaves ==
  ASSUME Basic, Basic', Grown, Fetches, NamesAreNoNumbers, Saves, NEW d \in Downloads,
         DownloadBegins(d)
  PROVE  Saves'
<1> DEFINE p == d.place
<1>1. /\ UNCHANGED <<given, saved>> /\ typed # <<>> /\ typed' = Tail(typed)
      /\ home' = [home EXCEPT ![p] = <<>>]
      /\ Is(sharers'[d.name], p, "write", d.name, 0, 0, 0)
      /\ \A key \in Keys : key # d.name => sharers'[key] = sharers[key]
      /\ "download" \in DOMAIN Head(typed) /\ Head(typed).download = d
  BY DEF DownloadBegins, Commanded
<1>2. /\ p \in Places /\ d.name \in Names /\ d.name \in Keys /\ d.name \notin Ids
      /\ home'[p] = <<>> /\ <<>> # None
      /\ \A place \in Places : place # p => home'[place] = home[place]
  <2>1. p \in Places /\ d.name \in Names
    BY TransferAssumption
  <2>2. d.name \in Keys /\ d.name \notin Ids
    BY <2>1 DEF Keys, NamesAreNoNumbers
  <2>3. <<>> # None
    <3>1. <<>> \in Seq(Piece)
      OBVIOUS
    <3> QED BY <3>1, TransferAssumption
  <2>4. home'[p] = <<>> /\ \A place \in Places : place # p => home'[place] = home[place]
    BY <1>1, <2>1 DEF Basic, ClientSide
  <2> QED BY <2>1, <2>2, <2>3, <2>4
<1>3. InOrder'
  BY <1>1, InOrderKept DEF Saves
<1>4. /\ To(typed[1], p)
      /\ \A i \in 1..Len(typed') : \E j \in 1..Len(typed) : typed'[i] = typed[j]
  BY <1>1, CommandTaken DEF To
<1>5. \A place : FetchedOnce(place)' = FetchedOnce(place)
  BY <1>1 DEF FetchedOnce
<1>6. ASSUME NEW place \in Places, place # p PROVE Place(place)'
  <2>1. Place(place)
    BY DEF Saves
  <2>2. \A key \in Keys : At(key, place)' => sharers'[key] = sharers[key]
    BY <1>1, <1>6 DEF At, Is
  <2>3. home'[place] = home[place]
    BY <1>2, <1>6
  <2> QED BY <1>1, <1>4, <1>5, <2>1, <2>2, <2>3, PlaceKept
<1>7. FetchedOnce(p) => home[p] = None
  BY <1>1, <1>2, <1>4, CommandTaken DEF Saves, Place
<1>8. Place(p)'
  <2> SUFFICES ASSUME FetchedOnce(p)'
               PROVE  /\ \A i \in 1..Len(typed') : To(typed'[i], p) => home'[p] = None
                      /\ \A key, other \in Keys : At(key, p)' /\ At(other, p)' => key = other
                      /\ \A key \in Keys : At(key, p)' => Held(key, p)'
    BY DEF Place
  <2>1. FetchedOnce(p) /\ home[p] = None
    BY <1>5, <1>7
  <2>2. \A key \in Keys : ~At(key, p)
    BY <2>1, SavingFacts DEF At
  <2>3. \A key \in Keys : At(key, p)' => key = d.name
    BY <1>1, <2>2 DEF At, Saving
  <2>4. \A e \in saved' : e.place # p
    BY <1>1, <2>1 DEF Saves, Copied
  <2>5. Held(d.name, p)'
    BY <1>2, <2>4 DEF Held
  <2>6. ASSUME NEW i \in 1..Len(typed'), To(typed'[i], p) PROVE FALSE
    <3> DEFINE n == Len(given) - Len(typed)
    <3>1. /\ i + 1 \in 1..Len(typed) /\ typed'[i] = typed[i + 1] /\ 1 \in 1..Len(typed)
          /\ Len(typed) \in Nat
      BY <1>1, CommandTaken
    <3>2. Len(given) \in Nat /\ Len(typed) <= Len(given)
      <4>1. /\ next \in Nat /\ free \in Nat /\ Count(toServer, Wants) \in Nat
            /\ next + free + Count(toServer, Wants) + Len(typed) <= Len(given)
            /\ Len(given) \in Nat
        BY NumbersAreIds DEF Basic, Numbers, History
      <4> QED BY <3>1, <4>1
    <3>3. To(given[n + 1], p) /\ To(given[n + (i + 1)], p)
      BY <1>4, <2>6, <3>1 DEF Saves, InOrder
    <3>4. n + 1 \in 1..Len(given) /\ n + (i + 1) \in 1..Len(given) /\ n + 1 # n + (i + 1)
      BY <3>1, <3>2
    <3> QED BY <2>1, <3>3, <3>4, OnceFacts
  <2> QED BY <2>3, <2>5, <2>6
<1>9. ASSUME NEW e \in saved' PROVE Copied(e)'
  <2>1. e \in Downloads /\ Copied(e) /\ e.place \in Places
    BY <1>1, TransferAssumption DEF Saves, Basic, History
  <2>2. CASE e.place = p
    BY <1>2, <1>5, <1>7, <2>1, <2>2 DEF Copied
  <2>3. CASE e.place # p
    BY <1>2, <1>5, <2>1, <2>3, CopiedKept
  <2> QED BY <2>2, <2>3
<1>10. \A place \in Places : Place(place)'
  BY <1>6, <1>8
<1> QED BY <1>3, <1>9, <1>10 DEF Saves

LEMMA OfferedSaves ==
  ASSUME Basic, Basic', Grown, Fetches, NamesAreNoNumbers, Saves, NEW m \in ServerMessages,
         DownloadOffered(m)
  PROVE  Saves'
<1>1. /\ UNCHANGED <<home, saved, typed, given>>
      /\ m.id \in Ids /\ m.id \in Keys /\ m.name \in Names /\ m.name \in Keys
      /\ m.id \notin Names
  BY ToClient DEF DownloadOffered, Received, Keys, NamesAreNoNumbers
<1>2. CASE sharers[m.name] = None
  <2>1. sharers' = sharers
    BY <1>2 DEF DownloadOffered
  <2> QED BY <1>1, <2>1, SavesKept
<1>3. CASE sharers[m.name] # None
  <2>2. Saving(m.name)
    <3>1. sharers[m.name] \in Sharer /\ ClientShape(m.name) /\ m.name \notin Ids
      <4>1. sharers \in Map /\ ClientShape(m.name)
        BY <1>1 DEF Basic, ClientSide
      <4>2. sharers[m.name] \in Sharer
        BY <1>1, <1>3, <4>1 DEF Map
      <4> QED BY <1>1, <4>1, <4>2 DEF NamesAreNoNumbers
    <3> QED BY <1>3, <3>1, SharerFields DEF ClientShape, Saving, IsRead, IsWrite
  <2>3. sharers[m.name].written = 0 /\ sharers[m.name].file \in Places
    <3>1. ClientShape(m.name)
      BY <1>1 DEF Basic, ClientSide
    <3> QED BY <1>1, <2>2, <3>1 DEF ClientShape, Saving
  <2>12. PICK p \in Places : p = sharers[m.name].file
    BY <2>3
  <2>1. /\ sharers'[m.id].file = p /\ sharers'[m.id].written = 0
        /\ \A key \in Keys : key # m.id => sharers'[key] = IF key = m.name THEN None ELSE sharers[key]
    BY <1>3, <2>3, <2>12 DEF DownloadOffered, Is
  <2>4. At(m.name, p)
    BY <2>2, <2>12 DEF At
  <2>5. ASSUME NEW key \in Keys, key # m.id, Saving(key)'
        PROVE  sharers'[key] = sharers[key] /\ key # m.name
    BY <2>1, <2>5 DEF Saving, IsWrite
  <2>6. \A place : FetchedOnce(place)' = FetchedOnce(place)
    BY <1>1 DEF FetchedOnce
  <2>7. ASSUME NEW place \in Places, place # p PROVE Place(place)'
    <3>1. Place(place)
      BY DEF Saves
    <3>2. \A key \in Keys : At(key, place)' => sharers'[key] = sharers[key]
      BY <2>1, <2>5, <2>7 DEF At
    <3> QED BY <1>1, <2>6, <3>1, <3>2, PlaceKept
  <2>8. Place(p)'
    <3> SUFFICES ASSUME FetchedOnce(p)'
                 PROVE  /\ \A i \in 1..Len(typed') : To(typed'[i], p) => home'[p] = None
                        /\ \A key, other \in Keys : At(key, p)' /\ At(other, p)' => key = other
                        /\ \A key \in Keys : At(key, p)' => Held(key, p)'
      BY DEF Place
    <3>1. /\ \A i \in 1..Len(typed) : To(typed[i], p) => home[p] = None
          /\ \A key, other \in Keys : At(key, p) /\ At(other, p) => key = other
          /\ Held(m.name, p)
      BY <1>1, <2>4, <2>6 DEF Saves, Place
    <3>2. ASSUME NEW key \in Keys, At(key, p)' PROVE key = m.id
      <4>1. CASE key # m.id
        <5>1. At(key, p) /\ key # m.name
          BY <2>5, <3>2, <4>1 DEF At, Saving
        <5> QED BY <1>1, <2>4, <3>1, <5>1
      <4> QED BY <4>1
    <3>3. Held(m.id, p)'
      <4>1. home'[p] = <<>> /\ \A d \in saved' : d.place # p
        BY <1>1, <3>1 DEF Held
      <4>2. sharers'[m.id].written = 0
        BY <2>1
      <4> QED BY <1>1, <4>1, <4>2, BegunNothing DEF Held
    <3>4. \A i \in 1..Len(typed') : To(typed'[i], p) => home'[p] = None
      BY <1>1, <3>1
    <3> QED BY <3>2, <3>3, <3>4
  <2>9. ASSUME NEW d \in saved' PROVE Copied(d)'
    <3>1. d \in Downloads /\ Copied(d)
      BY <1>1 DEF Saves, Basic, History
    <3> QED BY <1>1, <2>6, <3>1, CopiedKept
  <2>10. InOrder'
    BY <1>1, InOrderKept DEF Saves
  <2>11. \A place \in Places : Place(place)'
    BY <2>7, <2>8
  <2> QED BY <2>9, <2>10, <2>11 DEF Saves
<1> QED BY <1>2, <1>3

LEMMA SavedSaves ==
  ASSUME Basic, Basic', Grown, Fetches, NamesAreNoNumbers, Saves, NEW m \in ServerMessages,
         ChunkSaved(m)
  PROVE  Saves'
<1>1. PICK s \in Sharer : s = sharers[m.id]
  <2>1. m.id \in Keys /\ Saving(m.id)
    BY SavedPiece DEF Keys
  <2> QED BY <2>1, SavingFacts
<1>2. PICK k \in Ids : k = m.id
  BY SavedPiece
<1>3. /\ s.written < s.size /\ s.size <= Len(store[s.name])
      /\ store[s.name] \in Seq(Piece) /\ Len(store[s.name]) \in Nat
      /\ m.data = Portion(store[s.name], s.written)
      /\ Len(m.data) = 1 /\ Accepted(s, m.data) = m.data
  BY <1>1, SavedPiece
<1>4. k \in Keys /\ k \notin Names /\ sharers[k] = s /\ Saving(k)
  BY <1>1, <1>2, SavedPiece DEF Keys, NamesAreNoNumbers
<1>5. /\ s.file \in Places /\ s.name \in Names /\ s.size \in Nat /\ s.written \in Nat
      /\ home[s.file] # None /\ home[s.file] \in Seq(Piece)
  BY <1>4, SavingFacts DEF Basic, ClientSide
<1>6. PICK p \in Places : p = s.file
  BY <1>5
<1>7. s.written \in 0..Len(store[s.name]) /\ s.written + 1 \in 0..Len(store[s.name])
  BY <1>3, <1>5
<1>8. /\ UNCHANGED <<typed, given, store>>
      /\ home' = [home EXCEPT ![p] = Overwritten(home[p], s.written, m.data)]
      /\ \A key \in Keys : key # k => sharers'[key] = sharers[key]
      /\ \/ /\ s.written + 1 >= s.size /\ sharers'[k] = None
            /\ saved' = saved \union {[name |-> s.name, place |-> p]}
         \/ /\ Is(sharers'[k], p, "write", s.name, s.size, s.id, s.written + 1)
            /\ saved' = saved
  <2>1. UNCHANGED <<typed, given, store>>
    BY DEF ChunkSaved, Received, remote
  <2>2. home' = [home EXCEPT ![p] = Overwritten(home[p], s.written, m.data)]
    BY <1>1, <1>3, <1>6 DEF ChunkSaved
  <2>3. \A key \in Keys : key # k => sharers'[key] = sharers[key]
    BY <1>2 DEF ChunkSaved
  <2>4. \/ /\ s.written + Len(m.data) >= s.size /\ sharers'[k] = None
           /\ saved' = saved \union {[name |-> s.name, place |-> p]}
        \/ /\ Is(sharers'[k], p, "write", s.name, s.size, s.id, s.written + Len(m.data))
           /\ saved' = saved
    BY <1>1, <1>2, <1>3, <1>6 DEF ChunkSaved
  <2> QED BY <1>3, <2>1, <2>2, <2>3, <2>4
<1>9. /\ home'[p] = Overwritten(home[p], s.written, m.data) /\ home'[p] # None
      /\ \A place \in Places : place # p => home'[place] = home[place]
  <2>1. m.data \in Seq(Piece)
    BY <1>3, <1>5, PortionFacts
  <2>2. Overwritten(home[p], s.written, m.data) \in Seq(Piece)
    BY <1>5, <1>6, <2>1, OverwrittenType
  <2>3. Overwritten(home[p], s.written, m.data) # None
    BY <2>2, TransferAssumption
  <2>4. home \in [Places -> Seq(Piece) \union {None}]
    BY DEF Basic, ClientSide
  <2> QED BY <1>8, <2>3, <2>4
<1>10. \A place : FetchedOnce(place)' = FetchedOnce(place)
  BY <1>8 DEF FetchedOnce
<1>11. At(k, p)
  BY <1>4, <1>6 DEF At
<1>12. FetchedOnce(p) =>
         /\ \A i \in 1..Len(typed) : ~To(typed[i], p)
         /\ \A key \in Keys : At(key, p) => key = k
         /\ \A d \in saved : d.place # p
         /\ home'[p] = Begun(store[s.name], s.written + 1)
  <2> SUFFICES ASSUME FetchedOnce(p)
               PROVE  /\ \A i \in 1..Len(typed) : ~To(typed[i], p)
                      /\ \A key \in Keys : At(key, p) => key = k
                      /\ \A d \in saved : d.place # p
                      /\ home'[p] = Begun(store[s.name], s.written + 1)
    OBVIOUS
  <2>1. /\ \A i \in 1..Len(typed) : To(typed[i], p) => home[p] = None
        /\ \A key, other \in Keys : At(key, p) /\ At(other, p) => key = other
        /\ Held(k, p)
    BY <1>4, <1>11 DEF Saves, Place
  <2>2. home[p] = Begun(store[s.name], s.written)
    BY <1>4, <2>1 DEF Held
  <2>3. home'[p] = Begun(store[s.name], s.written + 1)
    BY <1>3, <1>7, <1>9, <2>2, WriteOf
  <2>4. \A d \in saved : d.place # p
    BY <2>1 DEF Held
  <2>5. \A i \in 1..Len(typed) : ~To(typed[i], p)
    BY <1>5, <1>6, <2>1
  <2>6. \A key \in Keys : At(key, p) => key = k
    BY <1>4, <1>11, <2>1
  <2> QED BY <2>3, <2>4, <2>5, <2>6
<1>13. \A d \in saved' : d \in saved \/ d = [name |-> s.name, place |-> p]
  BY <1>8
<1>14. ASSUME NEW place \in Places, place # p PROVE Place(place)'
  <2>1. Place(place)
    BY DEF Saves
  <2>2. \A key \in Keys : At(key, place)' => sharers'[key] = sharers[key]
    BY <1>8, <1>14 DEF At, Saving, IsWrite, Is
  <2>3. home'[place] = home[place]
    BY <1>9, <1>14
  <2>4. \A d \in saved' : d.place = place => d \in saved
    BY <1>13, <1>14
  <2>5. typed' = typed
    BY <1>8
  <2> QED BY <1>10, <2>1, <2>2, <2>3, <2>4, <2>5, PlaceKept
<1>15. Place(p)'
  <2> SUFFICES ASSUME FetchedOnce(p)'
               PROVE  /\ \A i \in 1..Len(typed') : To(typed'[i], p) => home'[p] = None
                      /\ \A key, other \in Keys : At(key, p)' /\ At(other, p)' => key = other
                      /\ \A key \in Keys : At(key, p)' => Held(key, p)'
    BY DEF Place
  <2>1. FetchedOnce(p)
    BY <1>10
  <2>2. ASSUME NEW key \in Keys, At(key, p)' PROVE key = k /\ Held(key, p)'
    <3>1. key = k
      BY <1>8, <1>12, <2>1, <2>2 DEF At, Saving
    <3>2. /\ Is(sharers'[k], p, "write", s.name, s.size, s.id, s.written + 1)
          /\ saved' = saved
      BY <1>8, <2>2, <3>1 DEF At, Saving, IsWrite
    <3>3. sharers'[k].name = s.name /\ sharers'[k].written = s.written + 1
      BY <3>2 DEF Is
    <3> QED BY <1>4, <1>8, <1>12, <2>1, <3>1, <3>2, <3>3 DEF Held
  <2>3. \A i \in 1..Len(typed') : ~To(typed'[i], p)
    BY <1>8, <1>12, <2>1
  <2> QED BY <2>2, <2>3
<1>16. ASSUME NEW d \in saved' PROVE Copied(d)'
  <2>1. CASE d \in saved
    <3>1. d \in Downloads /\ Copied(d) /\ d.place \in Places
      BY <2>1, TransferAssumption DEF Saves, Basic, History
    <3>2. CASE d.place = p
      BY <1>9, <1>10, <1>12, <2>1, <3>2 DEF Copied
    <3>3. CASE d.place # p
      BY <1>9, <1>10, <3>1, <3>3, CopiedKept
    <3> QED BY <3>2, <3>3
  <2>2. CASE d \notin saved
    <3>1. d.name = s.name /\ d.place = p /\ s.written + 1 >= s.size
      BY <1>8, <2>2
    <3>2. s.written + 1 = s.size
      BY <1>3, <1>5, <3>1
    <3>3. Copies(k, s)
      BY <1>4 DEF Fetches, Receiving
    <3>4. /\ store[d.name] # None
          /\ d.name \in Stored => s.written + 1 = Len(store[d.name])
      BY <3>1, <3>2, <3>3 DEF Copies
    <3>5. FetchedOnce(p) => home'[p] = Begun(store[d.name], s.written + 1)
      BY <1>12, <3>1
    <3> QED BY <1>7, <1>8, <1>9, <1>10, <3>1, <3>4, <3>5 DEF Copied
  <2> QED BY <2>1, <2>2
<1>17. InOrder'
  BY <1>8, InOrderKept DEF Saves
<1>18. \A place \in Places : Place(place)'
  BY <1>14, <1>15
<1> QED BY <1>16, <1>17, <1>18 DEF Saves

LEMMA SavesStep ==
  ASSUME Basic, Basic', Grown, Fetches, NamesAreNoNumbers, Saves, Step PROVE Saves'
<1>1. CASE OfServer
  BY <1>1, QuietSaves
<1>2. CASE OfClient
  BY <1>2, QuietSaves, BeginsSaves, OfferedSaves, SavedSaves DEF OfClient
<1> QED BY <1>1, <1>2 DEF Step

LEMMA InitSaves == Init => Saves
<1> SUFFICES ASSUME Init PROVE Saves
  OBVIOUS
<1>1. Len(typed) = 0 /\ saved = {} /\ \A key \in Keys : ~Saving(key)
  BY DEF Init, Saving, IsWrite
<1> QED BY <1>1 DEF Saves, InOrder, Place, At

LEMMA SavesAreComplete ==
  ASSUME Basic, Saves PROVE SavedIsComplete
<1> SUFFICES ASSUME NEW d \in saved, FetchedOnce(d.place) PROVE CopyOf(d)
  BY DEF SavedIsComplete
<1> DEFINE c == store[d.name]
<1>1. d.name \in Names /\ c # None
  BY TransferAssumption DEF Saves, Copied, Basic, History
<1>2. PICK w \in 0..Len(c) : home[d.place] = Begun(c, w) /\ (d.name \in Stored => w = Len(c))
  BY DEF Saves, Copied
<1>3. c \in Seq(Piece)
  BY <1>1, StoreFacts
<1>4. IsPrefix(Begun(c, w), c)
  BY <1>3, BegunPrefix
<1>5. Begun(c, Len(c)) = c
  BY <1>3, BegunAll
<1> QED BY <1>1, <1>2, <1>4, <1>5 DEF CopyOf

\* The layers about downloads hold together.
LEMMA SavesAreKept == ASSUME NamesAreNoNumbers PROVE Spec => [](Fetches /\ Saves)
<1>1. Basic /\ Basic' /\ Uploading /\ Fetches /\ Saves /\ [Next]_vars => Fetches' /\ Saves'
  BY Steps, StoreGrows, FetchesStep, SavesStep
<1> QED BY InitFetches, InitSaves, <1>1, BasicHolds, UploadsArrive, PTL DEF Spec

\* A download is reported (handle_server_chunk) when its place holds a copy of the
\* server's file, or of the beginning of it if the file was still uploaded, for
\* everything the user may do but have two files saved at that place.
THEOREM SavedAreComplete == ASSUME NamesAreNoNumbers PROVE Spec => []SavedIsComplete
<1>1. Basic /\ Saves => SavedIsComplete
  BY SavesAreComplete
<1> QED BY <1>1, BasicHolds, SavesAreKept, PTL

===============================================================================
