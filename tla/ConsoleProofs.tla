----------------------------- MODULE ConsoleProofs -----------------------------
(***************************************************************************)
(* What the console reads, skips and sends, proved for every input.         *)
(***************************************************************************)
EXTENDS Console, FilterProofs, FiniteSetTheorems

-----------------------------------------------------------------------------
(* Numbers *)

\* A bounded set of numbers has a greatest one, and Max is it.
LEMMA MaxNat ==
  ASSUME NEW T \in SUBSET Nat, T # {}, NEW bound \in Nat, \A n \in T : n <= bound
  PROVE  Max(T) \in T /\ \A n \in T : n <= Max(T)
<1>1. PICK m \in T : \A n \in T : m >= n
  BY Greatest
<1>2. Max(T) \in T /\ \A n \in T : Max(T) >= n
  BY <1>1 DEF Max
<1> QED BY <1>2

LEMMA MinOfTwo ==
  ASSUME NEW a \in Nat, NEW b \in Nat
  PROVE  Min({a, b}) \in {a, b} /\ Min({a, b}) <= a /\ Min({a, b}) <= b
<1>1. \E x \in {a, b} : \A y \in {a, b} : x <= y
  OBVIOUS
<1> QED BY <1>1 DEF Min

-----------------------------------------------------------------------------
(* Characters *)

\* What is a byte and no tail is a character.
LEMMA Bytes == Byte \ {Tail2} \subseteq Char /\ Char \subseteq Byte /\ Tail2 \in Byte /\ Lead \in Char
BY DEF Byte, Char, Tail2, Lead

LEMMA DecodedType ==
  ASSUME NEW b \in Seq(Byte)
  PROVE  Decoded(b) \in Seq(Char)
<1> DEFINE d == Decoded(b)
<1>1. d \in Seq(Byte \ {Tail2})
  BY WithoutRange DEF Decoded
<1> HIDE DEF d
<1>2. d \in Seq(Char)
  BY <1>1, Bytes, SeqMonotonic
<1> QED BY <1>2 DEF d

LEMMA DecodedEmpty == Decoded(<<>>) = <<>>
BY WithoutEmpty DEF Decoded

\* Bytes are decoded one after the other.
LEMMA DecodedConcat ==
  ASSUME NEW a \in Seq(Byte), NEW b \in Seq(Byte)
  PROVE  Decoded(a \o b) = Decoded(a) \o Decoded(b)
BY WithoutConcat DEF Decoded

\* One byte is a character unless it is a tail.
LEMMA DecodedByte ==
  ASSUME NEW x \in Byte
  PROVE  Decoded(<<x>>) = IF x = Tail2 THEN <<>> ELSE <<x>>
<1>1. <<x>> = Append(<<>>, x) /\ <<>> \in Seq(Byte)
  OBVIOUS
<1>2. Without(Append(<<>>, x), {Tail2}) = IF x \in {Tail2} THEN Without(<<>>, {Tail2})
                                         ELSE Append(Without(<<>>, {Tail2}), x)
  BY <1>1, WithoutAppend
<1> QED BY <1>1, <1>2, WithoutEmpty DEF Decoded

\* Two parts of a sequence.
Upto(s, n) == SubSeq(s, 1, n)
After(s, n) == SubSeq(s, n + 1, Len(s))
Chain(s, t) == s \o t

\* A sequence is what is up to n and what is after.
LEMMA Cut ==
  ASSUME NEW X, NEW s \in Seq(X), NEW n \in 0..Len(s)
  PROVE  /\ Upto(s, n) \in Seq(X) /\ Len(Upto(s, n)) = n
         /\ After(s, n) \in Seq(X) /\ Len(After(s, n)) = Len(s) - n
         /\ \A i \in 1..n : Upto(s, n)[i] = s[i]
         /\ \A i \in 1..(Len(s) - n) : After(s, n)[i] = s[n + i]
         /\ s = Chain(Upto(s, n), After(s, n))
<1>1. Len(s) \in Nat /\ n \in Nat /\ n <= Len(s)
  OBVIOUS
<1>2. /\ Upto(s, n) \in Seq(X) /\ Len(Upto(s, n)) = n
      /\ \A i \in 1..n : Upto(s, n)[i] = s[i]
  BY <1>1 DEF Upto
<1>3. /\ After(s, n) \in Seq(X) /\ Len(After(s, n)) = Len(s) - n
      /\ \A i \in 1..(Len(s) - n) : After(s, n)[i] = s[n + i]
  BY <1>1 DEF After
<1>4. s = Chain(Upto(s, n), After(s, n))
  <2>1. Upto(s, n) \o After(s, n) = Upto(s, Len(s))
    <3>1. 1 \in 1..(Len(s) + 1) /\ n \in (1 - 1)..Len(s) /\ Len(s) \in n..Len(s)
      BY <1>1
    <3> QED BY <3>1, ConcatAdjacentSubSeq DEF Upto, After
  <2>2. Upto(s, Len(s)) = s
    BY SubSeqFull DEF Upto
  <2> QED BY <2>1, <2>2 DEF Chain
<1> QED BY <1>2, <1>3, <1>4

LEMMA DecodedChain ==
  ASSUME NEW a \in Seq(Byte), NEW b \in Seq(Byte)
  PROVE  Decoded(Chain(a, b)) = Chain(Decoded(a), Decoded(b))
BY DecodedConcat DEF Chain

\* A beginning of a longer beginning.
LEMMA CutTwice ==
  ASSUME NEW X, NEW s \in Seq(X), NEW m \in 0..Len(s), NEW n \in 0..m
  PROVE  /\ Upto(Upto(s, m), n) = Upto(s, n)
         /\ After(Upto(s, m), n) = Upto(After(s, n), m - n)
<1> DEFINE a == Upto(Upto(s, m), n)
           b == Upto(s, n)
           c == After(Upto(s, m), n)
           d == Upto(After(s, n), m - n)
           w == Upto(s, m)
           r == After(s, n)
<1>0. Len(s) \in Nat /\ m \in Nat /\ n \in Nat /\ n <= m /\ m <= Len(s) /\ n \in 0..Len(s)
  OBVIOUS
<1>1. /\ w \in Seq(X) /\ Len(w) = m /\ \A i \in 1..m : w[i] = s[i]
      /\ b \in Seq(X) /\ Len(b) = n /\ \A i \in 1..n : b[i] = s[i]
      /\ r \in Seq(X) /\ Len(r) = Len(s) - n /\ \A i \in 1..(Len(s) - n) : r[i] = s[n + i]
  BY <1>0, Cut
<1> HIDE DEF w, b, r
<1>2. a = b
  <2>1. a = Upto(w, n)
    BY DEF w
  <2>2. Upto(w, n) \in Seq(X) /\ Len(Upto(w, n)) = n
        /\ \A i \in 1..n : Upto(w, n)[i] = w[i]
    <3>1. n \in 0..Len(w)
      BY <1>0, <1>1
    <3> QED BY <1>1, <3>1, Cut
  <2>3. \A i \in 1..n : i \in 1..m
    BY <1>0
  <2> HIDE DEF a
  <2> QED BY <1>1, <2>1, <2>2, <2>3, SeqEqual
<1>3. c = d
  <2>1. c = After(w, n) /\ d = Upto(r, m - n)
    BY DEF w, r
  <2> HIDE DEF c, d
  <2>2. After(w, n) \in Seq(X) /\ Len(After(w, n)) = m - n
        /\ \A i \in 1..(m - n) : After(w, n)[i] = w[n + i]
    <3>1. n \in 0..Len(w)
      BY <1>0, <1>1
    <3> QED BY <1>1, <3>1, Cut
  <2>3. Upto(r, m - n) \in Seq(X) /\ Len(Upto(r, m - n)) = m - n
        /\ \A i \in 1..(m - n) : Upto(r, m - n)[i] = r[i]
    <3>1. m - n \in 0..Len(r)
      BY <1>0, <1>1
    <3> QED BY <1>1, <3>1, Cut
  <2>4. \A i \in 1..(m - n) : n + i \in 1..m /\ i \in 1..(Len(s) - n)
    BY <1>0
  <2>5. \A i \in 1..Len(c) : c[i] = d[i]
    BY <1>1, <2>1, <2>2, <2>3, <2>4
  <2> QED BY <2>1, <2>2, <2>3, <2>5, SeqEqual
<1> QED BY <1>2, <1>3 DEF b

\* A piece of one element.
LEMMA CutOne ==
  ASSUME NEW X, NEW s \in Seq(X), NEW i \in 1..Len(s)
  PROVE  SubSeq(s, i, i) = <<s[i]>>
<1>1. Len(s) \in Nat /\ i \in Int /\ i + 1 \in Int /\ i < i + 1 /\ i \in i..Len(s) /\ s[i] \in X
  OBVIOUS
<1>2. SubSeq(s, i, i) = <<s[i]>> \o SubSeq(s, i + 1, i)
  BY <1>1, SubSeqRecursiveFirst
<1>3. SubSeq(s, i + 1, i) = <<>>
  BY <1>1, SubSeqEmpty
<1>4. <<s[i]>> \o <<>> = <<s[i]>>
  <2>1. <<s[i]>> \in Seq(X)
    BY <1>1
  <2> QED BY <2>1, ConcatEmptySeq
<1> QED BY <1>2, <1>3, <1>4

\* valid_up_to() is the longest valid beginning.
LEMMA ValidUpTo ==
  ASSUME NEW b \in Seq(Byte)
  PROVE  /\ valid_up_to(b) \in 0..Len(b)
         /\ Valid(Upto(b, valid_up_to(b)))
         /\ \A n \in 0..Len(b) : Valid(Upto(b, n)) => n <= valid_up_to(b)
<1> DEFINE T == {n \in 0..Len(b) : Valid(Upto(b, n))}
<1>1. 0 \in T
  <2>1. Upto(b, 0) = <<>> /\ 0 \in 0..Len(b)
    BY DEF Upto
  <2>2. Valid(<<>>)
    BY DEF Valid
  <2> QED BY <2>1, <2>2
<1>2. T \in SUBSET Nat /\ T # {} /\ Len(b) \in Nat /\ \A n \in T : n <= Len(b)
  BY <1>1
<1> HIDE DEF T
<1>3. Max(T) \in T /\ \A n \in T : n <= Max(T)
  BY <1>2, MaxNat
<1>4. valid_up_to(b) = Max(T)
  BY DEF valid_up_to, T, Upto
<1>5. Max(T) \in 0..Len(b) /\ Valid(Upto(b, Max(T)))
  BY <1>3 DEF T
<1>6. \A n \in 0..Len(b) : Valid(Upto(b, n)) => n <= Max(T)
  BY <1>3 DEF T
<1> QED BY <1>4, <1>5, <1>6

\* A character and its bytes off the front of valid ones.
LEMMA FirstCharacter ==
  ASSUME NEW b \in Seq(Byte), NEW v \in 1..Len(b), Valid(Upto(b, v)),
         NEW k, k = len_utf8(b[1]),
         NEW rest, rest = After(b, k)
  PROVE  /\ b[1] \in Char /\ k \in 1..v
         /\ Decoded(Upto(b, k)) = <<b[1]>>
         /\ rest \in Seq(Byte) /\ Len(rest) = Len(b) - k /\ b = Chain(Upto(b, k), rest)
         /\ Valid(Upto(rest, v - k))
         /\ Decoded(Upto(b, v)) = Chain(<<b[1]>>, Decoded(Upto(rest, v - k)))
<1> DEFINE w == Upto(b, v)
           u == Upto(rest, v - k)
<1>0. Len(b) \in Nat /\ v \in Nat /\ v <= Len(b) /\ 1 <= v /\ v \in 0..Len(b)
      /\ \A i \in 1..Len(b) : b[i] \in Byte
  OBVIOUS
<1>1. w \in Seq(Byte) /\ Len(w) = v /\ \A i \in 1..v : w[i] = b[i]
  BY <1>0, Cut
<1> HIDE DEF w
<1>2. \A i \in 1..v : /\ b[i] = Lead => i < v /\ b[i + 1] = Tail2
                      /\ b[i] = Tail2 => i > 1 /\ b[i - 1] = Lead
  <2>1. Valid(w)
    BY DEF w
  <2>2. \A i \in 1..v : /\ w[i] = Lead => i < v /\ w[i + 1] = Tail2
                        /\ w[i] = Tail2 => i > 1 /\ w[i - 1] = Lead
    BY <1>1, <2>1 DEF Valid
  <2>3. \A i \in 1..v : (i < v => i + 1 \in 1..v) /\ (i > 1 => i - 1 \in 1..v)
    BY <1>0
  <2> QED BY <1>1, <2>2, <2>3
<1>3. b[1] # Tail2 /\ b[1] \in Byte /\ 1 \in 1..v
  BY <1>0, <1>2
<1>4. k \in 1..v /\ k \in {1, 2} /\ (k = 2 <=> b[1] = Lead)
  BY <1>0, <1>2, <1>3 DEF len_utf8
<1>5. /\ Upto(b, k) \in Seq(Byte) /\ Len(Upto(b, k)) = k
      /\ rest \in Seq(Byte) /\ Len(rest) = Len(b) - k
      /\ \A i \in 1..(Len(b) - k) : rest[i] = b[k + i]
      /\ b = Chain(Upto(b, k), rest)
  <2>1. k \in 0..Len(b)
    BY <1>0, <1>4
  <2>2. PICK n \in 0..Len(b) : n = k
    BY <2>1
  <2> DEFINE e == After(b, n)
  <2>3. /\ Upto(b, n) \in Seq(Byte) /\ Len(Upto(b, n)) = n
        /\ e \in Seq(Byte) /\ Len(e) = Len(b) - n
        /\ \A i \in 1..(Len(b) - n) : e[i] = b[n + i]
        /\ b = Chain(Upto(b, n), e)
    BY Cut
  <2>4. rest = e
    BY <2>2
  <2> HIDE DEF e
  <2> QED BY <2>2, <2>3, <2>4
<1>6. Decoded(Upto(b, k)) = <<b[1]>>
  <2>1. CASE k = 1
    <3>1. Upto(b, 1) = <<b[1]>>
      BY <1>0, CutOne DEF Upto
    <3> QED BY <3>1, <1>3, <2>1, DecodedByte
  <2>2. CASE k = 2
    <3>1. b[2] = Tail2 /\ b[2] \in Byte
      BY <1>0, <1>2, <1>3, <1>4, <2>2
    <3>2. Upto(b, 2) = <<b[1]>> \o <<b[2]>>
      <4>1. 1 \in 1..Len(b) /\ 2 \in 1..Len(b) /\ 2 - 1 = 1
        BY <1>0, <1>4, <2>2
      <4>2. Upto(b, 2) = Upto(b, 2 - 1) \o <<b[2]>>
        BY <4>1, SubSeqRecursiveSecond DEF Upto
      <4>3. Upto(b, 1) = <<b[1]>>
        BY <4>1, CutOne DEF Upto
      <4> QED BY <4>1, <4>2, <4>3
    <3>3. Decoded(<<b[1]>>) = <<b[1]>> /\ Decoded(<<b[2]>>) = <<>>
      BY <1>3, <3>1, DecodedByte
    <3>4. <<b[1]>> \in Seq(Byte) /\ <<b[2]>> \in Seq(Byte)
      BY <1>3, <3>1
    <3>5. Decoded(<<b[1]>> \o <<b[2]>>) = <<b[1]>> \o <<>>
      BY <3>3, <3>4, DecodedConcat
    <3>6. <<b[1]>> \o <<>> = <<b[1]>>
      BY <3>4, ConcatEmptySeq
    <3> QED BY <2>2, <3>2, <3>5, <3>6
  <2> QED BY <1>4, <2>1, <2>2
<1>7. u \in Seq(Byte) /\ Len(u) = v - k /\ \A i \in 1..(v - k) : u[i] = b[k + i]
  <2>1. v - k \in 0..Len(rest)
    <3>1. Len(rest) = Len(b) - k
      BY <1>5
    <3> QED BY <3>1, <1>0, <1>4
  <2>2. u \in Seq(Byte) /\ Len(u) = v - k /\ \A i \in 1..(v - k) : u[i] = rest[i]
    BY <1>5, <2>1, Cut
  <2>3. \A i \in 1..(v - k) : i \in 1..(Len(b) - k)
    BY <1>0, <1>4
  <2> HIDE DEF u
  <2> QED BY <1>5, <2>2, <2>3
<1> HIDE DEF u
<1>8. Valid(u)
  <2> SUFFICES ASSUME NEW i \in 1..(v - k)
               PROVE  /\ u[i] = Lead => i < v - k /\ u[i + 1] = Tail2
                      /\ u[i] = Tail2 => i > 1 /\ u[i - 1] = Lead
    BY <1>7 DEF Valid
  <2>1. k + i \in 1..v /\ i \in Nat /\ k \in Nat /\ v \in Nat
    BY <1>0, <1>4
  <2>2. u[i] = b[k + i]
    BY <1>7
  <2>3. ASSUME u[i] = Lead
        PROVE  i < v - k /\ u[i + 1] = Tail2
    <3>1. k + i < v /\ b[(k + i) + 1] = Tail2
      BY <1>2, <2>1, <2>2, <2>3
    <3>2. i < v - k /\ i + 1 \in 1..(v - k) /\ (k + i) + 1 = k + (i + 1)
      BY <2>1, <3>1
    <3> QED BY <1>7, <3>1, <3>2
  <2>4. ASSUME u[i] = Tail2
        PROVE  i > 1 /\ u[i - 1] = Lead
    <3>1. k + i > 1 /\ b[(k + i) - 1] = Lead
      BY <1>2, <2>1, <2>2, <2>4
    <3>2. i # 1
      <4> SUFFICES ASSUME i = 1
                   PROVE  FALSE
        OBVIOUS
      <4>1. b[k] = Lead
        BY <1>4, <3>1
      <4>2. k = 2 => b[2] = Tail2
        BY <1>2, <1>3, <1>4
      <4>3. Lead # Tail2
        BY DEF Lead, Tail2
      <4> QED BY <1>4, <4>1, <4>2, <4>3
    <3>3. i - 1 \in 1..(v - k) /\ i > 1 /\ (k + i) - 1 = k + (i - 1)
      BY <2>1, <3>2
    <3> QED BY <1>7, <3>1, <3>3
  <2> QED BY <2>3, <2>4
<1>9. Decoded(w) = Chain(<<b[1]>>, Decoded(u))
  <2>1. w = Chain(Upto(w, k), After(w, k)) /\ After(w, k) \in Seq(Byte)
    <3>1. k \in 0..Len(w)
      BY <1>0, <1>1, <1>4
    <3> QED BY <3>1, <1>1, Cut
  <2>2. Upto(w, k) = Upto(b, k) /\ After(w, k) = u
    <3>1. k \in 0..v
      BY <1>4
    <3> QED BY <3>1, <1>0, CutTwice DEF w, u
  <2>3. Decoded(Chain(Upto(b, k), u)) = Chain(Decoded(Upto(b, k)), Decoded(u))
    BY <1>5, <1>7, DecodedChain
  <2> QED BY <1>6, <2>1, <2>2, <2>3
<1>10. b[1] \in Char
  BY <1>3, Bytes
<1> QED BY <1>4, <1>5, <1>6, <1>8, <1>9, <1>10 DEF w, u

-----------------------------------------------------------------------------
(* Reading *)

\* The cache holds the characters of a valid beginning of the buffer.
Cached(b, c) ==
  \E v \in 0..Len(b) : Valid(Upto(b, v)) /\ c = Decoded(Upto(b, v))

\* Taking the first cached character takes its bytes off the buffer.
LEMMA CachedCharacter ==
  ASSUME NEW b \in Seq(Byte), NEW c, Cached(b, c), c # <<>>,
         NEW k, k = len_utf8(Head(c)),
         NEW rest, rest = After(b, k)
  PROVE  /\ Head(c) \in Char
         /\ rest \in Seq(Byte) /\ Cached(rest, Tail(c))
         /\ \E chunk \in Seq(Byte) : b = Chain(chunk, rest) /\ Decoded(chunk) = <<Head(c)>>
<1>1. PICK v \in 0..Len(b) : Valid(Upto(b, v)) /\ c = Decoded(Upto(b, v))
  BY DEF Cached
<1>2. v \in 1..Len(b)
  <2> SUFFICES ASSUME v = 0
               PROVE  FALSE
    OBVIOUS
  <2>1. Upto(b, 0) = <<>>
    BY DEF Upto
  <2> QED BY <1>1, <2>1, DecodedEmpty
<1> DEFINE j == len_utf8(b[1])
           r == After(b, j)
           d == Decoded(Upto(r, v - j))
<1>3. /\ b[1] \in Char /\ j \in 1..v
      /\ Decoded(Upto(b, j)) = <<b[1]>>
      /\ r \in Seq(Byte) /\ Len(r) = Len(b) - j /\ b = Chain(Upto(b, j), r)
      /\ Valid(Upto(r, v - j))
      /\ c = Chain(<<b[1]>>, d)
  <2>1. j = len_utf8(b[1]) /\ r = After(b, j)
    OBVIOUS
  <2> HIDE DEF j, r
  <2>2. /\ b[1] \in Char /\ j \in 1..v
        /\ Decoded(Upto(b, j)) = <<b[1]>>
        /\ r \in Seq(Byte) /\ Len(r) = Len(b) - j /\ b = Chain(Upto(b, j), r)
        /\ Valid(Upto(r, v - j))
        /\ Decoded(Upto(b, v)) = Chain(<<b[1]>>, Decoded(Upto(r, v - j)))
    BY <1>1, <1>2, <2>1, FirstCharacter
  <2> QED BY <1>1, <2>2
<1>4. v - j \in 0..Len(r) /\ j \in 0..Len(b)
  <2> HIDE DEF j, r
  <2> QED BY <1>2, <1>3
<1>5. Upto(b, j) \in Seq(Byte)
  BY <1>4, Cut
<1>6. d \in Seq(Char)
  <2>1. Upto(r, v - j) \in Seq(Byte)
    BY <1>3, <1>4, Cut
  <2> QED BY <2>1, DecodedType
<1>7. Cached(r, d)
  BY <1>3, <1>4 DEF Cached
<1> HIDE DEF j, r, d
<1>8. Head(c) = b[1] /\ Tail(c) = d
  BY <1>3, <1>6 DEF Chain
<1>9. k = j
  BY <1>8 DEF j
<1>10. rest = r
  BY <1>9 DEF r
<1> QED BY <1>3, <1>5, <1>7, <1>8, <1>10

LEMMA NothingCached ==
  ASSUME NEW b \in Seq(Byte)
  PROVE  Cached(b, <<>>)
<1>1. Upto(b, 0) = <<>> /\ 0 \in 0..Len(b)
  BY DEF Upto
<1>2. Valid(<<>>)
  BY DEF Valid
<1> QED BY <1>1, <1>2, DecodedEmpty DEF Cached

\* What is read is a valid beginning of the buffer.
LEMMA ForcedIsCached ==
  ASSUME NEW b \in Seq(Byte)
  PROVE  Cached(b, from_utf8_forced(b))
BY ValidUpTo DEF Cached, from_utf8_forced, Upto

\* It is nothing only if the buffer is empty or does not begin with a character.
LEMMA ForcedEmpty ==
  ASSUME NEW b \in Seq(Byte), from_utf8_forced(b) = <<>>, Valid(b)
  PROVE  b = <<>>
<1> DEFINE v == valid_up_to(b)
<1>1. Upto(b, Len(b)) = b
  BY SubSeqFull DEF Upto
<1>2. v = Len(b)
  <2>1. Len(b) \in 0..Len(b)
    OBVIOUS
  <2>2. Len(b) <= v /\ v \in 0..Len(b)
    BY <1>1, <2>1, ValidUpTo
  <2> HIDE DEF v
  <2> QED BY <2>2
<1>3. Decoded(b) = <<>>
  BY <1>1, <1>2 DEF from_utf8_forced, Upto
<1> SUFFICES ASSUME Len(b) \in 1..Len(b)
             PROVE  FALSE
  <2>1. Len(b) \in Nat
    OBVIOUS
  <2>2. Len(b) = 0
    BY <2>1
  <2> QED BY <2>2
<1> DEFINE j == len_utf8(b[1])
           r == After(b, j)
           d == Decoded(Upto(r, Len(b) - j))
<1>4. /\ b[1] \in Char /\ j \in 1..Len(b)
      /\ r \in Seq(Byte) /\ Len(r) = Len(b) - j
      /\ Decoded(Upto(b, Len(b))) = Chain(<<b[1]>>, d)
  <2>1. j = len_utf8(b[1]) /\ r = After(b, j) /\ Valid(Upto(b, Len(b)))
    BY <1>1
  <2> HIDE DEF j, r
  <2>2. /\ b[1] \in Char /\ j \in 1..Len(b)
        /\ r \in Seq(Byte) /\ Len(r) = Len(b) - j
        /\ Decoded(Upto(b, Len(b))) = Chain(<<b[1]>>, Decoded(Upto(r, Len(b) - j)))
    BY <2>1, FirstCharacter
  <2> QED BY <2>2
<1>5. d \in Seq(Char)
  <2>1. Len(b) - j \in 0..Len(r)
    <3> HIDE DEF j, r
    <3> QED BY <1>4
  <2>2. Upto(r, Len(b) - j) \in Seq(Byte)
    BY <1>4, <2>1, Cut
  <2> QED BY <2>2, DecodedType
<1> HIDE DEF j, r, d
<1>6. Chain(<<b[1]>>, d) # <<>>
  BY <1>4, <1>5 DEF Chain
<1> QED BY <1>1, <1>3, <1>4, <1>6

\* What is cached is the beginning of what the buffer would be decoded to.
LEMMA CachedIsPrefix ==
  ASSUME NEW b \in Seq(Byte), NEW c, Cached(b, c)
  PROVE  IsPrefix(c, from_utf8_forced(b))
<1>1. PICK v \in 0..Len(b) : Valid(Upto(b, v)) /\ c = Decoded(Upto(b, v))
  BY DEF Cached
<1> DEFINE m == valid_up_to(b)
           w == Upto(b, m)
           z == After(w, v)
           e == Decoded(z)
<1>2. m \in 0..Len(b) /\ v \in 0..m
  <2>1. m \in 0..Len(b) /\ v <= m
    BY <1>1, ValidUpTo
  <2> HIDE DEF m
  <2> QED BY <2>1
<1> HIDE DEF m
<1>3. w \in Seq(Byte) /\ Len(w) = m
  BY <1>2, Cut
<1>4. Upto(w, v) = Upto(b, v)
  BY <1>2, CutTwice
<1> HIDE DEF w
<1>5. Upto(w, v) \in Seq(Byte) /\ z \in Seq(Byte) /\ w = Chain(Upto(w, v), z)
  BY <1>2, <1>3, Cut
<1> HIDE DEF z
<1>6. Decoded(w) = Chain(c, e)
  BY <1>1, <1>4, <1>5, DecodedChain
<1>7. c \in Seq(Char) /\ e \in Seq(Char)
  BY <1>1, <1>4, <1>5, DecodedType
<1> HIDE DEF e
<1>8. from_utf8_forced(b) = c \o e
  BY <1>6 DEF from_utf8_forced, m, w, Upto, Chain
<1>9. Len(c) <= Len(c \o e)
  BY <1>7
<1>10. SubSeq(c \o e, 1, Len(c)) = SubSeq(c, 1, Len(c))
  BY <1>7
<1> QED BY <1>8, <1>9, <1>10 DEF IsPrefix
LEMMA ChainProperties ==
  ASSUME NEW X, NEW a \in Seq(X), NEW b \in Seq(X), NEW c \in Seq(X)
  PROVE  /\ Chain(a, b) \in Seq(X) /\ Len(Chain(a, b)) = Len(a) + Len(b)
         /\ Chain(a, Chain(b, c)) = Chain(Chain(a, b), c)
         /\ Chain(a, <<>>) = a /\ Chain(<<>>, a) = a
<1>1. Chain(a, b) \in Seq(X) /\ Len(Chain(a, b)) = Len(a) + Len(b)
  BY ConcatProperties DEF Chain
<1>2. Chain(a, Chain(b, c)) = Chain(Chain(a, b), c)
  BY ConcatAssociative DEF Chain
<1>3. Chain(a, <<>>) = a /\ Chain(<<>>, a) = a
  BY ConcatEmptySeq DEF Chain
<1> QED BY <1>1, <1>2, <1>3

\* What fill_buf() leaves of the input.
LEMMA FillsProperties ==
  ASSUME stdin \in Seq(Byte), buffer \in Seq(Byte), NEW fill \in Fills,
         NEW left, left = IF buffer = <<>> THEN SubSeq(stdin, Len(fill) + 1, Len(stdin)) ELSE stdin
  PROVE  /\ fill \in Seq(Byte) /\ left \in Seq(Byte)
         /\ Chain(buffer, stdin) = Chain(fill, left)
         /\ fill = <<>> => buffer = <<>> /\ left = stdin
<1>1. CASE buffer # <<>>
  <2>1. fill = buffer /\ left = stdin
    BY <1>1 DEF Fills
  <2> QED BY <1>1, <2>1
<1>2. CASE buffer = <<>>
  <2>1. left = After(stdin, Len(fill))
    BY <1>2 DEF After
  <2>2. Chain(buffer, stdin) = stdin
    BY <1>2, ChainProperties
  <2>3. CASE fill = <<>>
    <3>1. Len(fill) = 0 /\ fill \in Seq(Byte)
      BY <2>3
    <3>2. SubSeq(stdin, 0 + 1, Len(stdin)) = stdin
      BY SubSeqFull
    <3>3. left = stdin
      BY <2>1, <3>1, <3>2 DEF After
    <3>4. Chain(<<>>, stdin) = stdin
      BY ChainProperties
    <3> QED BY <1>2, <2>2, <2>3, <3>1, <3>3, <3>4
  <2>4. CASE fill # <<>>
    <3>1. PICK n \in 1..Min({Len(stdin), Capacity}) : fill = Upto(stdin, n)
      BY <1>2, <2>4 DEF Fills, Upto
    <3>2. n \in 0..Len(stdin)
      <4>1. Len(stdin) \in Nat /\ Capacity \in Nat
        BY ConsoleAssumption
      <4> DEFINE m == Min({Len(stdin), Capacity})
      <4>2. m <= Len(stdin) /\ m \in Nat
        BY <4>1, MinOfTwo
      <4>3. n \in 1..m
        OBVIOUS
      <4> HIDE DEF m
      <4> QED BY <4>1, <4>2, <4>3
    <3>3. /\ fill \in Seq(Byte) /\ Len(fill) = n
          /\ After(stdin, n) \in Seq(Byte) /\ stdin = Chain(fill, After(stdin, n))
      BY <3>1, <3>2, Cut
    <3> QED BY <2>1, <2>2, <2>4, <3>3
  <2> QED BY <2>3, <2>4
<1> QED BY <1>1, <1>2

\* A character is read with its bytes, or else nothing; if nothing and no read was
\* cut, nothing is left.
LEMMA NextCharacter ==
  ASSUME stdin \in Seq(Byte), buffer \in Seq(Byte), cut \in BOOLEAN, Cached(buffer, cache),
         NEW char, next(char)
  PROVE  /\ stdin' \in Seq(Byte) /\ buffer' \in Seq(Byte) /\ cut' \in BOOLEAN
         /\ Cached(buffer', cache') /\ (cut => cut') /\ char \in Char \union {None}
         /\ \E chunk \in Seq(Byte) :
              /\ Chain(buffer, stdin) = Chain(chunk, Chain(buffer', stdin'))
              /\ Decoded(chunk) = IF char = None THEN <<>> ELSE <<char>>
         /\ char = None /\ ~cut' => buffer' = <<>> /\ stdin' = <<>>
<1>0. None \notin Char
  BY ConsoleAssumption, Bytes
<1>1. CASE cache # <<>>
  <2>1. /\ char = Head(cache) /\ cache' = Tail(cache)
        /\ buffer' = After(buffer, len_utf8(char)) /\ UNCHANGED <<stdin, cut>>
    BY <1>1 DEF next, After
  <2>2. /\ Head(cache) \in Char
        /\ buffer' \in Seq(Byte) /\ Cached(buffer', Tail(cache))
        /\ \E chunk \in Seq(Byte) : buffer = Chain(chunk, buffer') /\ Decoded(chunk) = <<Head(cache)>>
    BY <1>1, <2>1, CachedCharacter
  <2>3. PICK chunk \in Seq(Byte) : buffer = Chain(chunk, buffer') /\ Decoded(chunk) = <<char>>
    BY <2>1, <2>2
  <2>4. Chain(buffer, stdin) = Chain(chunk, Chain(buffer', stdin'))
    <3>1. Chain(chunk, Chain(buffer', stdin)) = Chain(Chain(chunk, buffer'), stdin)
      BY <2>2, ChainProperties
    <3> QED BY <2>1, <2>3, <3>1
  <2>5. char \in Char /\ char # None
    BY <1>0, <2>1, <2>2
  <2> QED BY <2>1, <2>2, <2>3, <2>4, <2>5
<1>2. CASE cache = <<>>
  <2>1. PICK fill \in Fills :
          /\ stdin' = IF buffer = <<>> THEN SubSeq(stdin, Len(fill) + 1, Len(stdin)) ELSE stdin
          /\ cut' = (cut \/ ~Valid(fill) \/ (fill = <<>> /\ stdin # <<>>))
          /\ IF from_utf8_forced(fill) = <<>>
               THEN char = None /\ cache' = <<>> /\ buffer' = fill
               ELSE /\ char = Head(from_utf8_forced(fill)) /\ cache' = Tail(from_utf8_forced(fill))
                    /\ buffer' = After(fill, len_utf8(char))
    BY <1>2 DEF next, After
  <2>2. /\ fill \in Seq(Byte) /\ stdin' \in Seq(Byte)
        /\ Chain(buffer, stdin) = Chain(fill, stdin')
        /\ fill = <<>> => buffer = <<>> /\ stdin' = stdin
    BY <2>1, FillsProperties
  <2>3. cut' \in BOOLEAN /\ (cut => cut')
    BY <2>1
  <2>4. CASE from_utf8_forced(fill) = <<>>
    <3>1. char = None /\ cache' = <<>> /\ buffer' = fill
      BY <2>1, <2>4
    <3>2. Cached(buffer', cache')
      BY <2>2, <3>1, NothingCached
    <3>3. ~cut' => buffer' = <<>> /\ stdin' = <<>>
      <4> SUFFICES ASSUME ~cut'
                   PROVE  buffer' = <<>> /\ stdin' = <<>>
        OBVIOUS
      <4>1. Valid(fill) /\ ~(fill = <<>> /\ stdin # <<>>)
        BY <2>1
      <4>2. fill = <<>>
        BY <2>2, <2>4, <4>1, ForcedEmpty
      <4> QED BY <2>2, <3>1, <4>1, <4>2
    <3>4. <<>> \in Seq(Byte) /\ Chain(buffer, stdin) = Chain(<<>>, Chain(buffer', stdin'))
      <4>1. <<>> \in Seq(Byte) /\ Chain(fill, stdin') \in Seq(Byte)
        BY <2>2, ChainProperties
      <4>2. Chain(<<>>, Chain(fill, stdin')) = Chain(fill, stdin')
        BY <4>1, ChainProperties
      <4> QED BY <2>2, <3>1, <4>1, <4>2
    <3>5. \E chunk \in Seq(Byte) :
            /\ Chain(buffer, stdin) = Chain(chunk, Chain(buffer', stdin'))
            /\ Decoded(chunk) = IF char = None THEN <<>> ELSE <<char>>
      BY <3>1, <3>4, DecodedEmpty
    <3>6. char \in Char \union {None}
      BY <3>1
    <3> QED BY <2>2, <2>3, <3>1, <3>2, <3>3, <3>5, <3>6
  <2>5. CASE from_utf8_forced(fill) # <<>>
    <3> DEFINE chars == from_utf8_forced(fill)
    <3>1. /\ char = Head(chars) /\ cache' = Tail(chars)
          /\ buffer' = After(fill, len_utf8(char))
      BY <2>1, <2>5
    <3>2. Cached(fill, chars) /\ chars # <<>>
      BY <2>2, <2>5, ForcedIsCached
    <3> HIDE DEF chars
    <3>3. /\ Head(chars) \in Char
          /\ buffer' \in Seq(Byte) /\ Cached(buffer', Tail(chars))
          /\ \E chunk \in Seq(Byte) : fill = Chain(chunk, buffer') /\ Decoded(chunk) = <<Head(chars)>>
      BY <2>2, <3>1, <3>2, CachedCharacter
    <3>4. PICK bytes \in Seq(Byte) : fill = Chain(bytes, buffer') /\ Decoded(bytes) = <<char>>
      BY <3>1, <3>3
    <3>5. Chain(buffer, stdin) = Chain(bytes, Chain(buffer', stdin'))
      <4>1. Chain(bytes, Chain(buffer', stdin')) = Chain(Chain(bytes, buffer'), stdin')
        BY <2>2, <3>3, ChainProperties
      <4> QED BY <2>2, <3>4, <4>1
    <3>6. char \in Char /\ char # None
      BY <1>0, <3>1, <3>3
    <3>7. \E chunk \in Seq(Byte) :
            /\ Chain(buffer, stdin) = Chain(chunk, Chain(buffer', stdin'))
            /\ Decoded(chunk) = IF char = None THEN <<>> ELSE <<char>>
      BY <3>4, <3>5, <3>6
    <3> QED BY <2>2, <2>3, <3>1, <3>3, <3>6, <3>7
  <2> QED BY <2>4, <2>5
<1> QED BY <1>1, <1>2

-----------------------------------------------------------------------------
(* Types *)

Commands ==
  [kind : {"Nothing", "End", "Text", "Rename", "Connect", "UploadFile", "DownloadFile"},
   args : Seq(Seq(Char))]

LEMMA PlainTypes ==
  /\ Nothing \in Commands /\ End \in Commands
  /\ \A line \in Seq(Char) : text(line) \in Commands
<1>1. <<>> \in Seq(Seq(Char)) /\ \A line \in Seq(Char) : <<line>> \in Seq(Seq(Char))
  OBVIOUS
<1>2. Nothing \in Commands /\ End \in Commands
  BY <1>1 DEF Nothing, End, Command, Commands
<1>3. \A line \in Seq(Char) : Command("Text", <<line>>) \in Commands
  BY <1>1 DEF Command, Commands
<1> QED BY <1>2, <1>3 DEF text

LEMMA RenameType ==
  ASSUME NEW w \in Seq(Seq(Char))
  PROVE  parse_rename(w) \in Commands
<1>1. Len(w) >= 2 => w[2] \in Seq(Char)
  OBVIOUS
<1>2. Len(w) >= 2 => <<w[2]>> \in Seq(Seq(Char))
  BY <1>1
<1>3. Len(w) >= 2 => Command("Rename", <<w[2]>>) \in Commands
  BY <1>2 DEF Command, Commands
<1> QED BY <1>3, PlainTypes DEF parse_rename

LEMMA ConnectType ==
  ASSUME NEW w \in Seq(Seq(Char))
  PROVE  parse_connect(w) \in Commands
<1> DEFINE m == Min({Len(w), 3})
           args == SubSeq(w, 2, m)
<1>1. m \in Nat /\ m <= Len(w)
  <2>1. Len(w) \in Nat
    OBVIOUS
  <2>2. m \in {Len(w), 3} /\ m <= Len(w)
    BY <2>1, MinOfTwo
  <2> HIDE DEF m
  <2> QED BY <2>1, <2>2
<1> HIDE DEF m
<1>2. \A i \in 2..m : w[i] \in Seq(Char)
  BY <1>1
<1>3. args \in Seq(Seq(Char))
  BY <1>1, <1>2, SubSeqProperties
<1> HIDE DEF args
<1>4. Command("Connect", args) \in Commands
  BY <1>3 DEF Command, Commands
<1> QED BY <1>4 DEF parse_connect, args, m

LEMMA BaseType ==
  ASSUME NEW path \in Seq(Char)
  PROVE  base(path) \in Seq(Char)
<1> DEFINE T == {0} \union {i \in 1..Len(path) : path[i] = "/"}
<1>1. T \in SUBSET Nat /\ T # {} /\ Len(path) \in Nat /\ \A n \in T : n <= Len(path)
  OBVIOUS
<1>2. base(path) = SubSeq(path, Max(T) + 1, Len(path))
  BY DEF base
<1> HIDE DEF T
<1>3. Max(T) \in Nat
  BY <1>1, MaxNat
<1> DEFINE m == Max(T)
<1> HIDE DEF m
<1>4. m \in Nat
  BY <1>3 DEF m
<1>5. SubSeq(path, m + 1, Len(path)) \in Seq(Char)
  <2>1. \A i \in (m + 1)..Len(path) : path[i] \in Char
    BY <1>4
  <2> QED BY <1>1, <1>4, <2>1, SubSeqProperties
<1> QED BY <1>2, <1>5 DEF m

LEMMA CheckTypes ==
  ASSUME NEW path \in Seq(Char), NEW name \in Seq(Char)
  PROVE  check_upload(path, name) \in Commands /\ check_download(path, name) \in Commands
<1>1. <<name, path>> \in Seq(Seq(Char))
  OBVIOUS
<1>2. Command("UploadFile", <<name, path>>) \in Commands /\ Command("DownloadFile", <<name, path>>) \in Commands
  BY <1>1 DEF Command, Commands
<1> QED BY <1>2, PlainTypes DEF check_upload, check_download

LEMMA FileTypes ==
  ASSUME NEW w \in Seq(Seq(Char))
  PROVE  parse_upload(w) \in Commands /\ parse_download(w) \in Commands
<1>1. ASSUME Len(w) >= 3
      PROVE  check_upload(w[2], w[3]) \in Commands /\ check_download(w[3], w[2]) \in Commands
  <2>1. w[2] \in Seq(Char) /\ w[3] \in Seq(Char)
    BY <1>1
  <2> QED BY <2>1, CheckTypes
<1>2. ASSUME Len(w) = 2
      PROVE  check_upload(w[2], base(w[2])) \in Commands /\ check_download(w[2], w[2]) \in Commands
  <2>1. w[2] \in Seq(Char)
    BY <1>2
  <2> QED BY <2>1, BaseType, CheckTypes
<1>3. parse_upload(w) \in Commands
  BY <1>1, <1>2, PlainTypes DEF parse_upload
<1>4. parse_download(w) \in Commands
  BY <1>1, <1>2, PlainTypes DEF parse_download
<1> QED BY <1>3, <1>4

\* Whatever the words are, they parse to a command.
LEMMA ParsedType ==
  ASSUME NEW w \in Seq(Seq(Char))
  PROVE  parse_command(w) \in Commands
<1>1. /\ parse_rename(w) \in Commands /\ parse_connect(w) \in Commands
      /\ parse_upload(w) \in Commands /\ parse_download(w) \in Commands
      /\ Nothing \in Commands /\ End \in Commands
  BY RenameType, ConnectType, FileTypes, PlainTypes
<1> QED BY <1>1, Zenon DEF parse_command
\* The last part of a path is what follows its last '/'.
LEMMA FileNameIs ==
  ASSUME NEW path \in Seq(Char)
  PROVE  FileName(path) = base(path)
<1> DEFINE T == {0} \union {i \in 1..Len(path) : path[i] = "/"}
           from(k) == SubSeq(path, k + 1, Len(path))
           Last_part(part) == /\ \A i \in DOMAIN part : part[i] # "/"
                              /\ part = path \/ path[Len(path) - Len(part)] = "/"
           m == Max(T)
<1>0. Len(path) \in Nat
  OBVIOUS
<1>1. m \in T /\ \A n \in T : n <= m
  <2>1. T \in SUBSET Nat /\ T # {} /\ \A n \in T : n <= Len(path)
    OBVIOUS
  <2> HIDE DEF T
  <2> QED BY <1>0, <2>1, MaxNat
<1>2. base(path) = from(m)
  BY DEF base
<1> HIDE DEF m
<1>3. m \in 0..Len(path) /\ (m = 0 \/ path[m] = "/")
  BY <1>0, <1>1
<1>4. \A i \in 1..Len(path) : path[i] = "/" => i <= m
  BY <1>1
<1> HIDE DEF T
<1>5. ASSUME NEW k \in 0..Len(path)
      PROVE  /\ DOMAIN from(k) = 1..(Len(path) - k)
             /\ Len(from(k)) = Len(path) - k
             /\ \A i \in 1..(Len(path) - k) : from(k)[i] = path[k + i]
  BY <1>0
<1>6. from(0) = path
  BY <1>0
<1>7. Last_part(from(m))
  <2>1. \A i \in DOMAIN from(m) : from(m)[i] # "/"
    BY <1>0, <1>3, <1>4, <1>5
  <2>2. Len(path) - Len(from(m)) = m
    BY <1>0, <1>3, <1>5
  <2>3. from(m) = path \/ path[Len(path) - Len(from(m))] = "/"
    BY <1>3, <1>6, <2>2
  <2> QED BY <2>1, <2>3
<1>8. ASSUME NEW k \in 0..Len(path), Last_part(from(k))
      PROVE  k = m
  <2>1. m <= k
    <3>1. ASSUME m > k
          PROVE  FALSE
      <4>1. path[m] = "/" /\ m - k \in 1..(Len(path) - k) /\ k + (m - k) = m
        BY <1>0, <1>3, <3>1
      <4>2. from(k)[m - k] = "/" /\ m - k \in DOMAIN from(k)
        BY <1>5, <4>1
      <4> QED BY <1>8, <4>2
    <3> QED BY <1>3, <3>1
  <2>2. CASE from(k) = path
    BY <1>0, <1>3, <1>5, <2>1, <2>2
  <2>3. CASE path[Len(path) - Len(from(k))] = "/"
    <3>1. Len(path) - Len(from(k)) = k
      BY <1>0, <1>5
    <3>2. k # 0 => k <= m
      BY <1>0, <1>4, <2>3, <3>1
    <3> QED BY <1>3, <2>1, <3>2
  <2> QED BY <1>8, <2>2, <2>3
<1> DEFINE Parts == {from(k) : k \in 0..Len(path)}
<1>9. from(m) \in Parts /\ \A part \in Parts : Last_part(part) => part = from(m)
  BY <1>3, <1>8
<1>10. FileName(path) = CHOOSE part \in Parts : Last_part(part)
  BY Zenon DEF FileName
<1> HIDE DEF Parts, Last_part, from
<1> QED BY <1>2, <1>7, <1>9, <1>10

\* What each parser makes of the words is what they ask for, if it is permitted.
LEMMA RenameMeant ==
  ASSUME NEW w \in Seq(Seq(Char)), w[1] = <<"/", "r">>
  PROVE  parse_rename(w) = OrNothing(Asked(w))
<1>1. w[1] # <<"/", "q">>
  OBVIOUS
<1>2. DOMAIN w = 1..Len(w) /\ Len(w) \in Nat
  OBVIOUS
<1>3. 2 \in DOMAIN w <=> Len(w) >= 2
  BY <1>2
<1>4. Asked(w) = IF 2 \in DOMAIN w THEN Command("Rename", <<w[2]>>) ELSE Nothing
  <2>1. ~(w[1] = <<"/", "c">>) /\ ~(w[1] = <<"/", "u">>) /\ ~(w[1] = <<"/", "d">>)
    OBVIOUS
  <2> QED BY <1>1, <2>1 DEF Asked
<1>5. OrNothing(Command("Rename", <<w[2]>>)) =
        IF len(w[2]) <= MAXIMUM_NAME_SIZE THEN Command("Rename", <<w[2]>>) ELSE Nothing
  BY DEF OrNothing, Permitted, Command
<1>6. OrNothing(Nothing) = Nothing
  BY DEF OrNothing
<1> QED BY <1>3, <1>4, <1>5, <1>6 DEF parse_rename

\* The second and the third of a sequence, as far as there are any.
LEMMA SecondAndThird ==
  ASSUME NEW S, NEW w \in Seq(S), NEW L \in {1, 2, 3}, Len(w) >= L, L < 3 => Len(w) = L
  PROVE  /\ {k \in 1..2 : k + 1 \in DOMAIN w} = 1..(L - 1)
         /\ SubSeq(w, 2, L) = [n \in 1..(L - 1) |-> w[n + 1]]
<1>1. \A k \in 1..2 : (k + 1 \in DOMAIN w) <=> (k <= L - 1)
  OBVIOUS
<1>2. {k \in 1..2 : k <= L - 1} = 1..(L - 1)
  OBVIOUS
<1>3. /\ SubSeq(w, 2, L) \in Seq(S) /\ Len(SubSeq(w, 2, L)) = L - 1
      /\ \A n \in 1..(L - 1) : SubSeq(w, 2, L)[n] = w[n + 1]
  OBVIOUS
<1>4. SubSeq(w, 2, L) = [n \in 1..(L - 1) |-> w[n + 1]]
  BY <1>3
<1> QED BY <1>1, <1>2, <1>4, Zenon

LEMMA ConnectMeant ==
  ASSUME NEW w \in Seq(Seq(Char)), w # <<>>, w[1] = <<"/", "c">>
  PROVE  parse_connect(w) = OrNothing(Asked(w))
<1> DEFINE K == {k \in 1..2 : k + 1 \in DOMAIN w}
           m == Min({Len(w), 3})
<1>1. Asked(w) = Command("Connect", [n \in K |-> w[n + 1]])
  <2>1. w[1] # <<"/", "q">> /\ w[1] # <<"/", "r">>
    OBVIOUS
  <2> QED BY <2>1 DEF Asked
<1>2. OrNothing(Asked(w)) = Asked(w)
  BY <1>1 DEF OrNothing, Permitted, Command
<1>3. DOMAIN w = 1..Len(w) /\ Len(w) \in Nat \ {0}
  OBVIOUS
<1>4. m \in {Len(w), 3} /\ m <= Len(w) /\ m <= 3
  BY <1>3, MinOfTwo
<1>5. parse_connect(w) = Command("Connect", SubSeq(w, 2, m))
  BY DEF parse_connect
<1> HIDE DEF m
<1>6. m \in Nat /\ m >= 1 /\ (m = Len(w) \/ m = 3)
  BY <1>3, <1>4
<1>8. m = Min({Len(w), 3}) /\ (Len(w) >= 3 => m = 3) /\ (Len(w) < 3 => m = Len(w))
  BY <1>3, <1>4, <1>6 DEF m
<1>9. ASSUME NEW L \in {1, 2, 3}, m = L, Len(w) >= L, L < 3 => Len(w) = L
      PROVE  /\ K = 1..(L - 1)
             /\ SubSeq(w, 2, L) = [n \in 1..(L - 1) |-> w[n + 1]]
  BY <1>9, SecondAndThird DEF K
<1>7. \E L \in {1, 2, 3} : m = L /\ Len(w) >= L /\ (L < 3 => Len(w) = L)
  BY <1>3, <1>6, <1>8
<1>10. K = 1..(m - 1) /\ SubSeq(w, 2, m) = [n \in 1..(m - 1) |-> w[n + 1]]
  <2> HIDE DEF K
  <2> QED BY <1>7, <1>9
<1> HIDE DEF K
<1> QED BY <1>1, <1>2, <1>5, <1>10

LEMMA FilesMeant ==
  ASSUME NEW path \in Seq(Char), NEW name \in Seq(Char)
  PROVE  /\ check_upload(path, name) = OrNothing(Command("UploadFile", <<name, path>>))
         /\ check_download(path, name) = OrNothing(Command("DownloadFile", <<name, path>>))
  BY DEF check_upload, check_download, OrNothing, Permitted, Command

LEMMA UploadMeant ==
  ASSUME NEW w \in Seq(Seq(Char)), w[1] = <<"/", "u">>
  PROVE  parse_upload(w) = OrNothing(Asked(w))
<1>1. DOMAIN w = 1..Len(w) /\ Len(w) \in Nat
  OBVIOUS
<1>2. /\ 2 \in DOMAIN w <=> Len(w) >= 2
      /\ 3 \in DOMAIN w <=> Len(w) >= 3
  BY <1>1
<1>3. Asked(w) =
        IF 2 \in DOMAIN w
          THEN Command("UploadFile",
                 <<IF 3 \in DOMAIN w THEN w[3] ELSE FileName(w[2]), w[2]>>)
          ELSE Nothing
  <2>1. /\ w[1] # <<"/", "q">> /\ w[1] # <<"/", "r">> /\ w[1] # <<"/", "c">>
        /\ w[1] # <<"/", "d">>
    OBVIOUS
  <2> QED BY <2>1 DEF Asked
<1>4. OrNothing(Nothing) = Nothing
  BY DEF OrNothing
<1>5. CASE Len(w) >= 3
  <2>1. w[2] \in Seq(Char) /\ w[3] \in Seq(Char)
    BY <1>1, <1>5
  <2>2. Asked(w) = Command("UploadFile", <<w[3], w[2]>>)
    <3>1. 2 \in DOMAIN w /\ 3 \in DOMAIN w
      BY <1>1, <1>5
    <3> QED BY <1>3, <3>1, Zenon
  <2>3. parse_upload(w) = check_upload(w[2], w[3])
    BY <1>5 DEF parse_upload
  <2> QED BY <2>1, <2>2, <2>3, FilesMeant
<1>6. CASE Len(w) = 2
  <2>1. w[2] \in Seq(Char)
    BY <1>1, <1>6
  <2>2. Asked(w) = Command("UploadFile", <<FileName(w[2]), w[2]>>)
    BY <1>1, <1>2, <1>3, <1>6
  <2>3. parse_upload(w) = check_upload(w[2], base(w[2]))
    BY <1>6 DEF parse_upload
  <2> QED BY <2>1, <2>2, <2>3, FilesMeant, FileNameIs, BaseType
<1>7. CASE Len(w) < 2
  BY <1>1, <1>2, <1>3, <1>4, <1>7 DEF parse_upload
<1> QED BY <1>1, <1>5, <1>6, <1>7

LEMMA DownloadMeant ==
  ASSUME NEW w \in Seq(Seq(Char)), w[1] = <<"/", "d">>
  PROVE  parse_download(w) = OrNothing(Asked(w))
<1>1. DOMAIN w = 1..Len(w) /\ Len(w) \in Nat
  OBVIOUS
<1>2. /\ 2 \in DOMAIN w <=> Len(w) >= 2
      /\ 3 \in DOMAIN w <=> Len(w) >= 3
  BY <1>1
<1>3. Asked(w) =
        IF 2 \in DOMAIN w
          THEN Command("DownloadFile", <<w[2], IF 3 \in DOMAIN w THEN w[3] ELSE w[2]>>)
          ELSE Nothing
  <2>1. /\ w[1] # <<"/", "q">> /\ w[1] # <<"/", "r">> /\ w[1] # <<"/", "c">>
        /\ w[1] # <<"/", "u">>
    OBVIOUS
  <2> QED BY <2>1 DEF Asked
<1>4. OrNothing(Nothing) = Nothing
  BY DEF OrNothing
<1>5. CASE Len(w) >= 3
  <2>1. w[2] \in Seq(Char) /\ w[3] \in Seq(Char)
    BY <1>1, <1>5
  <2>2. Asked(w) = Command("DownloadFile", <<w[2], w[3]>>)
    <3>1. 2 \in DOMAIN w /\ 3 \in DOMAIN w
      BY <1>1, <1>5
    <3> QED BY <1>3, <3>1, Zenon
  <2>3. parse_download(w) = check_download(w[3], w[2])
    BY <1>5 DEF parse_download
  <2> QED BY <2>1, <2>2, <2>3, FilesMeant
<1>6. CASE Len(w) = 2
  <2>1. w[2] \in Seq(Char)
    BY <1>1, <1>6
  <2>2. Asked(w) = Command("DownloadFile", <<w[2], w[2]>>)
    BY <1>1, <1>2, <1>3, <1>6
  <2>3. parse_download(w) = check_download(w[2], w[2])
    BY <1>6 DEF parse_download
  <2> QED BY <2>1, <2>2, <2>3, FilesMeant
<1>7. CASE Len(w) < 2
  BY <1>1, <1>2, <1>3, <1>4, <1>7 DEF parse_download
<1> QED BY <1>1, <1>5, <1>6, <1>7

\* Whatever the words are, they parse to what they ask for.
LEMMA ParsedIsMeant ==
  ASSUME NEW w \in Seq(Seq(Char)), w # <<>>
  PROVE  parse_command(w) = OrNothing(Asked(w))
<1>1. CASE w[1] = <<"/", "q">>
  <2>1. parse_command(w) = End /\ Asked(w) = End
    BY <1>1 DEF parse_command, Asked
  <2> QED BY <2>1 DEF OrNothing, Permitted, End, Command
<1>2. CASE w[1] = <<"/", "r">>
  <2>1. parse_command(w) = parse_rename(w)
    BY <1>2 DEF parse_command
  <2> QED BY <1>2, <2>1, RenameMeant
<1>3. CASE w[1] = <<"/", "c">>
  <2>1. parse_command(w) = parse_connect(w)
    BY <1>3 DEF parse_command
  <2> QED BY <1>3, <2>1, ConnectMeant
<1>4. CASE w[1] = <<"/", "u">>
  <2>1. parse_command(w) = parse_upload(w)
    BY <1>4 DEF parse_command
  <2> QED BY <1>4, <2>1, UploadMeant
<1>5. CASE w[1] = <<"/", "d">>
  <2>1. parse_command(w) = parse_download(w)
    BY <1>5 DEF parse_command
  <2> QED BY <1>5, <2>1, DownloadMeant
<1>6. CASE w[1] \notin {<<"/", x>> : x \in {"q", "r", "c", "u", "d"}}
  <2>1. parse_command(w) = Nothing /\ Asked(w) = Nothing
    BY <1>6 DEF parse_command, Asked
  <2> QED BY <2>1 DEF OrNothing
<1> QED BY <1>1, <1>2, <1>3, <1>4, <1>5, <1>6

LEMMA TextIsMeant ==
  ASSUME NEW line \in Seq(Char)
  PROVE  text(line) = OrNothing(Command("Text", <<line>>))
<1> DEFINE command == Command("Text", <<line>>)
<1>1. command.kind = "Text" /\ command.args[1] = line
  BY DEF Command
<1> HIDE DEF command
<1>2. Permitted(command) <=> line # <<>> /\ len(line) <= MAXIMUM_TEXT_SIZE
  BY <1>1 DEF Permitted
<1>3. len(line) \in Nat
  <2>1. DOMAIN line = 1..Len(line) /\ Len(line) \in Nat
    OBVIOUS
  <2>2. IsFiniteSet(1..Len(line))
    BY <2>1, FS_Interval
  <2>3. IsFiniteSet({i \in DOMAIN line : line[i] = Lead})
    BY <2>1, <2>2, FS_Subset
  <2>4. Cardinality({i \in DOMAIN line : line[i] = Lead}) \in Nat
    BY <2>3, FS_CardinalityType
  <2> QED BY <2>1, <2>4 DEF len
<1>4. OrNothing(command) =
        IF line = <<>> \/ len(line) > MAXIMUM_TEXT_SIZE THEN Nothing ELSE command
  BY <1>2, <1>3, ConsoleAssumption DEF OrNothing
<1> QED BY <1>4 DEF text, command

TypeInv ==
  /\ input \in Inputs
  /\ stdin \in Seq(Byte) /\ buffer \in Seq(Byte) /\ cut \in BOOLEAN
  /\ Cached(buffer, cache)
  /\ peeked \in {<<>>} \union {<<char>> : char \in Char \union {None}}
  /\ mode \in {"start", "words", "text"}
  /\ words \in Seq(Seq(Char)) /\ words # <<>>
  /\ sent \in Seq(Commands)
  /\ handled \in 0..Len(sent)
  /\ loop \in {"running", "stopped", "failed"}
  /\ taken \in Seq(Char)

LEMMA TypeInvInit ==
  ASSUME Init
  PROVE  TypeInv
<1>1. input \in Inputs /\ stdin \in Seq(Byte)
  BY ConsoleAssumption DEF Init
<1>2. buffer = <<>> /\ cache = <<>> /\ buffer \in Seq(Byte)
  BY DEF Init
<1>3. Cached(buffer, cache)
  BY <1>2, NothingCached
<1>4. words = <<<<>>>> /\ <<<<>>>> \in Seq(Seq(Char)) /\ <<<<>>>> # <<>>
  BY DEF Init
<1>5. sent \in Seq(Commands) /\ handled \in 0..Len(sent) /\ taken \in Seq(Char)
  BY DEF Init
<1> QED BY <1>1, <1>2, <1>3, <1>4, <1>5 DEF Init, TypeInv

\* A word list with a character or a word more.
LEMMA PushTypes ==
  ASSUME NEW w \in Seq(Seq(Char)), w # <<>>
  PROVE  /\ push_blank(w) \in Seq(Seq(Char)) /\ push_blank(w) # <<>>
         /\ \A c \in Char : push(w, c) \in Seq(Seq(Char)) /\ push(w, c) # <<>>
<1>1. Len(w) \in 1..Len(w) /\ Len(w) \in Nat /\ w[Len(w)] \in Seq(Char)
  OBVIOUS
<1>2. push_blank(w) \in Seq(Seq(Char)) /\ push_blank(w) # <<>>
  <2>1. <<>> \in Seq(Char)
    OBVIOUS
  <2>2. Append(w, <<>>) \in Seq(Seq(Char)) /\ Append(w, <<>>) # <<>>
    BY <2>1, AppendProperties
  <2> QED BY <2>2 DEF push_blank
<1>3. ASSUME NEW c \in Char
      PROVE  push(w, c) \in Seq(Seq(Char)) /\ push(w, c) # <<>>
  <2> DEFINE l == Append(w[Len(w)], c)
             v == [w EXCEPT ![Len(w)] = l]
  <2>1. l \in Seq(Char)
    BY <1>1, AppendProperties
  <2>2. push(w, c) = v
    BY DEF push
  <2> HIDE DEF l
  <2>3. v \in Seq(Seq(Char)) /\ Len(v) = Len(w)
    BY <1>1, <2>1, ExceptSeq
  <2> HIDE DEF v
  <2>4. v # <<>>
    BY <1>1, <2>3
  <2> QED BY <2>2, <2>3, <2>4
<1> QED BY <1>2, <1>3

\* The Peekable gives what it keeps, or else the next character.
LEMMA TakeCharacter ==
  ASSUME TypeInv, NEW char, take(char)
  PROVE  /\ stdin' \in Seq(Byte) /\ buffer' \in Seq(Byte) /\ cut' \in BOOLEAN
         /\ Cached(buffer', cache') /\ (cut => cut') /\ char \in Char \union {None}
         /\ peeked' = <<>>
         /\ \/ peeked = <<char>> /\ UNCHANGED <<stdin, buffer, cache, cut>>
            \/ peeked = <<>> /\ next(char)
<1>1. CASE peeked = <<>>
  <2>1. next(char) /\ peeked' = <<>>
    BY <1>1 DEF take
  <2>2. /\ stdin' \in Seq(Byte) /\ buffer' \in Seq(Byte) /\ cut' \in BOOLEAN
        /\ Cached(buffer', cache') /\ (cut => cut') /\ char \in Char \union {None}
    BY <2>1, NextCharacter DEF TypeInv
  <2> QED BY <1>1, <2>1, <2>2
<1>2. CASE peeked # <<>>
  <2>1. PICK c \in Char \union {None} : peeked = <<c>>
    BY <1>2 DEF TypeInv
  <2>2. char = c /\ peeked' = <<>> /\ UNCHANGED <<stdin, buffer, cache, cut>>
    BY <1>2, <2>1 DEF take
  <2>3. peeked = <<char>> /\ char \in Char \union {None}
    BY <2>1, <2>2
  <2>4. stdin \in Seq(Byte) /\ buffer \in Seq(Byte) /\ cut \in BOOLEAN /\ Cached(buffer, cache)
    BY DEF TypeInv
  <2>5. Cached(buffer', cache')
    BY <2>2, <2>4
  <2> QED BY <2>2, <2>3, <2>4, <2>5
<1> QED BY <1>1, <1>2

LEMMA TypeInvPeek ==
  ASSUME TypeInv, peek
  PROVE  TypeInv'
<1>1. PICK char \in Char \union {None} : next(char) /\ peeked' = <<char>>
  BY DEF peek
<1>2. UNCHANGED <<input, mode, words, sent, handled, loop, taken>>
  BY DEF peek
<1>3. stdin' \in Seq(Byte) /\ buffer' \in Seq(Byte) /\ cut' \in BOOLEAN /\ Cached(buffer', cache')
  BY <1>1, NextCharacter DEF TypeInv
<1>4. peeked' \in {<<>>} \union {<<c>> : c \in Char \union {None}}
  BY <1>1
<1> QED BY <1>2, <1>3, <1>4 DEF TypeInv

LEMMA TypeInvParse ==
  ASSUME TypeInv, parse
  PROVE  TypeInv'
<1>1. /\ words' = <<<<>>>> /\ <<<<>>>> \in Seq(Seq(Char)) /\ <<<<>>>> # <<>>
      /\ UNCHANGED <<input, stdin, buffer, cache, handled, loop, taken, cut, peeked>>
  BY DEF parse, parse_end, parse_begin
<1>2. mode' \in {"start", "words", "text"}
  BY DEF parse, parse_end, parse_begin, TypeInv
<1>3. sent' \in Seq(Commands) /\ handled \in 0..Len(sent')
  <2>1. sent' = sent \/ sent' = Append(sent, End)
    BY DEF parse, parse_end, parse_begin
  <2>2. sent \in Seq(Commands) /\ End \in Commands /\ handled \in 0..Len(sent)
    BY PlainTypes DEF TypeInv
  <2>3. Append(sent, End) \in Seq(Commands) /\ Len(Append(sent, End)) = Len(sent) + 1
    BY <2>2, AppendProperties
  <2>4. handled \in 0..(Len(sent) + 1)
    BY <2>2
  <2> QED BY <2>1, <2>2, <2>3, <2>4
<1>4. Cached(buffer', cache')
  BY <1>1 DEF TypeInv
<1> QED BY <1>1, <1>2, <1>3, <1>4 DEF TypeInv

\* A line more to send, or a character more to the line.
LEMMA TypeInvFinish ==
  ASSUME TypeInv, NEW command \in Commands, Finish(command)
  PROVE  /\ words' \in Seq(Seq(Char)) /\ words' # <<>>
         /\ sent' \in Seq(Commands) /\ handled \in 0..Len(sent')
         /\ mode' \in {"start", "words", "text"} /\ taken' \in Seq(Char)
<1>1. /\ sent' = Append(sent, command) /\ mode' = "start" /\ taken' = Append(taken, "nl")
      /\ words' = words
  BY DEF Finish
<1>2. sent \in Seq(Commands) /\ handled \in 0..Len(sent) /\ taken \in Seq(Char)
  BY DEF TypeInv
<1>3. sent' \in Seq(Commands) /\ Len(sent') = Len(sent) + 1
  BY <1>1, <1>2, AppendProperties
<1>4. handled \in 0..Len(sent')
  BY <1>2, <1>3
<1>5. "nl" \in Char
  BY DEF Char
<1>6. taken' \in Seq(Char)
  BY <1>1, <1>2, <1>5, AppendProperties
<1>7. words \in Seq(Seq(Char)) /\ words # <<>>
  BY DEF TypeInv
<1> QED BY <1>1, <1>3, <1>4, <1>6, <1>7

LEMMA TypeInvContinue ==
  ASSUME TypeInv, NEW char \in Char, NEW w \in Seq(Seq(Char)), w # <<>>, Continue(char, w)
  PROVE  /\ words' \in Seq(Seq(Char)) /\ words' # <<>>
         /\ sent' \in Seq(Commands) /\ handled \in 0..Len(sent')
         /\ mode' \in {"start", "words", "text"} /\ taken' \in Seq(Char)
<1>1. taken' = Append(taken, char) /\ words' = w /\ sent' = sent /\ mode' = mode
  BY DEF Continue
<1>2. taken' \in Seq(Char)
  BY <1>1, AppendProperties DEF TypeInv
<1> QED BY <1>1, <1>2 DEF TypeInv

LEMMA TypeInvWords ==
  ASSUME TypeInv, parse_words
  PROVE  TypeInv'
<1>1. PICK char \in Char \union {None} :
        /\ take(char)
        /\ \/ char \in {"nl", None} /\ Finish(parse_command(words))
           \/ char = "cr" /\ Continue(char, words)
           \/ char = "blank" /\ Continue(char, push_blank(words))
           \/ char \notin {"nl", None, "cr", "blank"} /\ Continue(char, push(words, char))
  BY DEF parse_words
<1>2. UNCHANGED <<input, handled, loop>>
  BY DEF parse_words
<1>3. /\ stdin' \in Seq(Byte) /\ buffer' \in Seq(Byte) /\ cut' \in BOOLEAN
      /\ Cached(buffer', cache') /\ peeked' = <<>>
  BY <1>1, TakeCharacter
<1>4. words \in Seq(Seq(Char)) /\ words # <<>> /\ {"cr", "blank"} \subseteq Char
  BY DEF TypeInv, Char
<1>5. /\ words' \in Seq(Seq(Char)) /\ words' # <<>>
      /\ sent' \in Seq(Commands) /\ handled \in 0..Len(sent')
      /\ mode' \in {"start", "words", "text"} /\ taken' \in Seq(Char)
  <2>1. CASE char \in {"nl", None} /\ Finish(parse_command(words))
    BY <1>4, <2>1, ParsedType, TypeInvFinish
  <2>2. CASE char = "cr" /\ Continue(char, words)
    BY <1>4, <2>2, TypeInvContinue
  <2>3. CASE char = "blank" /\ Continue(char, push_blank(words))
    BY <1>4, <2>3, PushTypes, TypeInvContinue
  <2>4. CASE char \notin {"nl", None, "cr", "blank"} /\ Continue(char, push(words, char))
    <3>1. char \in Char
      BY <2>4
    <3> QED BY <1>4, <2>4, <3>1, PushTypes, TypeInvContinue
  <2> QED BY <1>1, <2>1, <2>2, <2>3, <2>4
<1> QED BY <1>2, <1>3, <1>5 DEF TypeInv

LEMMA TypeInvText ==
  ASSUME TypeInv, parse_text
  PROVE  TypeInv'
<1>1. PICK char \in Char \union {None} :
        /\ take(char)
        /\ \/ char \in {"nl", None} /\ Finish(text(words[1]))
           \/ char = "cr" /\ Continue(char, words)
           \/ char \notin {"nl", None, "cr"} /\ Continue(char, push(words, char))
  BY DEF parse_text
<1>2. UNCHANGED <<input, handled, loop>>
  BY DEF parse_text
<1>3. /\ stdin' \in Seq(Byte) /\ buffer' \in Seq(Byte) /\ cut' \in BOOLEAN
      /\ Cached(buffer', cache') /\ peeked' = <<>>
  BY <1>1, TakeCharacter
<1>4. words \in Seq(Seq(Char)) /\ words # <<>> /\ "cr" \in Char
  BY DEF TypeInv, Char
<1>5. /\ words' \in Seq(Seq(Char)) /\ words' # <<>>
      /\ sent' \in Seq(Commands) /\ handled \in 0..Len(sent')
      /\ mode' \in {"start", "words", "text"} /\ taken' \in Seq(Char)
  <2>1. CASE char \in {"nl", None} /\ Finish(text(words[1]))
    <3>1. words[1] \in Seq(Char)
      BY <1>4
    <3>2. text(words[1]) \in Commands
      BY <3>1, PlainTypes
    <3> QED BY <2>1, <3>2, TypeInvFinish
  <2>2. CASE char = "cr" /\ Continue(char, words)
    BY <1>4, <2>2, TypeInvContinue
  <2>3. CASE char \notin {"nl", None, "cr"} /\ Continue(char, push(words, char))
    <3>1. char \in Char
      BY <2>3
    <3> QED BY <1>4, <2>3, <3>1, PushTypes, TypeInvContinue
  <2> QED BY <1>1, <2>1, <2>2, <2>3
<1> QED BY <1>2, <1>3, <1>5 DEF TypeInv

LEMMA TypeInvLoop ==
  ASSUME TypeInv, handle_user_command
  PROVE  TypeInv'
<1>1. UNCHANGED <<input, stdin, buffer, cache, peeked, mode, words, sent, taken, cut>>
  BY DEF handle_user_command, reading
<1>2. handled' \in 0..Len(sent)
  <2>1. handled < Len(sent) /\ handled' = handled + 1
    BY DEF handle_user_command
  <2>2. sent \in Seq(Commands) /\ handled \in 0..Len(sent) /\ Len(sent) \in Nat
    BY DEF TypeInv
  <2> QED BY <2>1, <2>2
<1>3. loop' \in {"running", "stopped", "failed"}
  BY DEF handle_user_command, TypeInv
<1>4. Cached(buffer', cache')
  BY <1>1 DEF TypeInv
<1> QED BY <1>1, <1>2, <1>3, <1>4 DEF TypeInv

\* Every step keeps the types and the cache a piece of the buffer.
LEMMA TypeInvStep ==
  ASSUME TypeInv, [Next]_vars
  PROVE  TypeInv'
<1>1. CASE Next
  BY <1>1, TypeInvPeek, TypeInvParse, TypeInvWords, TypeInvText, TypeInvLoop DEF Next, Thread
<1>2. CASE UNCHANGED vars
  <2>1. Cached(buffer', cache')
    BY <1>2 DEF TypeInv, vars, reading
  <2> QED BY <1>2, <2>1 DEF TypeInv, vars, reading
<1> QED BY <1>1, <1>2

LEMMA TypeInvAlways == Spec => []TypeInv
<1>1. Init => TypeInv
  BY TypeInvInit
<1>2. TypeInv /\ [Next]_vars => TypeInv'
  BY TypeInvStep
<1> QED BY <1>1, <1>2, PTL DEF Spec

\* Every variable has its type; no half characters are decoded (CharsReader::next,
\* parse_command).
THEOREM ConsoleTypeCorrect == Spec => []TypeOK
<1>1. TypeInv => TypeOK
  <2> SUFFICES ASSUME TypeInv
               PROVE  TypeOK
    OBVIOUS
  <2>1. cache \in Seq(Char)
    <3>1. PICK v \in 0..Len(buffer) : cache = Decoded(Upto(buffer, v))
      BY DEF TypeInv, Cached
    <3>2. Upto(buffer, v) \in Seq(Byte)
      BY Cut DEF TypeInv
    <3> QED BY <3>1, <3>2, DecodedType
  <2>2. \A i \in DOMAIN sent : sent[i].args \in Seq(Seq(Char))
    <3>1. \A i \in DOMAIN sent : sent[i] \in Commands
      BY DEF TypeInv
    <3>2. \A command \in Commands : command.args \in Seq(Seq(Char))
      BY DEF Commands
    <3> QED BY <3>1, <3>2
  <2> QED BY <2>1, <2>2 DEF TypeInv, TypeOK
<1> QED BY <1>1, TypeInvAlways, PTL

\* The cached characters are those at the beginning of the buffer the cache points
\* into (CharsReader::next, "TODO: review").
THEOREM TheCacheIsBuffered == Spec => []CacheIsBuffered
<1>1. TypeInv => CacheIsBuffered
  BY CachedIsPrefix DEF TypeInv, CacheIsBuffered
<1> QED BY <1>1, TypeInvAlways, PTL

-----------------------------------------------------------------------------
(* Nothing is skipped *)

\* What of the input is read is parsed, but for a character in the Peekable; or all
\* is read and the thread is at the end.
Parsed(read) ==
  \/ peeked # <<None>> /\ Chain(taken, peeked) = Decoded(read)
  \/ /\ buffer = <<>> /\ stdin = <<>> /\ mode = "start" /\ peeked \in {<<>>, <<None>>}
     /\ taken \in {Decoded(read), Append(Decoded(read), "nl")}

Consumed ==
  ~cut => \E read \in Seq(Byte) :
            input = Chain(read, Chain(buffer, stdin)) /\ Parsed(read)

LEMMA ConsumedInit ==
  ASSUME Init
  PROVE  Consumed
<1>1. input \in Seq(Byte) /\ stdin = input /\ buffer = <<>> /\ peeked = <<>> /\ taken = <<>>
  BY ConsoleAssumption DEF Init
<1>2. <<>> \in Seq(Byte) /\ <<>> # <<None>>
  OBVIOUS
<1>3. Chain(<<>>, Chain(<<>>, input)) = input /\ Chain(<<>>, <<>>) = <<>>
  BY <1>1, <1>2, ChainProperties
<1>4. Parsed(<<>>)
  BY <1>1, <1>2, <1>3, DecodedEmpty DEF Parsed
<1> QED BY <1>1, <1>2, <1>3, <1>4 DEF Consumed

\* What is read and its characters grow together.
LEMMA ReadMore ==
  ASSUME stdin \in Seq(Byte), buffer \in Seq(Byte), cut \in BOOLEAN, Cached(buffer, cache),
         NEW char, next(char),
         NEW read \in Seq(Byte), input = Chain(read, Chain(buffer, stdin))
  PROVE  \E more \in Seq(Byte) :
           /\ input = Chain(more, Chain(buffer', stdin'))
           /\ Decoded(more) = IF char = None THEN Decoded(read) ELSE Append(Decoded(read), char)
           /\ buffer = <<>> /\ stdin = <<>> => char = None
<1>1. /\ stdin' \in Seq(Byte) /\ buffer' \in Seq(Byte) /\ char \in Char \union {None}
      /\ \E chunk \in Seq(Byte) :
           /\ Chain(buffer, stdin) = Chain(chunk, Chain(buffer', stdin'))
           /\ Decoded(chunk) = IF char = None THEN <<>> ELSE <<char>>
  BY NextCharacter
<1>2. PICK chunk \in Seq(Byte) :
        /\ Chain(buffer, stdin) = Chain(chunk, Chain(buffer', stdin'))
        /\ Decoded(chunk) = IF char = None THEN <<>> ELSE <<char>>
  BY <1>1
<1> DEFINE more == Chain(read, chunk)
           left == Chain(buffer', stdin')
<1>3. more \in Seq(Byte) /\ left \in Seq(Byte)
  BY <1>1, ChainProperties
<1>4. input = Chain(more, left)
  <2> HIDE DEF left
  <2>1. Chain(read, Chain(chunk, left)) = Chain(Chain(read, chunk), left)
    BY <1>3, ChainProperties
  <2> QED BY <1>2, <2>1 DEF left
<1>5. Decoded(more) = Chain(Decoded(read), Decoded(chunk))
  BY DecodedChain
<1>6. Decoded(read) \in Seq(Char)
  BY DecodedType
<1>7. Decoded(more) = IF char = None THEN Decoded(read) ELSE Append(Decoded(read), char)
  <2>1. CASE char = None
    <3>1. Chain(Decoded(read), <<>>) = Decoded(read)
      BY <1>6, ChainProperties
    <3> QED BY <1>2, <1>5, <2>1, <3>1
  <2>2. CASE char # None
    <3>1. char \in Char
      BY <1>1, <2>2
    <3>2. Chain(Decoded(read), <<char>>) = Append(Decoded(read), char)
      BY <1>6, <3>1, AppendIsConcat DEF Chain
    <3> QED BY <1>2, <1>5, <2>2, <3>2
  <2> QED BY <2>1, <2>2
<1>8. ASSUME buffer = <<>>, stdin = <<>>
      PROVE  char = None
  <2>1. Chain(buffer, stdin) = <<>>
    <3>1. <<>> \in Seq(Byte)
      OBVIOUS
    <3> QED BY <1>8, <3>1, ChainProperties
  <2>2. Len(Chain(chunk, left)) = Len(chunk) + Len(left)
    BY <1>3, ChainProperties
  <2>3. Chain(chunk, left) = <<>>
    BY <1>2, <2>1
  <2> HIDE DEF left
  <2>4. Len(chunk) = 0
    <3>1. Len(chunk) + Len(left) = 0
      BY <2>2, <2>3
    <3>2. Len(chunk) \in Nat /\ Len(left) \in Nat
      BY <1>3
    <3> QED BY <3>1, <3>2
  <2>5. chunk = <<>>
    BY <2>4
  <2>6. Decoded(chunk) = <<>> /\ <<char>> # <<>>
    BY <2>5, DecodedEmpty
  <2> QED BY <1>2, <2>6
<1> HIDE DEF more, left
<1>9. input = Chain(more, Chain(buffer', stdin'))
  BY <1>4 DEF left
<1> QED BY <1>3, <1>7, <1>8, <1>9

LEMMA ConsumedPeek ==
  ASSUME TypeInv, Consumed, peek
  PROVE  Consumed'
<1>1. PICK char \in Char \union {None} : next(char) /\ peeked' = <<char>>
  BY DEF peek
<1>2. mode = "start" /\ peeked = <<>> /\ UNCHANGED <<input, mode, taken>>
  BY DEF peek
<1>3. /\ (cut => cut') /\ (char = None /\ ~cut' => buffer' = <<>> /\ stdin' = <<>>)
      /\ cut \in BOOLEAN /\ cut' \in BOOLEAN
  BY <1>1, NextCharacter DEF TypeInv
<1> SUFFICES ASSUME ~cut'
             PROVE  \E more \in Seq(Byte) :
                      input' = Chain(more, Chain(buffer', stdin')) /\ Parsed(more)'
  BY DEF Consumed
<1>4. PICK read \in Seq(Byte) : input = Chain(read, Chain(buffer, stdin)) /\ Parsed(read)
  BY <1>3 DEF Consumed
<1>5. PICK more \in Seq(Byte) :
        /\ input = Chain(more, Chain(buffer', stdin'))
        /\ Decoded(more) = IF char = None THEN Decoded(read) ELSE Append(Decoded(read), char)
        /\ buffer = <<>> /\ stdin = <<>> => char = None
  BY <1>1, <1>4, ReadMore DEF TypeInv
<1>6. taken \in Seq(Char) /\ Chain(taken, <<>>) = taken
  BY ChainProperties DEF TypeInv
<1>7. Parsed(more)'
  <2>1. CASE char = None
    <3>1. taken \in {Decoded(read), Append(Decoded(read), "nl")}
      BY <1>2, <1>4, <1>6 DEF Parsed
    <3>2. buffer' = <<>> /\ stdin' = <<>> /\ mode' = "start" /\ peeked' = <<None>> /\ taken' = taken
      BY <1>1, <1>2, <1>3, <2>1
    <3>3. Decoded(more) = Decoded(read)
      BY <1>5, <2>1
    <3> QED BY <3>1, <3>2, <3>3 DEF Parsed
  <2>2. CASE char # None
    <3>1. taken = Decoded(read)
      BY <1>2, <1>4, <1>5, <1>6, <2>2 DEF Parsed
    <3>2. Decoded(more) = Append(taken, char) /\ char \in Char
      BY <1>5, <2>2, <3>1
    <3>3. Append(taken, char) = Chain(taken, <<char>>)
      BY <1>6, <3>2, AppendIsConcat DEF Chain
    <3>4. peeked' = <<char>> /\ <<char>> # <<None>> /\ taken' = taken
      BY <1>1, <1>2, <2>2
    <3> QED BY <3>2, <3>3, <3>4 DEF Parsed
  <2> QED BY <2>1, <2>2
<1> QED BY <1>2, <1>5, <1>7

LEMMA ConsumedParse ==
  ASSUME TypeInv, Consumed, parse
  PROVE  Consumed'
<1>1. UNCHANGED <<input, stdin, buffer, taken, cut, peeked>>
  BY DEF parse, parse_end, parse_begin
<1>2. peeked \in {<<>>, <<None>>} => mode' = mode
  BY DEF parse, parse_end, parse_begin
<1>3. ASSUME NEW read, Parsed(read)
      PROVE  Parsed(read)'
  BY <1>1, <1>2, <1>3 DEF Parsed
<1> QED BY <1>1, <1>3 DEF Consumed

\* A character more is parsed, or the end of the input.
LEMMA ConsumedTake ==
  ASSUME TypeInv, Consumed, mode # "start", NEW char, take(char), UNCHANGED input,
         char = None => mode' = "start" /\ taken' = Append(taken, "nl"),
         char # None => taken' = Append(taken, char)
  PROVE  Consumed'
<1>1. /\ (cut => cut') /\ char \in Char \union {None} /\ peeked' = <<>>
      /\ \/ peeked = <<char>> /\ UNCHANGED <<stdin, buffer, cache, cut>>
         \/ peeked = <<>> /\ next(char)
      /\ cut \in BOOLEAN /\ cut' \in BOOLEAN
  BY TakeCharacter DEF TypeInv
<1> SUFFICES ASSUME ~cut'
             PROVE  \E more \in Seq(Byte) :
                      input' = Chain(more, Chain(buffer', stdin')) /\ Parsed(more)'
  BY DEF Consumed
<1>2. PICK read \in Seq(Byte) : input = Chain(read, Chain(buffer, stdin)) /\ Parsed(read)
  BY <1>1 DEF Consumed
<1>3. peeked # <<None>> /\ Chain(taken, peeked) = Decoded(read)
  BY <1>2 DEF Parsed
<1>4. taken \in Seq(Char) /\ Chain(taken, <<>>) = taken
  BY ChainProperties DEF TypeInv
<1>5. CASE peeked = <<char>> /\ UNCHANGED <<stdin, buffer, cache, cut>>
  <2>1. char \in Char /\ char # None
    BY <1>1, <1>3, <1>5
  <2>2. taken' = Append(taken, char) /\ Append(taken, char) = Chain(taken, <<char>>)
    BY <1>4, <2>1, AppendIsConcat DEF Chain
  <2>3. taken' = Decoded(read) /\ taken' \in Seq(Char)
    BY <1>3, <1>4, <1>5, <2>1, <2>2, AppendProperties
  <2>4. Chain(taken', <<>>) = taken'
    BY <2>3, ChainProperties
  <2>5. Parsed(read)'
    <3>1. peeked' # <<None>>
      BY <1>1
    <3> QED BY <1>1, <2>3, <2>4, <3>1 DEF Parsed
  <2> QED BY <1>2, <1>5, <2>5
<1>6. CASE peeked = <<>> /\ next(char)
  <2>1. taken = Decoded(read)
    BY <1>3, <1>4, <1>6
  <2>2. PICK more \in Seq(Byte) :
          /\ input = Chain(more, Chain(buffer', stdin'))
          /\ Decoded(more) = IF char = None THEN Decoded(read) ELSE Append(Decoded(read), char)
    BY <1>2, <1>6, ReadMore DEF TypeInv
  <2>3. Parsed(more)'
    <3>1. CASE char = None
      <4>1. buffer' = <<>> /\ stdin' = <<>>
        BY <1>6, <3>1, NextCharacter DEF TypeInv
      <4> QED BY <1>1, <2>1, <2>2, <3>1, <4>1 DEF Parsed
    <3>2. CASE char # None
      <4>1. taken' = Decoded(more) /\ taken' \in Seq(Char)
        <5>1. char \in Char
          BY <1>1, <3>2
        <5>2. taken' = Append(taken, char) /\ Append(taken, char) \in Seq(Char)
          BY <1>4, <3>2, <5>1, AppendProperties
        <5> QED BY <2>1, <2>2, <3>2, <5>2
      <4>2. Chain(taken', <<>>) = taken'
        BY <4>1, ChainProperties
      <4>3. peeked' # <<None>>
        BY <1>1
      <4> QED BY <1>1, <4>1, <4>2, <4>3 DEF Parsed
    <3> QED BY <3>1, <3>2
  <2> QED BY <2>2, <2>3
<1> QED BY <1>1, <1>5, <1>6

\* Every step keeps what is read and what is parsed together.
LEMMA ConsumedStep ==
  ASSUME TypeInv, Consumed, [Next]_vars
  PROVE  Consumed'
<1>0. None # "nl" /\ None # "cr" /\ None # "blank"
  BY ConsoleAssumption DEF Byte, Char
<1>1. CASE parse_words
  <2>1. PICK char \in Char \union {None} :
          /\ take(char)
          /\ char = None => mode' = "start" /\ taken' = Append(taken, "nl")
          /\ char # None => taken' = Append(taken, char)
    BY <1>0, <1>1 DEF parse_words, Finish, Continue
  <2>2. mode # "start" /\ UNCHANGED input
    BY <1>1 DEF parse_words
  <2> QED BY <2>1, <2>2, ConsumedTake
<1>2. CASE parse_text
  <2>1. PICK char \in Char \union {None} :
          /\ take(char)
          /\ char = None => mode' = "start" /\ taken' = Append(taken, "nl")
          /\ char # None => taken' = Append(taken, char)
    BY <1>0, <1>2 DEF parse_text, Finish, Continue
  <2>2. mode # "start" /\ UNCHANGED input
    BY <1>2 DEF parse_text
  <2> QED BY <2>1, <2>2, ConsumedTake
<1>3. CASE handle_user_command \/ UNCHANGED vars
  <2>1. UNCHANGED <<input, stdin, buffer, peeked, mode, taken, cut>>
    BY <1>3 DEF handle_user_command, vars, reading
  <2> QED BY <2>1 DEF Consumed, Parsed
<1> QED BY <1>1, <1>2, <1>3, ConsumedPeek, ConsumedParse DEF Next, Thread

\* The console ends the program on its own only when all input is parsed
\* (CharsReader::next, Peekable::peek, parse).
THEOREM NoInputIsSkipped == Spec => []NothingIsSkipped
<1>1. Init => Consumed
  BY ConsumedInit
<1>2. TypeInv /\ Consumed /\ [Next]_vars => Consumed'
  BY ConsumedStep
<1>3. TypeInv /\ Consumed => NothingIsSkipped
  <2> SUFFICES ASSUME TypeInv, Consumed, mode = "start", peeked = <<None>>, ~cut
               PROVE  taken \in {Decoded(input), Append(Decoded(input), "nl")}
    BY DEF NothingIsSkipped
  <2>1. PICK read \in Seq(Byte) : input = Chain(read, Chain(buffer, stdin)) /\ Parsed(read)
    BY DEF Consumed
  <2>2. /\ buffer = <<>> /\ stdin = <<>>
        /\ taken \in {Decoded(read), Append(Decoded(read), "nl")}
    BY <2>1 DEF Parsed
  <2>3. input = read
    <3>1. <<>> \in Seq(Byte)
      OBVIOUS
    <3>2. Chain(<<>>, <<>>) = <<>> /\ Chain(read, <<>>) = read
      BY <3>1, ChainProperties
    <3> QED BY <2>1, <2>2, <3>2
  <2> QED BY <2>2, <2>3
<1> QED BY <1>1, <1>2, <1>3, TypeInvAlways, PTL DEF Spec

-----------------------------------------------------------------------------
(* Words *)

\* A character more leaves the words before it where they are.
LEMMA InsideAppend ==
  ASSUME NEW s \in Seq(Char), NEW c \in Char, NEW t, t = Append(s, c)
  PROVE  /\ t \in Seq(Char) /\ Len(t) = Len(s) + 1 /\ Len(s) \in Nat
         /\ \A k \in 0..Len(s) : Inside(t, k) <=> Inside(s, k)
         /\ Inside(t, Len(s) + 1) <=> c # "blank"
         /\ ~Inside(t, 0) /\ ~Inside(s, 0) /\ ~Inside(s, Len(s) + 1)
         /\ \A k : Inside(s, k) => k \in 1..Len(s)
<1>1. /\ t \in Seq(Char) /\ Len(t) = Len(s) + 1 /\ Len(s) \in Nat
      /\ \A k \in 1..Len(s) : t[k] = s[k]
      /\ t[Len(s) + 1] = c
  BY AppendProperties, LenProperties
<1>2. DOMAIN s = 1..Len(s) /\ DOMAIN t = 1..(Len(s) + 1)
  BY <1>1, LenProperties
<1>3. \A k \in 1..Len(s) : Inside(t, k) <=> Inside(s, k)
  BY <1>1, <1>2 DEF Inside
<1>4. ~Inside(t, 0) /\ ~Inside(s, 0) /\ ~Inside(s, Len(s) + 1)
  BY <1>1, <1>2 DEF Inside
<1>5. \A k \in 0..Len(s) : k = 0 \/ k \in 1..Len(s)
  BY <1>1
<1>6. Inside(t, Len(s) + 1) <=> c # "blank"
  BY <1>1, <1>2 DEF Inside
<1>7. \A k : Inside(s, k) => k \in 1..Len(s)
  BY <1>2 DEF Inside
<1> QED BY <1>1, <1>3, <1>4, <1>5, <1>6, <1>7

\* Where the word ends that begins at i.
WordEnd(s, i) == Max({j \in i..Len(s) : \A k \in i..j : Inside(s, k)})

\* A word ends at the last place before a blank.
LEMMA WordEndProperties ==
  ASSUME NEW s \in Seq(Char), NEW i \in 1..Len(s), Inside(s, i)
  PROVE  /\ WordEnd(s, i) \in i..Len(s)
         /\ \A k \in i..WordEnd(s, i) : Inside(s, k)
         /\ ~Inside(s, WordEnd(s, i) + 1)
<1> DEFINE T == {j \in i..Len(s) : \A k \in i..j : Inside(s, k)}
<1>1. Len(s) \in Nat /\ i \in Nat /\ \A k : Inside(s, k) => k \in 1..Len(s)
  BY DEF Inside
<1>2. T \in SUBSET Nat /\ \A n \in T : n <= Len(s)
  BY <1>1
<1>3. i \in T
  BY <1>1
<1> HIDE DEF T
<1> DEFINE e == Max(T)
<1>4. e \in T /\ \A n \in T : n <= e
  BY <1>1, <1>2, <1>3, MaxNat
<1>5. WordEnd(s, i) = e
  BY DEF WordEnd, T
<1> HIDE DEF e
<1>6. e \in i..Len(s) /\ \A k \in i..e : Inside(s, k)
  BY <1>4 DEF T
<1>7. ~Inside(s, e + 1)
  <2> SUFFICES ASSUME Inside(s, e + 1)
               PROVE  FALSE
    OBVIOUS
  <2>1. e + 1 \in i..Len(s)
    BY <1>1, <1>6
  <2>2. \A k \in i..(e + 1) : k \in i..e \/ k = e + 1
    BY <1>1, <1>6
  <2>3. e + 1 \in T
    BY <1>6, <2>1, <2>2 DEF T
  <2>4. e + 1 <= e
    BY <1>4, <2>3
  <2> QED BY <1>1, <1>6, <2>4
<1> QED BY <1>5, <1>6, <1>7

\* A place up to which there is no blank, but one after it, is where the word ends.
LEMMA WordEndIsUnique ==
  ASSUME NEW s \in Seq(Char), NEW i \in 1..Len(s), NEW j \in i..Len(s),
         \A k \in i..j : Inside(s, k), ~Inside(s, j + 1)
  PROVE  WordEnd(s, i) = j
<1>1. Len(s) \in Nat /\ i \in Nat /\ j \in Nat /\ i \in i..j /\ i <= j
  OBVIOUS
<1> DEFINE e == WordEnd(s, i)
<1>2. e \in i..Len(s) /\ (\A k \in i..e : Inside(s, k)) /\ ~Inside(s, e + 1)
  BY <1>1, WordEndProperties
<1> HIDE DEF e
<1>3. ~(j < e)
  <2> SUFFICES ASSUME j < e
               PROVE  FALSE
    OBVIOUS
  <2>1. j + 1 \in i..e
    BY <1>1, <1>2
  <2> QED BY <1>2, <2>1
<1>4. ~(e < j)
  <2> SUFFICES ASSUME e < j
               PROVE  FALSE
    OBVIOUS
  <2>1. e + 1 \in i..j
    BY <1>1, <1>2
  <2> QED BY <1>2, <2>1
<1>5. e = j
  BY <1>1, <1>2, <1>3, <1>4
<1> QED BY <1>5 DEF e

\* What is cut out of a sequence with one more element.
LEMMA CutOfAppend ==
  ASSUME NEW X, NEW s \in Seq(X), NEW x \in X, NEW i \in Nat \ {0}, NEW j \in Nat, j <= Len(s)
  PROVE  /\ SubSeq(Append(s, x), i, j) = SubSeq(s, i, j)
         /\ SubSeq(s, i, j) \in Seq(X)
         /\ i <= Len(s) + 1 => SubSeq(Append(s, x), i, Len(s) + 1) = Append(SubSeq(s, i, Len(s)), x)
<1> DEFINE t == Append(s, x)
           a == SubSeq(t, i, j)
           b == SubSeq(s, i, j)
<1>1. /\ t \in Seq(X) /\ Len(t) = Len(s) + 1 /\ Len(s) \in Nat
      /\ \A k \in 1..Len(s) : t[k] = s[k]
      /\ t[Len(s) + 1] = x
  BY AppendProperties, LenProperties
<1> HIDE DEF t
<1>2. i \in Int /\ j \in Int /\ \A k \in i..j : k \in 1..Len(s)
  BY <1>1
<1>3. \A k \in i..j : s[k] \in X /\ t[k] = s[k]
  BY <1>1, <1>2
<1>4. /\ a \in Seq(X) /\ Len(a) = (IF i <= j THEN j - i + 1 ELSE 0)
      /\ \A k \in 1..(j - i + 1) : a[k] = t[i + k - 1]
  BY <1>2, <1>3, SubSeqProperties
<1>5. /\ b \in Seq(X) /\ Len(b) = (IF i <= j THEN j - i + 1 ELSE 0)
      /\ \A k \in 1..(j - i + 1) : b[k] = s[i + k - 1]
  BY <1>2, <1>3, SubSeqProperties
<1> HIDE DEF a, b
<1>6. \A k \in 1..Len(a) : a[k] = b[k]
  <2> SUFFICES ASSUME NEW k \in 1..Len(a)
               PROVE  a[k] = b[k]
    OBVIOUS
  <2>1. k \in 1..(j - i + 1) /\ i + k - 1 \in i..j
    BY <1>2, <1>4
  <2> QED BY <1>3, <1>4, <1>5, <2>1
<1>7. a = b
  BY <1>4, <1>5, <1>6, SeqEqual
<1>8. ASSUME i <= Len(s) + 1
      PROVE  SubSeq(t, i, Len(s) + 1) = Append(SubSeq(s, i, Len(s)), x)
  <2> DEFINE u == SubSeq(t, i, Len(s) + 1)
             v == SubSeq(s, i, Len(s))
             w == Append(v, x)
  <2>1. /\ \A k \in i..(Len(s) + 1) : t[k] \in X
        /\ \A k \in i..Len(s) : s[k] \in X
    BY <1>1, <1>2
  <2>2. /\ u \in Seq(X) /\ Len(u) = Len(s) + 2 - i
        /\ \A k \in 1..(Len(s) + 2 - i) : u[k] = t[i + k - 1]
    <3>1. Len(s) + 1 \in Int /\ Len(s) + 1 - i + 1 = Len(s) + 2 - i
      BY <1>1, <1>2
    <3> QED BY <1>2, <1>8, <2>1, <3>1, SubSeqProperties
  <2>3. /\ v \in Seq(X) /\ Len(v) = Len(s) + 1 - i
        /\ \A k \in 1..(Len(s) + 1 - i) : v[k] = s[i + k - 1]
    <3>1. Len(s) \in Int /\ Len(s) - i + 1 = Len(s) + 1 - i /\ (~(i <= Len(s)) => Len(s) + 1 - i = 0)
      BY <1>1, <1>2, <1>8
    <3> QED BY <1>2, <1>8, <2>1, <3>1, SubSeqProperties
  <2> HIDE DEF u, v
  <2>4. /\ w \in Seq(X) /\ Len(w) = Len(v) + 1
        /\ \A k \in 1..Len(v) : w[k] = v[k]
        /\ w[Len(v) + 1] = x
    <3>1. v \in Seq(X)
      BY <2>3
    <3> QED BY <3>1, AppendProperties
  <2> HIDE DEF w
  <2>5. \A k \in 1..Len(u) : u[k] = w[k]
    <3> SUFFICES ASSUME NEW k \in 1..Len(u)
                 PROVE  u[k] = w[k]
      OBVIOUS
    <3>1. CASE k \in 1..Len(v)
      <4>1. i + k - 1 \in 1..Len(s)
        BY <1>1, <1>2, <2>3, <3>1
      <4> QED BY <1>1, <2>2, <2>3, <2>4, <3>1, <4>1
    <3>2. CASE k = Len(v) + 1
      <4>1. i + k - 1 = Len(s) + 1
        BY <1>1, <1>2, <2>3, <3>2
      <4> QED BY <1>1, <2>2, <2>3, <2>4, <3>2, <4>1
    <3>3. k \in 1..Len(v) \/ k = Len(v) + 1
      <4>1. Len(u) = Len(v) + 1
        BY <1>1, <1>2, <2>2, <2>3
      <4>2. Len(v) \in Nat
        BY <2>3
      <4> QED BY <4>1, <4>2
    <3> QED BY <3>1, <3>2, <3>3
  <2>6. Len(u) = Len(w)
    BY <1>1, <1>2, <2>2, <2>3, <2>4
  <2>7. u = w
    BY <2>2, <2>4, <2>5, <2>6, SeqEqual
  <2> QED BY <2>7 DEF u, v, w
<1> QED BY <1>5, <1>7, <1>8 DEF a, b, t
\* Where the words begin, and the words without the empty one at the end.
Starts(s) == Ascending(Begins(s), Len(s))
Pieces(s) == [n \in 1..Len(Starts(s)) |-> WordAt(s, Starts(s)[n])]

\* A word begins with a character more, if it is no blank and follows none.
LEMMA BeginsAppend ==
  ASSUME NEW s \in Seq(Char), NEW c \in Char, NEW t, t = Append(s, c)
  PROVE  Starts(t) = IF c # "blank" /\ ~Inside(s, Len(s)) THEN Append(Starts(s), Len(s) + 1)
                                                          ELSE Starts(s)
<1>1. /\ Len(t) = Len(s) + 1 /\ Len(s) \in Nat
      /\ \A k \in 0..Len(s) : Inside(t, k) <=> Inside(s, k)
      /\ Inside(t, Len(s) + 1) <=> c # "blank"
  BY InsideAppend
<1>2. \A i \in 1..Len(s) : i \in Begins(s) <=> i \in Begins(t)
  <2>1. \A i \in 1..Len(s) : i \in 0..Len(s) /\ i - 1 \in 0..Len(s)
    BY <1>1
  <2> QED BY <1>1, <2>1 DEF Begins, Inside
<1>3. Len(s) + 1 \in Begins(t) <=> c # "blank" /\ ~Inside(s, Len(s))
  <2>1. Len(s) \in 0..Len(s) /\ Len(s) + 1 - 1 = Len(s)
    BY <1>1
  <2>2. Len(s) + 1 \in Begins(t) <=> Inside(t, Len(s) + 1) /\ ~Inside(t, Len(s) + 1 - 1)
    BY DEF Begins, Inside
  <2> QED BY <1>1, <2>1, <2>2
<1>4. Starts(t) = IF Len(s) + 1 \in Begins(t) THEN Append(Starts(s), Len(s) + 1) ELSE Starts(s)
  <2>1. Ascending(Begins(t), Len(s) + 1) =
          IF Len(s) + 1 \in Begins(t) THEN Append(Ascending(Begins(s), Len(s)), Len(s) + 1)
                                      ELSE Ascending(Begins(s), Len(s))
    BY <1>1, <1>2, AscendingMore
  <2> QED BY <1>1, <2>1 DEF Starts
<1> QED BY <1>3, <1>4

\* Where the words start, in order.
LEMMA StartsProperties ==
  ASSUME NEW s \in Seq(Char)
  PROVE  /\ Starts(s) \in Seq(Nat) /\ Len(Starts(s)) \in Nat
         /\ \A n \in 1..Len(Starts(s)) :
              /\ Starts(s)[n] \in 1..Len(s)
              /\ Inside(s, Starts(s)[n]) /\ ~Inside(s, Starts(s)[n] - 1)
         /\ \A m, n \in 1..Len(Starts(s)) : m < n => Starts(s)[m] < Starts(s)[n]
         /\ \A i \in 1..Len(s) :
              Inside(s, i) /\ ~Inside(s, i - 1) => \E n \in 1..Len(Starts(s)) : Starts(s)[n] = i
<1> DEFINE S == Begins(s)
           a == Starts(s)
<1>0. Len(s) \in Nat /\ a = Ascending(S, Len(s))
  BY DEF Starts
<1> HIDE DEF a, S
<1>1. /\ a \in Seq(Nat)
      /\ \A k \in 1..Len(a) : a[k] \in S /\ a[k] \in 1..Len(s)
      /\ \A j, k \in 1..Len(a) : j < k => a[j] < a[k]
  BY <1>0, AscendingRange
<1>2. \A i \in 1..Len(s) : i \in S => \E k \in 1..Len(a) : a[k] = i
  BY <1>0, AscendingAll
<1>3. \A i : i \in S <=> i \in DOMAIN s /\ Inside(s, i) /\ ~Inside(s, i - 1)
  BY DEF S, Begins
<1>4. DOMAIN s = 1..Len(s)
  OBVIOUS
<1>5. Len(a) \in Nat
  BY <1>1
<1>6. \A k \in 1..Len(a) : /\ a[k] \in 1..Len(s)
                           /\ Inside(s, a[k]) /\ ~Inside(s, a[k] - 1)
  BY <1>1, <1>3
<1>7. \A i \in 1..Len(s) : Inside(s, i) /\ ~Inside(s, i - 1) => \E k \in 1..Len(a) : a[k] = i
  BY <1>2, <1>3, <1>4
<1> QED BY <1>1, <1>5, <1>6, <1>7 DEF a

LEMMA WordAtType ==
  ASSUME NEW s \in Seq(Char), NEW i \in 1..Len(s), Inside(s, i)
  PROVE  WordAt(s, i) \in Seq(Char) /\ WordAt(s, i) # <<>>
<1> DEFINE e == WordEnd(s, i)
           w == SubSeq(s, i, e)
<1>1. e \in i..Len(s)
  BY WordEndProperties
<1>2. WordAt(s, i) = w
  BY DEF WordAt, WordEnd
<1> HIDE DEF e
<1>3. i \in Int /\ e \in Int /\ i <= e /\ \A k \in i..e : s[k] \in Char
  BY <1>1
<1>4. w \in Seq(Char) /\ Len(w) = e - i + 1
  BY <1>3, SubSeqProperties
<1> HIDE DEF w
<1>5. w # <<>>
  BY <1>3, <1>4
<1> QED BY <1>2, <1>4, <1>5

\* The word that the character more belongs to grows; the others stay.
LEMMA WordAtAppend ==
  ASSUME NEW s \in Seq(Char), NEW c \in Char, NEW t, t = Append(s, c),
         NEW i \in 1..Len(s), Inside(s, i)
  PROVE  WordAt(t, i) = IF WordEnd(s, i) = Len(s) /\ c # "blank" THEN Append(WordAt(s, i), c)
                                                                ELSE WordAt(s, i)
<1> DEFINE e == WordEnd(s, i)
<1>1. /\ t \in Seq(Char) /\ Len(t) = Len(s) + 1 /\ Len(s) \in Nat
      /\ \A k \in 0..Len(s) : Inside(t, k) <=> Inside(s, k)
      /\ Inside(t, Len(s) + 1) <=> c # "blank"
      /\ ~Inside(t, Len(t) + 1)
  <2>1. /\ t \in Seq(Char) /\ Len(t) = Len(s) + 1 /\ Len(s) \in Nat
        /\ \A k \in 0..Len(s) : Inside(t, k) <=> Inside(s, k)
        /\ Inside(t, Len(s) + 1) <=> c # "blank"
    BY InsideAppend
  <2>2. ~Inside(t, Len(t) + 1)
    BY <2>1, InsideAppend
  <2> QED BY <2>1, <2>2
<1>2. e \in i..Len(s) /\ (\A k \in i..e : Inside(s, k)) /\ ~Inside(s, e + 1)
  BY WordEndProperties
<1>3. WordAt(s, i) = SubSeq(s, i, e) /\ WordAt(t, i) = SubSeq(t, i, WordEnd(t, i))
  BY DEF WordAt, WordEnd
<1> HIDE DEF e
<1>4. i \in 1..Len(t) /\ i \in Nat \ {0} /\ e \in Nat /\ i <= e /\ e <= Len(s) /\ e \in i..Len(t)
  BY <1>1, <1>2
<1>5. \A k \in i..e : Inside(t, k)
  <2>1. \A k \in i..e : k \in 0..Len(s)
    BY <1>4
  <2> QED BY <1>1, <1>2, <2>1
<1>6. CASE ~(e = Len(s) /\ c # "blank")
  <2>1. ~Inside(t, e + 1)
    <3>1. CASE e = Len(s)
      BY <1>1, <1>6, <3>1
    <3>2. CASE e # Len(s)
      <4>1. e + 1 \in 0..Len(s)
        BY <1>1, <1>4, <3>2
      <4> QED BY <1>1, <1>2, <4>1
    <3> QED BY <3>1, <3>2
  <2>2. WordEnd(t, i) = e
    BY <1>1, <1>4, <1>5, <2>1, WordEndIsUnique
  <2>3. SubSeq(t, i, e) = SubSeq(s, i, e)
    BY <1>4, CutOfAppend
  <2> QED BY <1>3, <1>6, <2>2, <2>3 DEF e
<1>7. CASE e = Len(s) /\ c # "blank"
  <2>1. Inside(t, e + 1) /\ \A k \in i..(e + 1) : k \in i..e \/ k = e + 1
    BY <1>1, <1>4, <1>7
  <2>2. e + 1 \in i..Len(t) /\ e + 1 = Len(t)
    BY <1>1, <1>4, <1>7
  <2>3. \A k \in i..(e + 1) : Inside(t, k)
    BY <1>5, <2>1
  <2>4. WordEnd(t, i) = e + 1
    <3>1. ~Inside(t, (e + 1) + 1)
      BY <1>1, <2>2
    <3> QED BY <1>1, <1>4, <2>2, <2>3, <3>1, WordEndIsUnique
  <2>5. SubSeq(t, i, Len(s) + 1) = Append(SubSeq(s, i, Len(s)), c)
    <3>1. i <= Len(s) + 1 /\ Len(s) <= Len(s) /\ Len(s) \in Nat
      BY <1>1, <1>4
    <3> QED BY <1>4, <3>1, CutOfAppend
  <2> QED BY <1>3, <1>7, <2>4, <2>5 DEF e
<1> QED BY <1>6, <1>7

\* If the last character is in a word, that is the last one.
LEMMA LastWord ==
  ASSUME NEW s \in Seq(Char), Inside(s, Len(s))
  PROVE  /\ Len(Starts(s)) >= 1
         /\ \A n \in 1..Len(Starts(s)) :
              WordEnd(s, Starts(s)[n]) = Len(s) <=> n = Len(Starts(s))
<1> DEFINE a == Starts(s)
           T == {j \in 1..Len(s) : \A k \in j..Len(s) : Inside(s, k)}
<1>1. /\ Len(a) \in Nat
      /\ \A n \in 1..Len(a) : a[n] \in 1..Len(s) /\ Inside(s, a[n]) /\ ~Inside(s, a[n] - 1)
      /\ \A m, n \in 1..Len(a) : m < n => a[m] < a[n]
      /\ \A i \in 1..Len(s) : Inside(s, i) /\ ~Inside(s, i - 1) => \E n \in 1..Len(a) : a[n] = i
  BY StartsProperties
<1>2. \A n \in 1..Len(a) : /\ WordEnd(s, a[n]) \in a[n]..Len(s)
                           /\ \A k \in a[n]..WordEnd(s, a[n]) : Inside(s, k)
  BY <1>1, WordEndProperties
<1> HIDE DEF a
<1>3. Len(s) \in T /\ T \in SUBSET Nat /\ Len(s) \in Nat
  <2>1. Len(s) \in 1..Len(s) /\ Len(s) \in Nat
    BY DEF Inside
  <2>2. \A k \in Len(s)..Len(s) : k = Len(s)
    BY <2>1
  <2> QED BY <2>1, <2>2
<1>4. PICK b \in T : \A j \in T : b <= j
  BY <1>3, Least
<1>5. b \in 1..Len(s) /\ \A k \in b..Len(s) : Inside(s, k)
  BY <1>4
<1>6. ~Inside(s, b - 1)
  <2> SUFFICES ASSUME Inside(s, b - 1)
               PROVE  FALSE
    OBVIOUS
  <2>1. b - 1 \in 1..Len(s)
    BY DEF Inside
  <2>2. \A k \in (b - 1)..Len(s) : k = b - 1 \/ k \in b..Len(s)
    BY <1>5
  <2>3. b - 1 \in T
    BY <1>5, <2>1, <2>2
  <2>4. b <= b - 1
    BY <1>4, <2>3
  <2> QED BY <1>5, <2>4
<1> HIDE DEF T
<1>7. PICK m \in 1..Len(a) : a[m] = b
  <2>1. b \in b..Len(s)
    BY <1>5
  <2>2. Inside(s, b)
    BY <1>5, <2>1
  <2> QED BY <1>1, <1>5, <1>6, <2>2
<1>8. m = Len(a)
  <2> SUFFICES ASSUME m < Len(a)
               PROVE  FALSE
    BY <1>1, <1>7
  <2>1. Len(a) \in 1..Len(a)
    BY <1>1
  <2>2. a[Len(a)] > b /\ a[Len(a)] \in 1..Len(s) /\ ~Inside(s, a[Len(a)] - 1)
    BY <1>1, <1>7, <2>1
  <2>3. a[Len(a)] - 1 \in b..Len(s)
    BY <1>5, <2>2
  <2> QED BY <1>5, <2>2, <2>3
<1>9. WordEnd(s, a[m]) = Len(s)
  <2>1. ~Inside(s, Len(s) + 1)
    BY <1>3 DEF Inside
  <2>2. b \in 1..Len(s) /\ Len(s) \in b..Len(s)
    BY <1>3, <1>5
  <2>3. WordEnd(s, b) = Len(s)
    BY <1>5, <2>1, <2>2, WordEndIsUnique
  <2> QED BY <1>7, <2>3
<1>10. ASSUME NEW n \in 1..Len(a), n # Len(a)
       PROVE  WordEnd(s, a[n]) # Len(s)
  <2> SUFFICES ASSUME WordEnd(s, a[n]) = Len(s)
               PROVE  FALSE
    OBVIOUS
  <2>1. n < m
    BY <1>1, <1>8, <1>10
  <2>2. a[n] < b /\ a[n] \in 1..Len(s)
    BY <1>1, <1>7, <2>1
  <2>3. b - 1 \in a[n]..Len(s)
    BY <1>5, <2>2
  <2>4. Inside(s, b - 1)
    BY <1>2, <2>3
  <2> QED BY <1>6, <2>4
<1>11. Len(a) >= 1
  BY <1>1, <1>7
<1>12. \A n \in 1..Len(a) : WordEnd(s, a[n]) = Len(s) <=> n = Len(a)
  BY <1>8, <1>9, <1>10
<1> QED BY <1>11, <1>12 DEF a
LEMMA PiecesType ==
  ASSUME NEW s \in Seq(Char)
  PROVE  /\ Pieces(s) \in Seq(Seq(Char)) /\ Len(Pieces(s)) = Len(Starts(s))
         /\ \A n \in 1..Len(Starts(s)) : Pieces(s)[n] = WordAt(s, Starts(s)[n]) /\ Pieces(s)[n] # <<>>
<1> DEFINE a == Starts(s)
           p == Pieces(s)
<1>1. Len(a) \in Nat /\ \A n \in 1..Len(a) : a[n] \in 1..Len(s) /\ Inside(s, a[n])
  BY StartsProperties
<1>2. p = [n \in 1..Len(a) |-> WordAt(s, a[n])]
  BY DEF Pieces
<1> HIDE DEF a, p
<1>3. \A n \in 1..Len(a) : WordAt(s, a[n]) \in Seq(Char) /\ WordAt(s, a[n]) # <<>>
  BY <1>1, WordAtType
<1>4. p \in Seq(Seq(Char)) /\ Len(p) = Len(a)
  BY <1>1, <1>2, <1>3
<1>5. \A n \in 1..Len(a) : p[n] = WordAt(s, a[n]) /\ p[n] # <<>>
  BY <1>2, <1>3
<1> QED BY <1>4, <1>5 DEF a, p

\* A character behind blanks begins a word.
LEMMA PiecesBegin ==
  ASSUME NEW s \in Seq(Char), NEW c \in Char, NEW t, t = Append(s, c),
         c # "blank", ~Inside(s, Len(s))
  PROVE  Pieces(t) = Append(Pieces(s), <<c>>)
<1> DEFINE a == Starts(s)
           b == Starts(t)
           p == Pieces(s)
           q == Pieces(t)
           r == Append(p, <<c>>)
<1>1. /\ t \in Seq(Char) /\ Len(t) = Len(s) + 1 /\ Len(s) \in Nat
      /\ Inside(t, Len(s) + 1)
      /\ \A k : Inside(s, k) => k \in 1..Len(s)
  BY InsideAppend
<1>2. b = Append(a, Len(s) + 1)
  BY BeginsAppend
<1>3. a \in Seq(Nat) /\ Len(a) \in Nat /\ \A n \in 1..Len(a) : a[n] \in 1..Len(s) /\ Inside(s, a[n])
  BY StartsProperties
<1>4. p \in Seq(Seq(Char)) /\ Len(p) = Len(a) /\ \A n \in 1..Len(a) : p[n] = WordAt(s, a[n])
  BY PiecesType
<1>5. q \in Seq(Seq(Char)) /\ Len(q) = Len(b) /\ \A n \in 1..Len(b) : q[n] = WordAt(t, b[n])
  BY <1>1, PiecesType
<1> HIDE DEF a, b, p, q
<1>6. Len(b) = Len(a) + 1 /\ (\A n \in 1..Len(a) : b[n] = a[n]) /\ b[Len(a) + 1] = Len(s) + 1
  <2>1. Len(s) + 1 \in Nat
    BY <1>1
  <2> QED BY <1>2, <1>3, <2>1, AppendProperties
<1>7. /\ r \in Seq(Seq(Char)) /\ Len(r) = Len(a) + 1
      /\ \A n \in 1..Len(a) : r[n] = p[n]
      /\ r[Len(a) + 1] = <<c>>
  <2>1. <<c>> \in Seq(Char)
    OBVIOUS
  <2> DEFINE l == <<c>>
  <2> HIDE DEF l
  <2>2. l \in Seq(Char)
    BY <2>1 DEF l
  <2>3. /\ Append(p, l) \in Seq(Seq(Char)) /\ Len(Append(p, l)) = Len(p) + 1
        /\ \A n \in 1..Len(p) : Append(p, l)[n] = p[n]
        /\ Append(p, l)[Len(p) + 1] = l
    BY <1>4, <2>2, AppendProperties
  <2>4. r = Append(p, l)
    BY DEF l
  <2> HIDE DEF r
  <2> QED BY <1>4, <2>3, <2>4 DEF l
<1> HIDE DEF r
<1>8. \A n \in 1..Len(a) : WordAt(t, a[n]) = WordAt(s, a[n])
  <2> SUFFICES ASSUME NEW n \in 1..Len(a)
               PROVE  WordAt(t, a[n]) = WordAt(s, a[n])
    OBVIOUS
  <2>1. a[n] \in 1..Len(s) /\ Inside(s, a[n])
    BY <1>3
  <2>2. WordEnd(s, a[n]) # Len(s)
    <3>1. WordEnd(s, a[n]) \in a[n]..Len(s) /\ \A k \in a[n]..WordEnd(s, a[n]) : Inside(s, k)
      BY <2>1, WordEndProperties
    <3> QED BY <2>1, <3>1
  <2> QED BY <2>1, <2>2, WordAtAppend
<1>9. WordAt(t, Len(s) + 1) = <<c>>
  <2> DEFINE i == Len(s) + 1
  <2>1. i \in 1..Len(t) /\ i \in i..Len(t) /\ i = Len(t)
    BY <1>1
  <2>2. ~Inside(t, i + 1)
    <3>1. i + 1 \notin 1..Len(t)
      BY <2>1
    <3>2. DOMAIN t = 1..Len(t)
      BY <1>1, LenProperties
    <3> QED BY <3>1, <3>2 DEF Inside
  <2>3. \A k \in i..i : Inside(t, k)
    <3>1. \A k \in i..i : k = i
      BY <2>1
    <3> QED BY <1>1, <3>1
  <2>4. WordEnd(t, i) = i
    <3> HIDE DEF i
    <3> QED BY <1>1, <2>1, <2>2, <2>3, WordEndIsUnique
  <2>5. WordAt(t, i) = SubSeq(t, i, i)
    BY <2>4 DEF WordAt, WordEnd
  <2>6. t[i] = c
    BY AppendProperties
  <2>7. SubSeq(t, i, i) = <<t[i]>>
    <3> HIDE DEF i
    <3> QED BY <1>1, <2>1, CutOne
  <2> QED BY <2>5, <2>6, <2>7
<1>10. \A n \in 1..Len(q) : q[n] = r[n]
  <2> SUFFICES ASSUME NEW n \in 1..Len(q)
               PROVE  q[n] = r[n]
    OBVIOUS
  <2>1. n \in 1..Len(a) \/ n = Len(a) + 1
    BY <1>3, <1>5, <1>6
  <2>2. n \in 1..Len(b)
    BY <1>5
  <2> QED BY <1>4, <1>5, <1>6, <1>7, <1>8, <1>9, <2>1, <2>2
<1>11. q = r
  BY <1>5, <1>6, <1>7, <1>10, SeqEqual
<1> QED BY <1>11 DEF p, q, r

\* A blank, or a character in a word, begins none.
LEMMA PiecesStay ==
  ASSUME NEW s \in Seq(Char), NEW c \in Char, NEW t, t = Append(s, c),
         c = "blank" \/ Inside(s, Len(s))
  PROVE  /\ Pieces(t) \in Seq(Seq(Char)) /\ Len(Pieces(t)) = Len(Pieces(s))
         /\ \A n \in 1..Len(Pieces(s)) :
              Pieces(t)[n] = IF c # "blank" /\ n = Len(Pieces(s)) THEN Append(Pieces(s)[n], c)
                                                                  ELSE Pieces(s)[n]
<1> DEFINE a == Starts(s)
           p == Pieces(s)
           q == Pieces(t)
<1>1. t \in Seq(Char)
  BY InsideAppend
<1>2. Starts(t) = a
  BY BeginsAppend
<1>3. Len(a) \in Nat /\ \A n \in 1..Len(a) : a[n] \in 1..Len(s) /\ Inside(s, a[n])
  BY StartsProperties
<1>4. p \in Seq(Seq(Char)) /\ Len(p) = Len(a) /\ \A n \in 1..Len(a) : p[n] = WordAt(s, a[n])
  BY PiecesType
<1>5. q \in Seq(Seq(Char)) /\ Len(q) = Len(a) /\ \A n \in 1..Len(a) : q[n] = WordAt(t, a[n])
  BY <1>1, <1>2, PiecesType
<1>6. Inside(s, Len(s)) => \A n \in 1..Len(a) : WordEnd(s, a[n]) = Len(s) <=> n = Len(a)
  BY LastWord
<1> HIDE DEF a, p, q
<1>7. \A n \in 1..Len(a) : WordAt(t, a[n]) = IF WordEnd(s, a[n]) = Len(s) /\ c # "blank"
                                              THEN Append(WordAt(s, a[n]), c) ELSE WordAt(s, a[n])
  BY <1>3, WordAtAppend
<1>8. \A n \in 1..Len(p) : q[n] = IF c # "blank" /\ n = Len(p) THEN Append(p[n], c) ELSE p[n]
  <2> SUFFICES ASSUME NEW n \in 1..Len(p)
               PROVE  q[n] = IF c # "blank" /\ n = Len(p) THEN Append(p[n], c) ELSE p[n]
    OBVIOUS
  <2>1. n \in 1..Len(a) /\ p[n] = WordAt(s, a[n]) /\ q[n] = WordAt(t, a[n])
    BY <1>4, <1>5
  <2>2. CASE c = "blank"
    BY <1>7, <2>1, <2>2
  <2>3. CASE c # "blank"
    <3>1. WordEnd(s, a[n]) = Len(s) <=> n = Len(p)
      BY <1>4, <1>6, <2>1, <2>3
    <3> QED BY <1>7, <2>1, <2>3, <3>1
  <2> QED BY <2>2, <2>3
<1> QED BY <1>4, <1>5, <1>8 DEF p, q
LEMMA WordsArePieces ==
  ASSUME NEW s \in Seq(Char), s # <<>>
  PROVE  Words(s) = IF Inside(s, Len(s)) THEN Pieces(s) ELSE Append(Pieces(s), <<>>)
<1>1. Words(s) = Pieces(s) \o (IF Last(s) = "blank" THEN <<<<>>>> ELSE <<>>)
  BY DEF Words, Pieces, Starts
<1>2. Last(s) = "blank" <=> ~Inside(s, Len(s))
  <2>1. Len(s) \in DOMAIN s
    OBVIOUS
  <2> QED BY <2>1 DEF Last, Inside
<1> DEFINE p == Pieces(s)
<1>3. p \in Seq(Seq(Char))
  BY PiecesType
<1> HIDE DEF p
<1>4. p \o <<>> = p
  BY <1>3, ConcatEmptySeq
<1>5. p \o <<<<>>>> = Append(p, <<>>)
  <2> DEFINE l == <<>>
  <2>1. l \in Seq(Char)
    OBVIOUS
  <2> HIDE DEF l
  <2>2. Append(p, l) = p \o <<l>>
    BY <1>3, <2>1, AppendIsConcat
  <2> QED BY <2>2 DEF l
<1>6. CASE Inside(s, Len(s))
  BY <1>1, <1>2, <1>4, <1>6 DEF p
<1>7. CASE ~Inside(s, Len(s))
  BY <1>1, <1>2, <1>5, <1>7 DEF p
<1> QED BY <1>6, <1>7

\* A word list with an empty word behind it.
LEMMA Blanked ==
  ASSUME NEW p \in Seq(Seq(Char)), NEW v, v = Append(p, <<>>)
  PROVE  /\ push_blank(v) = v
         /\ \A c \in Char : push(v, c) = Append(p, <<c>>)
<1> DEFINE l == <<>>
<1>1. l \in Seq(Char)
  OBVIOUS
<1>2. v = Append(p, l)
  OBVIOUS
<1> HIDE DEF l
<1>3. /\ v \in Seq(Seq(Char)) /\ Len(v) = Len(p) + 1 /\ Len(p) \in Nat
      /\ \A n \in 1..Len(p) : v[n] = p[n]
      /\ v[Len(p) + 1] = l
  BY <1>1, <1>2, AppendProperties, LenProperties
<1>4. v[Len(v)] = <<>>
  BY <1>3 DEF l
<1>5. push_blank(v) = v
  BY <1>4 DEF push_blank, Last
<1>6. ASSUME NEW c \in Char
      PROVE  push(v, c) = Append(p, <<c>>)
  <2> DEFINE k == <<c>>
             q == Append(p, k)
             r == [v EXCEPT ![Len(v)] = k]
  <2>1. k \in Seq(Char) /\ Append(v[Len(v)], c) = k
    <3>1. <<c>> \in Seq(Char) /\ Append(<<>>, c) = <<c>>
      OBVIOUS
    <3> QED BY <1>4, <3>1
  <2>2. push(v, c) = r
    BY <2>1 DEF push
  <2> HIDE DEF k
  <2>3. /\ r \in Seq(Seq(Char)) /\ Len(r) = Len(v)
        /\ \A n \in 1..Len(v) : r[n] = IF n = Len(v) THEN k ELSE v[n]
    <3>1. v \in Seq(Seq(Char)) /\ Len(v) \in 1..Len(v)
      BY <1>3
    <3>2. k \in Seq(Char)
      BY <2>1
    <3> QED BY ONLY <3>1, <3>2, ExceptSeq
  <2>4. /\ q \in Seq(Seq(Char)) /\ Len(q) = Len(p) + 1
        /\ \A n \in 1..Len(p) : q[n] = p[n]
        /\ q[Len(p) + 1] = k
    BY <2>1, AppendProperties
  <2> HIDE DEF q, r
  <2>5. \A n \in 1..Len(r) : r[n] = q[n]
    <3> SUFFICES ASSUME NEW n \in 1..Len(r)
                 PROVE  r[n] = q[n]
      OBVIOUS
    <3>1. r[n] = (IF n = Len(v) THEN k ELSE v[n]) /\ Len(v) = Len(p) + 1 /\ Len(r) = Len(v)
      BY <1>3, <2>3
    <3>2. n \in 1..Len(p) \/ n = Len(p) + 1
      BY <1>3, <3>1
    <3>3. CASE n \in 1..Len(p)
      <4>1. n # Len(v) /\ v[n] = p[n] /\ q[n] = p[n]
        BY <1>3, <2>4, <3>3
      <4> QED BY <3>1, <4>1
    <3>4. CASE n = Len(p) + 1
      BY <2>4, <3>1, <3>4
    <3> QED BY <3>2, <3>3, <3>4
  <2>6. r = q
    BY <1>3, <2>3, <2>4, <2>5, SeqEqual
  <2> QED BY <2>2, <2>6 DEF q, k
<1> QED BY <1>5, <1>6

\* The words of a line with one more character are those that parse_command makes
\* of the words it has.
LEMMA WordsAppend ==
  ASSUME NEW s \in Seq(Char), s # <<>>, NEW c \in Char, NEW t, t = Append(s, c)
  PROVE  Words(t) = IF c = "blank" THEN push_blank(Words(s)) ELSE push(Words(s), c)
<1> DEFINE p == Pieces(s)
           q == Pieces(t)
<1>1. /\ t \in Seq(Char) /\ Len(t) = Len(s) + 1 /\ Len(s) \in Nat
      /\ Inside(t, Len(s) + 1) <=> c # "blank"
  BY InsideAppend
<1>2. Words(s) = (IF Inside(s, Len(s)) THEN p ELSE Append(p, <<>>))
  BY WordsArePieces
<1>3. Words(t) = IF c # "blank" THEN q ELSE Append(q, <<>>)
  <2>1. t # <<>>
    BY <1>1
  <2> QED BY <1>1, <2>1, WordsArePieces
<1>4. /\ p \in Seq(Seq(Char)) /\ \A n \in 1..Len(p) : p[n] # <<>>
  BY PiecesType
<1>5. c # "blank" /\ ~Inside(s, Len(s)) => q = Append(p, <<c>>)
  BY PiecesBegin
<1>6. c = "blank" \/ Inside(s, Len(s)) =>
        /\ q \in Seq(Seq(Char)) /\ Len(q) = Len(p)
        /\ \A n \in 1..Len(p) : q[n] = IF c # "blank" /\ n = Len(p) THEN Append(p[n], c) ELSE p[n]
  BY PiecesStay
<1>7. Inside(s, Len(s)) => Len(p) >= 1
  BY LastWord, PiecesType
<1> HIDE DEF p, q
<1>8. CASE c = "blank"
  <2>1. q = p
    <3>1. /\ q \in Seq(Seq(Char)) /\ Len(q) = Len(p)
          /\ \A n \in 1..Len(p) : q[n] = p[n]
      BY <1>6, <1>8
    <3> QED BY <1>4, <3>1, SeqEqual
  <2>2. CASE Inside(s, Len(s))
    <3>1. Last(p) # <<>>
      <4>1. Len(p) \in 1..Len(p)
        BY <1>4, <1>7, <2>2
      <4> QED BY <1>4, <4>1 DEF Last
    <3> QED BY <1>2, <1>3, <1>8, <2>1, <2>2, <3>1 DEF push_blank
  <2>3. CASE ~Inside(s, Len(s))
    <3> DEFINE v == Append(p, <<>>)
    <3>1. push_blank(v) = v
      BY <1>4, Blanked
    <3> HIDE DEF v
    <3>2. Words(s) = v /\ Words(t) = v
      BY <1>2, <1>3, <1>8, <2>1, <2>3 DEF v
    <3> QED BY <1>8, <3>1, <3>2
  <2> QED BY <2>2, <2>3
<1>9. CASE c # "blank"
  <2>1. CASE Inside(s, Len(s))
    <3> DEFINE l == Append(p[Len(p)], c)
               r == [p EXCEPT ![Len(p)] = l]
    <3>1. Len(p) \in 1..Len(p) /\ p[Len(p)] \in Seq(Char)
      BY <1>4, <1>7, <2>1
    <3>2. l \in Seq(Char)
      BY <3>1, AppendProperties
    <3>3. push(p, c) = r
      BY DEF push
    <3>4. /\ q \in Seq(Seq(Char)) /\ Len(q) = Len(p)
          /\ \A n \in 1..Len(p) : q[n] = IF n = Len(p) THEN l ELSE p[n]
      BY <1>6, <1>9, <2>1
    <3> HIDE DEF l
    <3>5. /\ r \in Seq(Seq(Char)) /\ Len(r) = Len(p)
          /\ \A n \in 1..Len(p) : r[n] = IF n = Len(p) THEN l ELSE p[n]
      BY <1>4, <3>1, <3>2, ExceptSeq
    <3> HIDE DEF r
    <3>6. q = r
      BY <3>4, <3>5, SeqEqual
    <3> QED BY <1>2, <1>3, <1>9, <2>1, <3>3, <3>6
  <2>2. CASE ~Inside(s, Len(s))
    <3> DEFINE v == Append(p, <<>>)
    <3>1. push(v, c) = Append(p, <<c>>)
      BY <1>4, Blanked
    <3> HIDE DEF v
    <3>2. Words(s) = v /\ Words(t) = q
      BY <1>2, <1>3, <1>9, <2>2 DEF v
    <3> QED BY <1>5, <1>9, <2>2, <3>1, <3>2
  <2> QED BY <2>1, <2>2
<1> QED BY <1>8, <1>9

\* The first character of a line is its first word.
LEMMA WordsOne ==
  ASSUME NEW c \in Char, c # "blank"
  PROVE  Words(<<c>>) = <<<<c>>>> /\ push(<<<<>>>>, c) = <<<<c>>>>
<1> DEFINE s == <<>>
           t == <<c>>
<1>1. s \in Seq(Char) /\ t = Append(s, c) /\ t \in Seq(Char) /\ t # <<>> /\ Len(t) = 1 /\ Len(s) = 0
  OBVIOUS
<1>2. t[1] = c /\ 1 \in DOMAIN t
  OBVIOUS
<1> HIDE DEF s, t
<1>3. ~Inside(s, Len(s)) /\ Inside(t, Len(t))
  BY <1>1, <1>2 DEF Inside
<1>4. Pieces(t) = Append(Pieces(s), <<c>>)
  BY <1>1, <1>3, PiecesBegin
<1>5. Pieces(s) = <<>>
  <2>1. Starts(s) = <<>>
    BY <1>1, AscendingStep DEF Starts
  <2>2. Pieces(s) \in Seq(Seq(Char)) /\ Len(Pieces(s)) = 0
    BY <1>1, <2>1, PiecesType
  <2> QED BY <2>2
<1>6. Words(t) = Pieces(t)
  BY <1>1, <1>3, WordsArePieces
<1>7. Append(<<>>, <<c>>) = <<<<c>>>>
  OBVIOUS
<1>8. push(<<<<>>>>, c) = <<<<c>>>>
  <2> DEFINE p == <<>>
             v == Append(p, <<>>)
  <2>1. p \in Seq(Seq(Char)) /\ v = <<<<>>>>
    OBVIOUS
  <2>2. push(v, c) = Append(p, <<c>>)
    BY <2>1, Blanked
  <2> QED BY <1>7, <2>1, <2>2
<1> QED BY <1>4, <1>5, <1>6, <1>7, <1>8 DEF t

-----------------------------------------------------------------------------
(* Lines *)

\* Where the last ended line ends, and what of the line after it there is.
LastEnd(t) == IF LineEnds(t) = <<>> THEN 0 ELSE Last(LineEnds(t))
Open(t) == After(t, LastEnd(t))

LineAt(t, n) ==
  SubSeq(t, (IF n = 1 THEN 0 ELSE LineEnds(t)[n - 1]) + 1, LineEnds(t)[n] - 1)

\* Where the lines end, in order.
LEMMA LineEndsProperties ==
  ASSUME NEW t \in Seq(Char)
  PROVE  /\ LineEnds(t) \in Seq(Nat) /\ Len(LineEnds(t)) \in Nat
         /\ \A n \in 1..Len(LineEnds(t)) : LineEnds(t)[n] \in 1..Len(t)
         /\ LastEnd(t) \in 0..Len(t)
         /\ LineEnds(t) # <<>> => LastEnd(t) = LineEnds(t)[Len(LineEnds(t))]
<1> DEFINE S == {i \in DOMAIN t : t[i] = "nl"}
           a == LineEnds(t)
<1>1. Len(t) \in Nat /\ a = Ascending(S, Len(t))
  BY DEF LineEnds
<1> HIDE DEF S, a
<1>2. a \in Seq(Nat) /\ \A n \in 1..Len(a) : a[n] \in 1..Len(t)
  BY <1>1, AscendingRange
<1>3. Len(a) \in Nat /\ (a # <<>> => Len(a) \in 1..Len(a))
  BY <1>2
<1>4. LastEnd(t) = IF a = <<>> THEN 0 ELSE a[Len(a)]
  BY DEF LastEnd, Last, a
<1>5. LastEnd(t) \in 0..Len(t)
  BY <1>1, <1>2, <1>3, <1>4
<1> QED BY <1>2, <1>3, <1>4, <1>5 DEF a

\* A line end more is the last.
LEMMA LineEndsAppend ==
  ASSUME NEW t \in Seq(Char), NEW c \in Char, NEW u, u = Append(t, c)
  PROVE  LineEnds(u) = IF c = "nl" THEN Append(LineEnds(t), Len(t) + 1) ELSE LineEnds(t)
<1> DEFINE S == {i \in DOMAIN t : t[i] = "nl"}
           U == {i \in DOMAIN u : u[i] = "nl"}
<1>1. /\ u \in Seq(Char) /\ Len(u) = Len(t) + 1 /\ Len(t) \in Nat
      /\ \A k \in 1..Len(t) : u[k] = t[k]
      /\ u[Len(t) + 1] = c
  BY AppendProperties, LenProperties
<1>2. DOMAIN t = 1..Len(t) /\ DOMAIN u = 1..(Len(t) + 1)
  BY <1>1, LenProperties
<1>3. \A i \in 1..Len(t) : i \in S <=> i \in U
  BY <1>1, <1>2
<1>4. Len(t) + 1 \in U <=> c = "nl"
  BY <1>1, <1>2
<1>5. LineEnds(t) = Ascending(S, Len(t)) /\ LineEnds(u) = Ascending(U, Len(t) + 1)
  BY <1>1 DEF LineEnds
<1> HIDE DEF S, U
<1>6. Ascending(U, Len(t) + 1) = IF Len(t) + 1 \in U THEN Append(Ascending(S, Len(t)), Len(t) + 1)
                                                   ELSE Ascending(S, Len(t))
  BY <1>1, <1>3, AscendingMore
<1> QED BY <1>4, <1>5, <1>6

LEMMA LinesType ==
  ASSUME NEW t \in Seq(Char)
  PROVE  /\ Lines(t) \in Seq(Seq(Char)) /\ Len(Lines(t)) = Len(LineEnds(t))
         /\ \A n \in 1..Len(LineEnds(t)) : Lines(t)[n] = LineAt(t, n)
         /\ Open(t) \in Seq(Char)
<1> DEFINE a == LineEnds(t)
           l == Lines(t)
<1>1. Len(t) \in Nat /\ Len(a) \in Nat /\ \A n \in 1..Len(a) : a[n] \in 1..Len(t)
  BY LineEndsProperties
<1>2. l = [n \in 1..Len(a) |-> LineAt(t, n)]
  BY DEF Lines, LineAt
<1>3. \A n \in 1..Len(a) : LineAt(t, n) \in Seq(Char)
  <2> SUFFICES ASSUME NEW n \in 1..Len(a)
               PROVE  LineAt(t, n) \in Seq(Char)
    OBVIOUS
  <2> DEFINE i == (IF n = 1 THEN 0 ELSE a[n - 1]) + 1
             j == a[n] - 1
  <2>1. LineAt(t, n) = SubSeq(t, i, j)
    BY DEF LineAt
  <2>2. i \in Nat \ {0} /\ j \in Nat /\ j <= Len(t)
    <3>1. n # 1 => n - 1 \in 1..Len(a)
      BY <1>1
    <3> HIDE DEF a
    <3> QED BY <1>1, <3>1
  <2> HIDE DEF i, j
  <2>3. \A k \in i..j : t[k] \in Char
    BY <1>1, <2>2
  <2>4. SubSeq(t, i, j) \in Seq(Char)
    <3>1. i \in Int /\ j \in Int
      BY <2>2
    <3> QED BY <2>3, <3>1, SubSeqProperties
  <2> QED BY <2>1, <2>4
<1>4. Open(t) \in Seq(Char)
  BY LineEndsProperties, Cut DEF Open
<1> HIDE DEF a, l
<1>5. l \in Seq(Seq(Char)) /\ Len(l) = Len(a) /\ \A n \in 1..Len(a) : l[n] = LineAt(t, n)
  BY <1>1, <1>2, <1>3
<1> QED BY <1>4, <1>5 DEF a, l

\* A character more belongs to the open line, or ends it.
LEMMA LinesAppend ==
  ASSUME NEW t \in Seq(Char), NEW c \in Char, NEW u, u = Append(t, c)
  PROVE  /\ c # "nl" => Lines(u) = Lines(t) /\ Open(u) = Append(Open(t), c)
         /\ c = "nl" => Lines(u) = Append(Lines(t), Open(t)) /\ Open(u) = <<>>
<1> DEFINE a == LineEnds(t)
           b == LineEnds(u)
           l == Lines(t)
           k == Lines(u)
           m == Len(a)
<1>1. u \in Seq(Char) /\ Len(u) = Len(t) + 1 /\ Len(t) \in Nat
  BY AppendProperties, LenProperties
<1>2. /\ a \in Seq(Nat) /\ m \in Nat /\ \A n \in 1..m : a[n] \in 1..Len(t)
      /\ LastEnd(t) \in 0..Len(t)
      /\ a # <<>> => LastEnd(t) = a[m]
      /\ a = <<>> => LastEnd(t) = 0
  BY LineEndsProperties DEF LastEnd
<1>3. b = IF c = "nl" THEN Append(a, Len(t) + 1) ELSE a
  BY LineEndsAppend
<1>4. /\ l \in Seq(Seq(Char)) /\ Len(l) = m /\ \A n \in 1..m : l[n] = LineAt(t, n)
      /\ Open(t) \in Seq(Char)
  BY LinesType
<1>5. k \in Seq(Seq(Char)) /\ Len(k) = Len(b) /\ \A n \in 1..Len(b) : k[n] = LineAt(u, n)
  BY <1>1, LinesType
<1>6. \A n : /\ LineAt(t, n) = SubSeq(t, (IF n = 1 THEN 0 ELSE a[n - 1]) + 1, a[n] - 1)
             /\ LineAt(u, n) = SubSeq(u, (IF n = 1 THEN 0 ELSE b[n - 1]) + 1, b[n] - 1)
  BY DEF LineAt
<1>7. Open(t) = SubSeq(t, LastEnd(t) + 1, Len(t)) /\ Open(u) = SubSeq(u, LastEnd(u) + 1, Len(t) + 1)
  BY <1>1 DEF Open, After
<1>8. LastEnd(u) = IF b = <<>> THEN 0 ELSE b[Len(b)]
  BY DEF LastEnd, Last
<1>9. LastEnd(t) + 1 \in Nat \ {0} /\ LastEnd(t) + 1 <= Len(t) + 1
  BY <1>1, <1>2
<1> HIDE DEF a, b, l, k, m
<1>10. c = "nl" => Len(b) = m + 1 /\ b[m + 1] = Len(t) + 1 /\ \A n \in 1..m : b[n] = a[n]
  <2> SUFFICES ASSUME c = "nl"
               PROVE  Len(b) = m + 1 /\ b[m + 1] = Len(t) + 1 /\ \A n \in 1..m : b[n] = a[n]
    OBVIOUS
  <2>1. b = Append(a, Len(t) + 1) /\ Len(t) + 1 \in Nat
    BY <1>1, <1>3
  <2> QED BY <1>2, <2>1, AppendProperties DEF m
<1>11. \A n \in 1..m : LineAt(u, n) = LineAt(t, n)
  <2> SUFFICES ASSUME NEW n \in 1..m
               PROVE  LineAt(u, n) = LineAt(t, n)
    OBVIOUS
  <2>1. b[n] = a[n] /\ (n # 1 => b[n - 1] = a[n - 1] /\ n - 1 \in 1..m)
    <3>1. n # 1 => n - 1 \in 1..m
      BY <1>2
    <3>2. CASE c = "nl"
      BY <1>10, <3>1, <3>2
    <3>3. CASE c # "nl"
      BY <1>3, <3>1, <3>3
    <3> QED BY <3>2, <3>3
  <2> DEFINE i == (IF n = 1 THEN 0 ELSE a[n - 1]) + 1
             j == a[n] - 1
  <2>2. i \in Nat \ {0} /\ j \in Nat /\ j <= Len(t)
    BY <1>1, <1>2, <2>1
  <2>3. LineAt(t, n) = SubSeq(t, i, j) /\ LineAt(u, n) = SubSeq(u, i, j)
    BY <1>6, <2>1
  <2> HIDE DEF i, j
  <2>4. SubSeq(u, i, j) = SubSeq(t, i, j)
    BY <2>2, CutOfAppend
  <2> QED BY <2>3, <2>4
<1>12. ASSUME c # "nl"
       PROVE  k = l /\ Open(u) = Append(Open(t), c)
  <2>1. b = a
    BY <1>3, <1>12
  <2>2. k = l
    <3>1. \A n \in 1..Len(k) : k[n] = l[n]
      BY <1>4, <1>5, <1>11, <2>1 DEF m
    <3>2. Len(k) = Len(l)
      BY <1>4, <1>5, <2>1 DEF m
    <3> QED BY <1>4, <1>5, <3>1, <3>2, SeqEqual
  <2>3. LastEnd(u) = LastEnd(t)
    BY <1>2, <1>8, <2>1 DEF m
  <2>4. SubSeq(u, LastEnd(t) + 1, Len(t) + 1) = Append(SubSeq(t, LastEnd(t) + 1, Len(t)), c)
    <3> DEFINE i == LastEnd(t) + 1
    <3>1. i \in Nat \ {0} /\ i <= Len(t) + 1 /\ Len(t) <= Len(t)
      BY <1>1, <1>9
    <3> HIDE DEF i
    <3>2. SubSeq(u, i, Len(t) + 1) = Append(SubSeq(t, i, Len(t)), c)
      BY <1>1, <3>1, CutOfAppend
    <3> QED BY <3>2 DEF i
  <2> QED BY <1>7, <2>2, <2>3, <2>4
<1>13. ASSUME c = "nl"
       PROVE  k = Append(l, Open(t)) /\ Open(u) = <<>>
  <2>1. Len(b) = m + 1 /\ b[m + 1] = Len(t) + 1 /\ \A n \in 1..m : b[n] = a[n]
    BY <1>10, <1>13
  <2>2. LineAt(u, m + 1) = Open(t)
    <3> DEFINE n == m + 1
               v == IF n = 1 THEN 0 ELSE b[n - 1]
               w == b[n] - 1
    <3>1. v = LastEnd(t)
      <4>1. CASE m = 0
        <5>1. n = 1 /\ a = <<>>
          BY <1>2, <4>1 DEF m
        <5> QED BY <1>2, <5>1
      <4>2. CASE m # 0
        <5>1. m \in 1..m /\ n - 1 = m /\ n # 1 /\ a # <<>>
          BY <1>2, <4>2 DEF m
        <5> QED BY <1>2, <2>1, <5>1
      <4> QED BY <4>1, <4>2
    <3>2. w = Len(t)
      BY <1>1, <2>1
    <3>3. LineAt(u, m + 1) = SubSeq(u, LastEnd(t) + 1, Len(t))
      <4> HIDE DEF n
      <4>1. LineAt(u, n) = SubSeq(u, v + 1, w)
        BY Zenon DEF LineAt, b
      <4> HIDE DEF v, w
      <4>2. LineAt(u, n) = SubSeq(u, LastEnd(t) + 1, Len(t))
        BY <3>1, <3>2, <4>1
      <4> QED BY <4>2 DEF n
    <3>4. SubSeq(u, LastEnd(t) + 1, Len(t)) = SubSeq(t, LastEnd(t) + 1, Len(t))
      <4> DEFINE i == LastEnd(t) + 1
      <4>1. i \in Nat \ {0} /\ Len(t) <= Len(t)
        BY <1>1, <1>9
      <4> HIDE DEF i
      <4>2. SubSeq(u, i, Len(t)) = SubSeq(t, i, Len(t))
        BY <1>1, <4>1, CutOfAppend
      <4> QED BY <4>2 DEF i
    <3> QED BY <1>7, <3>3, <3>4
  <2>3. k = Append(l, Open(t))
    <3> DEFINE o == Open(t)
               r == Append(l, o)
    <3>1. o \in Seq(Char) /\ l \in Seq(Seq(Char))
      BY <1>4
    <3> HIDE DEF o
    <3>2. /\ r \in Seq(Seq(Char)) /\ Len(r) = Len(l) + 1
          /\ \A n \in 1..Len(l) : r[n] = l[n]
          /\ r[Len(l) + 1] = o
      BY <3>1, AppendProperties
    <3> HIDE DEF r
    <3>3. \A n \in 1..Len(k) : k[n] = r[n]
      <4> SUFFICES ASSUME NEW n \in 1..Len(k)
                   PROVE  k[n] = r[n]
        OBVIOUS
      <4>1. CASE n \in 1..m
        <5>1. k[n] = LineAt(u, n) /\ l[n] = LineAt(t, n) /\ r[n] = l[n]
          BY <1>4, <1>5, <3>2, <4>1
        <5> QED BY <1>11, <4>1, <5>1
      <4>2. CASE n = m + 1
        <5>1. k[n] = LineAt(u, n) /\ r[n] = o
          BY <1>4, <1>5, <3>2, <4>2
        <5> QED BY <2>2, <4>2, <5>1 DEF o
      <4>3. n \in 1..m \/ n = m + 1
        <5>1. Len(k) = m + 1 /\ m \in Nat
          BY <1>2, <1>5, <2>1
        <5> QED BY <5>1
      <4> QED BY <4>1, <4>2, <4>3
    <3>4. Len(k) = Len(r)
      BY <1>4, <1>5, <2>1, <3>2
    <3>5. k = r
      BY <1>5, <3>2, <3>3, <3>4, SeqEqual
    <3> QED BY <3>5 DEF r, o
  <2>4. LastEnd(u) = Len(t) + 1
    <3>1. b # <<>>
      BY <1>2, <2>1
    <3> QED BY <1>8, <2>1, <3>1
  <2>5. Open(u) = <<>>
    <3> DEFINE i == LastEnd(u) + 1
               j == Len(t) + 1
    <3>1. i \in Int /\ j \in Int /\ j < i
      BY <1>1, <2>4
    <3> HIDE DEF i, j
    <3>2. SubSeq(u, i, j) = <<>>
      BY <3>1, SubSeqEmpty
    <3> QED BY <1>7, <3>2 DEF i, j
  <2> QED BY <2>3, <2>5
<1> QED BY <1>12, <1>13 DEF k, l(* Commands *)

\* The open line without its carriage returns.
Plain(t) == Without(Open(t), {"cr"})

\* The commands of the lines of t, and then Ends.
SentFor(s, t) ==
  /\ Len(s) >= Len(Lines(t))
  /\ \A i \in DOMAIN s : s[i] = IF i <= Len(Lines(t)) THEN Meaning(Lines(t)[i]) ELSE End

\* Ends are sent only when the input is over.
Carried ==
  /\ SentFor(sent, taken)
  /\ peeked # <<None>> => Len(sent) = Len(Lines(taken))
  /\ peeked = <<None>> => mode = "start"

\* What the thread knows of the line it is in: its first character is peeked at
\* before it is taken, and the words are those of what is taken.
Underway ==
  /\ mode = "start" => Open(taken) = <<>>
  /\ mode # "start" /\ Open(taken) = <<>> =>
       /\ words = <<<<>>>>
       /\ \E c \in Char : peeked = <<c>> /\ (mode = "words" <=> c = "/")
  /\ mode # "start" /\ Open(taken) # <<>> =>
       /\ peeked = <<>>
       /\ mode = "words" <=> Open(taken)[1] = "/"
       /\ mode = "words" => Plain(taken) # <<>> /\ words = Words(Plain(taken))
       /\ mode = "text" => words = <<Plain(taken)>>

\* A carriage return is left out of the line, anything else is not.
LEMMA PlainAppend ==
  ASSUME NEW t \in Seq(Char), NEW c \in Char, c # "nl"
  PROVE  /\ Plain(t) \in Seq(Char)
         /\ Plain(Append(t, c)) = IF c = "cr" THEN Plain(t) ELSE Append(Plain(t), c)
         /\ Open(t) = <<>> => Plain(t) = <<>>
<1> DEFINE o == Open(t)
<1>1. o \in Seq(Char)
  BY LinesType
<1>2. Open(Append(t, c)) = Append(o, c)
  BY LinesAppend
<1>3. Plain(t) = Without(o, {"cr"}) /\ Plain(Append(t, c)) = Without(Append(o, c), {"cr"})
  BY <1>2 DEF Plain
<1> HIDE DEF o
<1>4. Without(o, {"cr"}) \in Seq(Char)
  BY <1>1, WithoutType
<1>5. Without(Append(o, c), {"cr"}) =
        IF c \in {"cr"} THEN Without(o, {"cr"}) ELSE Append(Without(o, {"cr"}), c)
  BY <1>1, WithoutAppend
<1>6. o = <<>> => Without(o, {"cr"}) = <<>>
  BY WithoutEmpty
<1> QED BY <1>3, <1>4, <1>5, <1>6 DEF o

\* A text is one word.
LEMMA PushText ==
  ASSUME NEW p \in Seq(Char), NEW c \in Char
  PROVE  push(<<p>>, c) = <<Append(p, c)>>
<1> DEFINE q == Append(p, c)
           w == <<p>>
           v == <<q>>
           r == [w EXCEPT ![Len(w)] = q]
<1>1. q \in Seq(Char)
  BY AppendProperties
<1>2. push(w, c) = r
  <2>1. Len(w) = 1 /\ w[1] = p
    OBVIOUS
  <2> QED BY <2>1 DEF push
<1> HIDE DEF q
<1>3. w \in Seq(Seq(Char)) /\ Len(w) = 1 /\ v \in Seq(Seq(Char)) /\ Len(v) = 1 /\ v[1] = q
  BY <1>1
<1> HIDE DEF w
<1>4. r \in Seq(Seq(Char)) /\ Len(r) = 1 /\ r[1] = q
  <2> DEFINE x == Seq(Char)
             z == [w EXCEPT ![1] = q]
  <2>1. r = z /\ w \in Seq(x) /\ q \in x /\ 1 \in 1..Len(w)
    BY <1>1, <1>3
  <2> HIDE DEF r, x
  <2>2. z \in Seq(x) /\ Len(z) = Len(w) /\ z[1] = q
    BY <2>1, ExceptSeq
  <2> HIDE DEF z
  <2> QED BY <1>3, <2>1, <2>2 DEF x
<1> HIDE DEF r, v
<1>5. r = v
  BY <1>3, <1>4, SeqEqual
<1> QED BY <1>2, <1>5 DEF w, v, q

\* The command of the open line is sent, and the line is over.
LEMMA SentMore ==
  ASSUME NEW s \in Seq(Commands), NEW t \in Seq(Char),
         SentFor(s, t), Len(s) = Len(Lines(t)),
         NEW command \in Commands, command = Meaning(Open(t))
  PROVE  /\ SentFor(Append(s, command), Append(t, "nl"))
         /\ Len(Append(s, command)) = Len(Lines(Append(t, "nl")))
         /\ Open(Append(t, "nl")) = <<>>
<1> DEFINE u == Append(t, "nl")
           r == Append(s, command)
           l == Lines(t)
           k == Lines(u)
           o == Open(t)
<1>1. "nl" \in Char
  BY DEF Char
<1>2. k = Append(l, o) /\ Open(u) = <<>>
  BY <1>1, LinesAppend
<1>3. l \in Seq(Seq(Char)) /\ o \in Seq(Char)
  BY LinesType
<1>4. Len(s) = Len(l) /\ \A i \in DOMAIN s : s[i] = IF i <= Len(l) THEN Meaning(l[i]) ELSE End
  BY DEF SentFor
<1>5. command = Meaning(o)
  OBVIOUS
<1> HIDE DEF l, o, u
<1>6. Len(k) = Len(l) + 1 /\ k[Len(l) + 1] = o /\ (\A i \in 1..Len(l) : k[i] = l[i]) /\ Len(l) \in Nat
  BY <1>2, <1>3, AppendProperties
<1>7. /\ Len(r) = Len(s) + 1 /\ r[Len(s) + 1] = command /\ (\A i \in 1..Len(s) : r[i] = s[i])
      /\ DOMAIN r = 1..(Len(s) + 1) /\ DOMAIN s = 1..Len(s)
  BY AppendProperties
<1> HIDE DEF k, r
<1>8. ASSUME NEW i \in DOMAIN r
      PROVE  r[i] = IF i <= Len(k) THEN Meaning(k[i]) ELSE End
  <2>1. i \in Int /\ i <= Len(k)
    BY <1>4, <1>6, <1>7
  <2>2. CASE i \in 1..Len(l)
    <3>1. i \in DOMAIN s /\ r[i] = s[i] /\ k[i] = l[i] /\ i <= Len(l)
      BY <1>4, <1>6, <1>7, <2>2
    <3> QED BY <1>4, <2>1, <3>1
  <2>3. CASE i = Len(l) + 1
    <3>1. r[i] = command /\ k[i] = o
      BY <1>4, <1>6, <1>7, <2>3
    <3> QED BY <1>5, <2>1, <3>1
  <2> QED BY <1>4, <1>6, <1>7, <2>2, <2>3
<1>9. Len(r) = Len(k)
  BY <1>4, <1>6, <1>7
<1>10. SentFor(r, u)
  <2>1. Len(r) >= Len(k)
    BY <1>6, <1>9
  <2> QED BY <1>8, <2>1 DEF SentFor, k
<1> QED BY <1>2, <1>9, <1>10 DEF k, r, u

\* A character that does not end the line ends none.
LEMMA SentSame ==
  ASSUME NEW s, NEW t \in Seq(Char), NEW c \in Char, c # "nl"
  PROVE  /\ SentFor(s, Append(t, c)) <=> SentFor(s, t)
         /\ Len(Lines(Append(t, c))) = Len(Lines(t))
<1>1. Lines(Append(t, c)) = Lines(t)
  BY LinesAppend
<1> QED BY <1>1 DEF SentFor

\* At the end of the input an End is sent.
LEMMA SentEnd ==
  ASSUME NEW s \in Seq(Commands), NEW t \in Seq(Char), SentFor(s, t)
  PROVE  SentFor(Append(s, End), t)
<1> DEFINE r == Append(s, End)
           l == Lines(t)
<1>1. Len(l) \in Nat /\ Len(s) \in Nat /\ DOMAIN s = 1..Len(s)
  BY LinesType, LineEndsProperties
<1>2. Len(s) >= Len(l) /\ \A i \in DOMAIN s : s[i] = IF i <= Len(l) THEN Meaning(l[i]) ELSE End
  BY DEF SentFor
<1>3. End \in Commands
  BY PlainTypes
<1>4. /\ Len(r) = Len(s) + 1 /\ r[Len(s) + 1] = End /\ (\A i \in 1..Len(s) : r[i] = s[i])
      /\ DOMAIN r = 1..(Len(s) + 1)
  BY <1>3, AppendProperties
<1> HIDE DEF r, l
<1>5. ASSUME NEW i \in DOMAIN r
      PROVE  r[i] = IF i <= Len(l) THEN Meaning(l[i]) ELSE End
  <2>1. CASE i \in DOMAIN s
    <3>1. r[i] = s[i]
      BY <1>1, <1>4, <2>1
    <3> QED BY <1>2, <2>1, <3>1
  <2>2. CASE i = Len(s) + 1
    <3>1. ~(i <= Len(l))
      BY <1>1, <1>2, <2>2
    <3> QED BY <1>4, <2>2, <3>1
  <2> QED BY <1>1, <1>4, <2>1, <2>2
<1>6. Len(r) >= Len(l)
  BY <1>1, <1>2, <1>4
<1> QED BY <1>5, <1>6 DEF SentFor, r, l
\* What the words of the line are parsed to is what the line means.
LEMMA MeaningOfOpen ==
  ASSUME TypeInv, Underway, mode # "start", NEW char, take(char), char \in {"nl", None}
  PROVE  /\ mode = "words" => parse_command(words) = Meaning(Open(taken))
         /\ mode = "text" => text(words[1]) = Meaning(Open(taken))
<1> DEFINE o == Open(taken)
<1>1. None \notin Char
  BY ConsoleAssumption DEF Byte
<1>2. Meaning(o) = OrNothing(IF o # <<>> /\ o[1] = "/"
                               THEN Asked(Words(Plain(taken)))
                               ELSE Command("Text", <<Plain(taken)>>))
  BY Zenon DEF Meaning, Plain
<1>5. words \in Seq(Seq(Char)) \ {<<>>}
  BY DEF TypeInv
<1>3. CASE o = <<>>
  <2>1. words = <<<<>>>> /\ \E c \in Char : peeked = <<c>> /\ (mode = "words" <=> c = "/")
    BY <1>3 DEF Underway
  <2>2. PICK c \in Char : peeked = <<c>> /\ (mode = "words" <=> c = "/")
    BY <2>1
  <2>3. peeked = <<char>>
    <3>1. peeked # <<>>
      BY <2>2
    <3> QED BY <3>1, TakeCharacter
  <2>4. char = c
    BY <2>2, <2>3
  <2>5. mode # "words"
    BY <1>1, <2>2, <2>4
  <2>6. Plain(taken) = <<>>
    <3>1. taken \in Seq(Char) /\ "/" \in Char /\ "/" # "nl"
      BY DEF TypeInv, Char
    <3> QED BY <1>3, <3>1, PlainAppend
  <2>7. words[1] = <<>>
    BY <2>1
  <2>8. text(<<>>) = OrNothing(Command("Text", <<<<>>>>))
    <3>1. <<>> \in Seq(Char)
      OBVIOUS
    <3> QED BY <3>1, TextIsMeant
  <2> QED BY <1>2, <1>3, <2>5, <2>6, <2>7, <2>8
<1>4. CASE o # <<>>
  <2>1. /\ mode = "words" <=> o[1] = "/"
        /\ mode = "words" => words = Words(Plain(taken))
        /\ mode = "text" => words = <<Plain(taken)>>
    BY <1>4 DEF Underway
  <2> HIDE DEF o
  <2>2. mode = "words" => parse_command(words) = Meaning(o)
    <3>1. parse_command(words) = OrNothing(Asked(words))
      BY <1>5, ParsedIsMeant
    <3> QED BY <1>2, <1>4, <2>1, <3>1
  <2>3. mode = "text" => text(words[1]) = Meaning(o)
    <3>1. mode = "text" => words[1] = Plain(taken)
      BY <2>1
    <3>2. words[1] \in Seq(Char)
      BY <1>5
    <3>3. text(words[1]) = OrNothing(Command("Text", <<words[1]>>))
      BY <3>2, TextIsMeant
    <3>4. mode = "text" => mode # "words"
      OBVIOUS
    <3> QED BY <1>2, <2>1, <3>1, <3>3, <3>4
  <2> QED BY <2>2, <2>3 DEF o
<1> QED BY <1>3, <1>4

\* The line that is over is carried out, and none is open.
LEMMA CarriedFinish ==
  ASSUME TypeInv, Carried, mode # "start", NEW char, take(char),
         NEW command \in Commands, command = Meaning(Open(taken)), Finish(command)
  PROVE  Carried' /\ Underway'
<1>1. sent' = Append(sent, command) /\ mode' = "start" /\ taken' = Append(taken, "nl")
  BY DEF Finish
<1>2. peeked' = <<>> /\ <<>> # <<None>>
  BY TakeCharacter
<1>3. SentFor(sent, taken) /\ Len(sent) = Len(Lines(taken))
  BY DEF Carried
<1>4. sent \in Seq(Commands) /\ taken \in Seq(Char)
  BY DEF TypeInv
<1> DEFINE r == Append(sent, command)
           u == Append(taken, "nl")
<1>5. SentFor(r, u) /\ Len(r) = Len(Lines(u)) /\ Open(u) = <<>>
  BY <1>3, <1>4, SentMore
<1>6. sent' = r /\ taken' = u
  BY <1>1
<1> HIDE DEF r, u
<1>7. SentFor(sent', taken') /\ Len(sent') = Len(Lines(taken')) /\ Open(taken') = <<>>
  BY <1>5, <1>6
<1>8. Carried'
  <2>1. SentFor(sent, taken)' /\ (Len(sent) = Len(Lines(taken)))'
    BY <1>7 DEF SentFor, Lines, LineEnds, Meaning, OrNothing, Permitted, Asked, FileName
  <2> QED BY <1>1, <1>2, <2>1 DEF Carried
<1>9. Underway'
  BY <1>1, <1>7 DEF Underway
<1> QED BY <1>8, <1>9

\* The words of the line with the character are the words with the character.
LEMMA CarriedContinue ==
  ASSUME TypeInv, Carried, Underway, mode # "start", NEW char \in Char, char # "nl", take(char),
         NEW w, Continue(char, w),
         char = "cr" => w = words,
         char = "blank" /\ mode = "words" => w = push_blank(words),
         char # "cr" /\ (char = "blank" => mode = "text") => w = push(words, char)
  PROVE  Carried' /\ Underway'
<1> DEFINE o == Open(taken)
           u == Append(taken, char)
           p == Plain(taken)
<1>1. taken' = u /\ words' = w /\ sent' = sent /\ mode' = mode
  BY DEF Continue
<1>2. peeked' = <<>> /\ <<>> # <<None>> /\ (peeked = <<char>> \/ peeked = <<>>)
  BY TakeCharacter
<1>3. mode \in {"words", "text"} /\ taken \in Seq(Char)
  BY DEF TypeInv
<1>4. Open(u) = Append(o, char) /\ o \in Seq(Char)
  BY <1>3, LinesAppend, LinesType
<1>5. /\ Open(u) # <<>>
      /\ Open(u)[1] = IF o = <<>> THEN char ELSE o[1]
  <2> HIDE DEF o, u
  <2>1. Append(o, char) # <<>> /\ Append(o, char)[1] = IF o = <<>> THEN char ELSE o[1]
    BY <1>4, AppendProperties
  <2> QED BY <1>4, <2>1
<1>6. /\ p \in Seq(Char)
      /\ Plain(u) = IF char = "cr" THEN p ELSE Append(p, char)
      /\ o = <<>> => p = <<>>
  BY <1>3, PlainAppend
<1>7. Carried'
  <2>1. SentFor(sent, taken) /\ Len(sent) = Len(Lines(taken))
    BY DEF Carried
  <2>2. SentFor(sent, u) /\ Len(sent) = Len(Lines(u))
    BY <1>3, <2>1, SentSame
  <2>3. SentFor(sent', taken') /\ Len(sent') = Len(Lines(taken'))
    BY <1>1, <2>2
  <2> QED BY <1>1, <1>2, <2>3 DEF Carried
<1>8. /\ mode = "words" <=> Open(u)[1] = "/"
      /\ mode = "words" => Plain(u) # <<>> /\ w = Words(Plain(u))
      /\ mode = "text" => w = <<Plain(u)>>
  <2>1. CASE o = <<>>
    <3>1. words = <<<<>>>> /\ \E c \in Char : peeked = <<c>> /\ (mode = "words" <=> c = "/")
      BY <2>1 DEF Underway
    <3>2. mode = "words" <=> char = "/"
      <4>1. PICK c \in Char : peeked = <<c>> /\ (mode = "words" <=> c = "/")
        BY <3>1
      <4>2. peeked = <<char>>
        BY <1>2, <4>1
      <4> QED BY <4>1, <4>2
    <3>3. p = <<>> /\ Append(<<>>, char) = <<char>> /\ <<>> \in Seq(Char) /\ <<char>> # <<>>
      BY <1>6, <2>1
    <3> HIDE DEF o, u, p
    <3>4. ASSUME char = "/"
          PROVE  Plain(u) # <<>> /\ w = Words(Plain(u))
      <4>1. w = push(<<<<>>>>, char) /\ Plain(u) = <<char>>
        BY <1>6, <3>1, <3>3, <3>4
      <4>2. Words(<<char>>) = <<<<char>>>> /\ push(<<<<>>>>, char) = <<<<char>>>>
        BY <3>4, WordsOne
      <4> QED BY <3>3, <4>1, <4>2
    <3>5. ASSUME mode = "text"
          PROVE  w = <<Plain(u)>>
      <4>1. CASE char = "cr"
        BY <1>6, <3>1, <3>3, <4>1
      <4>2. CASE char # "cr"
        <5>1. w = push(<<<<>>>>, char) /\ Plain(u) = Append(<<>>, char)
          BY <1>6, <3>1, <3>3, <3>5, <4>2
        <5>2. push(<<<<>>>>, char) = <<Append(<<>>, char)>>
          BY <3>3, PushText
        <5> QED BY <5>1, <5>2
      <4> QED BY <4>1, <4>2
    <3> QED BY <1>3, <1>5, <2>1, <3>2, <3>4, <3>5
  <2>2. CASE o # <<>>
    <3>1. /\ mode = "words" <=> o[1] = "/"
          /\ mode = "words" => p # <<>> /\ words = Words(p)
          /\ mode = "text" => words = <<p>>
      BY <2>2 DEF Underway
    <3> HIDE DEF o, u, p
    <3>2. CASE char = "cr"
      BY <1>3, <1>5, <1>6, <2>2, <3>1, <3>2
    <3>3. CASE char # "cr"
      <4>1. Plain(u) = Append(p, char) /\ Append(p, char) # <<>>
        <5>1. Append(p, char) # <<>>
          BY <1>6, AppendProperties
        <5> QED BY <1>6, <3>3, <5>1
      <4>2. ASSUME mode = "words"
            PROVE  w = Words(Plain(u))
        <5>1. Words(Append(p, char)) = IF char = "blank" THEN push_blank(Words(p)) ELSE push(Words(p), char)
          BY <1>6, <3>1, <4>2, WordsAppend
        <5>2. w = IF char = "blank" THEN push_blank(words) ELSE push(words, char)
          BY <3>3, <4>2
        <5> QED BY <3>1, <4>1, <4>2, <5>1, <5>2
      <4>3. ASSUME mode = "text"
            PROVE  w = <<Plain(u)>>
        <5>1. w = push(<<p>>, char)
          BY <3>1, <3>3, <4>3
        <5>2. push(<<p>>, char) = <<Append(p, char)>>
          BY <1>6, PushText
        <5> QED BY <4>1, <5>1, <5>2
      <4> QED BY <1>3, <1>5, <2>2, <3>1, <4>1, <4>2, <4>3
    <3> QED BY <3>2, <3>3
  <2> QED BY <2>1, <2>2
<1> HIDE DEF u
<1>9. Underway'
  BY <1>1, <1>2, <1>3, <1>5, <1>8 DEF Underway
<1> QED BY <1>7, <1>9
LEMMA CarriedInit ==
  ASSUME Init
  PROVE  Carried /\ Underway
<1>1. sent = <<>> /\ taken = <<>> /\ peeked = <<>> /\ mode = "start" /\ <<>> # <<None>>
  BY DEF Init
<1> DEFINE t == <<>>
<1>2. t \in Seq(Char) /\ Len(t) = 0
  OBVIOUS
<1> HIDE DEF t
<1>3. LineEnds(t) = <<>>
  BY <1>2, AscendingStep DEF LineEnds
<1>4. Lines(t) \in Seq(Seq(Char)) /\ Len(Lines(t)) = 0
  <2>1. Len(LineEnds(t)) = 0
    BY <1>3
  <2> QED BY <1>2, <2>1, LinesType
<1>5. Open(t) = <<>>
  <2>1. LastEnd(t) = 0
    BY <1>3 DEF LastEnd
  <2>2. Open(t) = SubSeq(t, 1, 0)
    BY <1>2, <2>1 DEF Open, After
  <2> QED BY <2>2
<1>6. taken = t
  BY <1>1 DEF t
<1>7. SentFor(sent, taken) /\ Len(sent) = Len(Lines(taken))
  BY <1>1, <1>4, <1>6 DEF SentFor
<1> QED BY <1>1, <1>5, <1>6, <1>7 DEF Carried, Underway

LEMMA CarriedPeek ==
  ASSUME TypeInv, Carried, Underway, peek
  PROVE  Carried' /\ Underway'
<1>1. /\ mode = "start" /\ peeked = <<>> /\ <<>> # <<None>>
      /\ mode' = mode /\ words' = words /\ sent' = sent /\ taken' = taken
  BY DEF peek
<1>2. SentFor(sent', taken') /\ Len(sent') = Len(Lines(taken')) /\ Open(taken') = <<>>
  BY <1>1 DEF Carried, Underway
<1> QED BY <1>1, <1>2 DEF Carried, Underway

LEMMA CarriedParse ==
  ASSUME TypeInv, Carried, Underway, parse
  PROVE  Carried' /\ Underway'
<1>1. /\ mode = "start" /\ peeked # <<>> /\ peeked' = peeked
      /\ taken' = taken /\ words' = <<<<>>>>
  BY DEF parse, parse_end, parse_begin
<1>2. SentFor(sent, taken) /\ Open(taken') = <<>>
  BY <1>1 DEF Carried, Underway
<1>3. sent \in Seq(Commands) /\ taken \in Seq(Char)
  BY DEF TypeInv
<1>4. CASE peeked = <<None>>
  <2>1. sent' = Append(sent, End) /\ mode' = "start"
    BY <1>1, <1>4 DEF parse, parse_end
  <2>2. SentFor(Append(sent, End), taken)
    BY <1>2, <1>3, SentEnd
  <2>3. SentFor(sent', taken')
    BY <1>1, <2>1, <2>2
  <2> QED BY <1>1, <1>2, <1>4, <2>1, <2>3 DEF Carried, Underway
<1>5. CASE peeked # <<None>>
  <2>1. PICK c \in Char : peeked = <<c>>
    BY <1>1, <1>5 DEF TypeInv
  <2>2. sent' = sent /\ mode' = IF c = "/" THEN "words" ELSE "text"
    BY <1>5, <2>1 DEF parse, parse_begin
  <2>3. Len(sent) = Len(Lines(taken))
    BY <1>5 DEF Carried
  <2>4. SentFor(sent', taken') /\ Len(sent') = Len(Lines(taken'))
    BY <1>1, <1>2, <2>2, <2>3
  <2>5. Carried'
    BY <1>1, <1>5, <2>4 DEF Carried
  <2>6. mode' # "start" /\ (mode' = "words" <=> c = "/") /\ peeked' = <<c>>
    BY <1>1, <2>1, <2>2
  <2>7. Underway'
    BY <1>1, <1>2, <2>6 DEF Underway
  <2> QED BY <2>5, <2>7
<1> QED BY <1>4, <1>5

LEMMA CarriedWords ==
  ASSUME TypeInv, Carried, Underway, parse_words
  PROVE  Carried' /\ Underway'
<1>1. PICK char \in Char \union {None} :
        /\ take(char)
        /\ \/ char \in {"nl", None} /\ Finish(parse_command(words))
           \/ char = "cr" /\ Continue(char, words)
           \/ char = "blank" /\ Continue(char, push_blank(words))
           \/ char \notin {"nl", None, "cr", "blank"} /\ Continue(char, push(words, char))
  BY DEF parse_words
<1>2. mode = "words" /\ mode # "start"
  BY DEF parse_words
<1>3. words \in Seq(Seq(Char))
  BY DEF TypeInv
<1>4. {"cr", "blank"} \subseteq Char
  BY DEF Char
<1>5. CASE char \in {"nl", None} /\ Finish(parse_command(words))
  <2> DEFINE command == parse_command(words)
  <2>1. command = Meaning(Open(taken))
    BY <1>1, <1>2, <1>5, MeaningOfOpen
  <2>2. command \in Commands /\ Finish(command)
    BY <1>3, <1>5, ParsedType
  <2> HIDE DEF command
  <2> QED BY <1>1, <1>2, <2>1, <2>2, CarriedFinish
<1>6. CASE char = "cr" /\ Continue(char, words)
  <2>1. char \in Char /\ char # "nl"
    BY <1>4, <1>6
  <2> QED BY <1>1, <1>2, <1>6, <2>1, CarriedContinue
<1>7. CASE char = "blank" /\ Continue(char, push_blank(words))
  <2>1. char \in Char /\ char # "nl"
    BY <1>4, <1>7
  <2> QED BY <1>1, <1>2, <1>7, <2>1, CarriedContinue
<1>8. CASE char \notin {"nl", None, "cr", "blank"} /\ Continue(char, push(words, char))
  <2>1. char \in Char /\ char # "nl"
    BY <1>8
  <2> QED BY <1>1, <1>2, <1>8, <2>1, CarriedContinue
<1> QED BY <1>1, <1>5, <1>6, <1>7, <1>8

LEMMA CarriedText ==
  ASSUME TypeInv, Carried, Underway, parse_text
  PROVE  Carried' /\ Underway'
<1>1. PICK char \in Char \union {None} :
        /\ take(char)
        /\ \/ char \in {"nl", None} /\ Finish(text(words[1]))
           \/ char = "cr" /\ Continue(char, words)
           \/ char \notin {"nl", None, "cr"} /\ Continue(char, push(words, char))
  BY DEF parse_text
<1>2. mode = "text" /\ mode # "start"
  BY DEF parse_text
<1>3. words[1] \in Seq(Char)
  BY DEF TypeInv
<1>4. "cr" \in Char
  BY DEF Char
<1>5. CASE char \in {"nl", None} /\ Finish(text(words[1]))
  <2> DEFINE command == text(words[1])
  <2>1. command = Meaning(Open(taken))
    BY <1>1, <1>2, <1>5, MeaningOfOpen
  <2>2. command \in Commands /\ Finish(command)
    BY <1>3, <1>5, PlainTypes
  <2> HIDE DEF command
  <2> QED BY <1>1, <1>2, <2>1, <2>2, CarriedFinish
<1>6. CASE char = "cr" /\ Continue(char, words)
  <2>1. char \in Char /\ char # "nl"
    BY <1>4, <1>6
  <2> QED BY <1>1, <1>2, <1>6, <2>1, CarriedContinue
<1>7. CASE char \notin {"nl", None, "cr"} /\ Continue(char, push(words, char))
  <2>1. char \in Char /\ char # "nl"
    BY <1>7
  <2> QED BY <1>1, <1>2, <1>7, <2>1, CarriedContinue
<1> QED BY <1>1, <1>5, <1>6, <1>7

\* Every step keeps the commands those of the lines, and the words those of the open line.
LEMMA CarriedStep ==
  ASSUME TypeInv, Carried, Underway, [Next]_vars
  PROVE  Carried' /\ Underway'
<1>1. CASE handle_user_command \/ UNCHANGED vars
  <2>1. peeked' = peeked /\ mode' = mode /\ words' = words /\ sent' = sent /\ taken' = taken
    BY <1>1 DEF handle_user_command, vars, reading
  <2> QED BY <2>1 DEF Carried, Underway
<1> QED BY <1>1, CarriedPeek, CarriedParse, CarriedWords, CarriedText DEF Next, Thread

\* Between lines, the commands sent are what the lines parsed mean, and then only
\* Ends, whatever is typed and however it comes (parse, parse_command, parse_text).
THEOREM CommandsFollowLines == Spec => []CommandsAreOfLines
<1>1. Init => Carried /\ Underway
  BY CarriedInit
<1>2. TypeInv /\ (Carried /\ Underway) /\ [Next]_vars => (Carried /\ Underway)'
  BY CarriedStep
<1>3. Carried /\ Underway => CommandsAreOfLines
  BY DEF Carried, SentFor, CommandsAreOfLines
<1> QED BY <1>1, <1>2, <1>3, TypeInvAlways, PTL DEF Spec
===============================================================================
