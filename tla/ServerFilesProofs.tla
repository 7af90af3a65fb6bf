--------------------------- MODULE ServerFilesProofs ---------------------------
(***************************************************************************)
(* What the directory of the server holds, for any number of connections,   *)
(* files, lengths and lengths of a chunk.                                   *)
(***************************************************************************)
EXTENDS ServerFiles, SequenceTheorems, FiniteSetTheorems, TLAPS

-----------------------------------------------------------------------------
(* Pieces of a file *)

\* The first w pieces of what u uploads; d of them from position w on.
Begun(u, w) == [k \in 1..w |-> [of |-> u, nth |-> k]]
Slice(u, w, d) == [k \in 1..d |-> [of |-> u, nth |-> w + k]]

\* How many pieces a chunk at position w of m has.
Next_length(w, m) == IF w + CHUNK_SIZE <= m THEN CHUNK_SIZE ELSE m - w

\* A whole number of chunks; that, or the whole file.
Chunked(w) == \E k \in Nat : w = k * CHUNK_SIZE
Rounded(w, m) == w = m \/ Chunked(w)

LEMMA ChunkedZero == Chunked(0)
BY FilesAssumption DEF Chunked

LEMMA ChunkedNext == ASSUME NEW w \in Nat, Chunked(w) PROVE Chunked(w + CHUNK_SIZE)
<1>1. PICK k \in Nat : w = k * CHUNK_SIZE
  BY DEF Chunked
<1>2. (k + 1) * CHUNK_SIZE = k * CHUNK_SIZE + CHUNK_SIZE
  BY FilesAssumption
<1> QED BY <1>1, <1>2 DEF Chunked

LEMMA ChunkedGap ==
  ASSUME NEW v \in Nat, NEW w \in Nat, Chunked(v), Chunked(w), v < w
  PROVE  v + CHUNK_SIZE <= w
<1>1. PICK j \in Nat : v = j * CHUNK_SIZE
  BY DEF Chunked
<1>2. PICK k \in Nat : w = k * CHUNK_SIZE
  BY DEF Chunked
<1>3. CHUNK_SIZE \in Nat
  BY FilesAssumption
<1>4. CASE k <= j
  <2>1. (j - k) * CHUNK_SIZE >= 0 /\ (j - k) * CHUNK_SIZE = j * CHUNK_SIZE - k * CHUNK_SIZE
    BY <1>3, <1>4
  <2> QED BY <1>1, <1>2, <1>3, <2>1
<1>5. CASE j + 1 <= k
  <2>1. /\ (k - (j + 1)) * CHUNK_SIZE >= 0
        /\ (k - (j + 1)) * CHUNK_SIZE = k * CHUNK_SIZE - (j + 1) * CHUNK_SIZE
        /\ (j + 1) * CHUNK_SIZE = j * CHUNK_SIZE + CHUNK_SIZE
    BY <1>3, <1>5
  <2> QED BY <1>1, <1>2, <1>3, <2>1
<1> QED BY <1>4, <1>5

\* A function on 1..n is a sequence of length n.
LEMMA FunctionIsSeq ==
  ASSUME NEW S, NEW n \in Nat, NEW f \in [1..n -> S]
  PROVE  f \in Seq(S) /\ Len(f) = n
<1>1. f \in Seq(S)
  BY SeqDef
<1>2. DOMAIN f = 1..Len(f) /\ DOMAIN f = 1..n /\ Len(f) \in Nat
  BY <1>1, LenProperties
<1> QED BY <1>1, <1>2

LEMMA BegunFacts ==
  ASSUME NEW u \in Uploaders, NEW w \in Nat
  PROVE  /\ Begun(u, w) \in Seq(Piece) /\ Len(Begun(u, w)) = w
         /\ \A k \in 1..w : Begun(u, w)[k] = [of |-> u, nth |-> k]
<1>1. Begun(u, w) \in [1..w -> Piece]
  BY DEF Begun, Piece
<1> QED BY <1>1, FunctionIsSeq DEF Begun

LEMMA SliceFacts ==
  ASSUME NEW u \in Uploaders, NEW w \in Nat, NEW d \in Nat
  PROVE  /\ Slice(u, w, d) \in Seq(Piece) /\ Len(Slice(u, w, d)) = d
         /\ \A k \in 1..d : Slice(u, w, d)[k] = [of |-> u, nth |-> w + k]
<1>1. Slice(u, w, d) \in [1..d -> Piece]
  BY DEF Slice, Piece
<1> QED BY <1>1, FunctionIsSeq DEF Slice

LEMMA NextLength ==
  ASSUME NEW w \in Nat, NEW m \in Nat, w <= m
  PROVE  /\ Next_length(w, m) \in Nat
         /\ w + Next_length(w, m) <= m
         /\ w < m => Next_length(w, m) > 0
         /\ Rounded(w, m) => Rounded(w + Next_length(w, m), m)
<1>1. CHUNK_SIZE \in Nat \ {0}
  BY FilesAssumption
<1>2. CASE w + CHUNK_SIZE <= m
  BY <1>1, <1>2, ChunkedNext DEF Next_length, Rounded
<1>3. CASE ~(w + CHUNK_SIZE <= m)
  BY <1>1, <1>3 DEF Next_length, Rounded
<1> QED BY <1>2, <1>3

\* A read that does not go beyond the end.
LEMMA ReadOf ==
  ASSUME NEW u \in Uploaders, NEW m \in Nat, NEW w \in Nat, w <= m
  PROVE  read(Begun(u, m), w) = Slice(u, w, Next_length(w, m))
<1> DEFINE c == Begun(u, m)
<1>1. Len(c) = m /\ \A k \in 1..m : c[k] = [of |-> u, nth |-> k]
  BY BegunFacts
<1>2. CHUNK_SIZE \in Nat \ {0}
  BY FilesAssumption
<1> DEFINE d == Next_length(w, m)
<1>3. d \in Nat /\ w + d <= m
  BY NextLength
<1> HIDE DEF c
<1>4. read(c, w) = [k \in 1..d |-> c[w + k]]
  BY <1>1, <1>2 DEF read, Next_length
<1>5. \A k \in 1..d : c[w + k] = [of |-> u, nth |-> w + k]
  BY <1>1, <1>3
<1> HIDE DEF d
<1>6. [k \in 1..d |-> c[w + k]] = Slice(u, w, d)
  BY <1>5 DEF Slice
<1> QED BY <1>4, <1>6 DEF c, d

\* A write at the end of what was written before.
LEMMA WriteOf ==
  ASSUME NEW u \in Uploaders, NEW w \in Nat, NEW d \in Nat
  PROVE  write(Begun(u, w), w, Slice(u, w, d)) = Begun(u, w + d)
<1> DEFINE c == Begun(u, w)
           x == Slice(u, w, d)
<1>1. Len(c) = w /\ \A k \in 1..w : c[k] = [of |-> u, nth |-> k]
  BY BegunFacts
<1>2. Len(x) = d /\ \A k \in 1..d : x[k] = [of |-> u, nth |-> w + k]
  BY SliceFacts
<1> HIDE DEF c, x
<1>3. write(c, w, x) =
        [k \in 1..(w + d) |-> CASE w < k /\ k <= w + d -> x[k - w]
                                [] k <= w /\ k > w -> Hole
                                [] OTHER -> c[k]]
  <2>1. (IF w + d > w THEN w + d ELSE w) = w + d
    OBVIOUS
  <2> QED BY <1>1, <1>2, <2>1 DEF write
<1>4. \A k \in 1..(w + d) :
        (CASE w < k /\ k <= w + d -> x[k - w]
           [] k <= w /\ k > w -> Hole
           [] OTHER -> c[k]) = [of |-> u, nth |-> k]
  <2> SUFFICES ASSUME NEW k \in 1..(w + d)
               PROVE  (CASE w < k /\ k <= w + d -> x[k - w]
                         [] k <= w /\ k > w -> Hole
                         [] OTHER -> c[k]) = [of |-> u, nth |-> k]
    OBVIOUS
  <2>1. CASE w < k
    <3>1. k - w \in 1..d /\ w + (k - w) = k
      BY <2>1
    <3>2. x[k - w] = [of |-> u, nth |-> k]
      BY <1>2, <3>1
    <3> QED BY <2>1, <3>2
  <2>2. CASE k <= w
    <3>1. c[k] = [of |-> u, nth |-> k]
      BY <1>1, <2>2
    <3> QED BY <2>2, <3>1
  <2> QED BY <2>1, <2>2
<1> QED BY <1>3, <1>4 DEF Begun, c, x

\* What arrives goes behind what arrived before.
LEMMA AppendOf ==
  ASSUME NEW u \in Uploaders, NEW w \in Nat, NEW d \in Nat
  PROVE  Begun(u, w) \o Slice(u, w, d) = Begun(u, w + d)
<1> DEFINE c == Begun(u, w)
           x == Slice(u, w, d)
           y == Begun(u, w + d)
<1>1. c \in Seq(Piece) /\ Len(c) = w /\ \A k \in 1..w : c[k] = [of |-> u, nth |-> k]
  BY BegunFacts
<1>2. x \in Seq(Piece) /\ Len(x) = d
      /\ \A k \in 1..d : x[k] = [of |-> u, nth |-> w + k]
  BY SliceFacts
<1>3. y \in Seq(Piece) /\ Len(y) = w + d
      /\ \A k \in 1..(w + d) : y[k] = [of |-> u, nth |-> k]
  BY BegunFacts
<1> HIDE DEF c, x, y
<1>4. /\ c \o x \in Seq(Piece)
      /\ Len(c \o x) = w + d
      /\ \A i \in 1..(w + d) : (c \o x)[i] = IF i <= w THEN c[i] ELSE x[i - w]
  BY <1>1, <1>2, ConcatProperties
<1>5. \A i \in 1..(w + d) : (c \o x)[i] = y[i]
  <2> SUFFICES ASSUME NEW i \in 1..(w + d) PROVE (c \o x)[i] = y[i]
    OBVIOUS
  <2>1. CASE i <= w
    BY <1>1, <1>3, <1>4, <2>1
  <2>2. CASE w < i
    <3>1. i - w \in 1..d /\ w + (i - w) = i
      BY <2>2
    <3>2. x[i - w] = [of |-> u, nth |-> i]
      BY <1>2, <3>1
    <3> QED BY <1>3, <1>4, <2>2, <3>2
  <2>3. i <= w \/ w < i
    OBVIOUS
  <2> QED BY <2>1, <2>2, <2>3, Zenon
<1>6. Len(c \o x) = Len(y) /\ \A i \in 1..Len(c \o x) : (c \o x)[i] = y[i]
  BY <1>3, <1>4, <1>5
<1>7. c \o x = y
  BY <1>3, <1>4, <1>6, SeqEqual
<1> QED BY <1>7 DEF c, x, y

LEMMA PrefixOf ==
  ASSUME NEW u \in Uploaders, NEW v \in Nat, NEW w \in Nat, v <= w
  PROVE  IsPrefix(Begun(u, v), Begun(u, w))
<1> DEFINE c == Begun(u, v)
           y == Begun(u, w)
<1>1. c \in Seq(Piece) /\ Len(c) = v /\ \A k \in 1..v : c[k] = [of |-> u, nth |-> k]
  BY BegunFacts
<1>2. y \in Seq(Piece) /\ Len(y) = w /\ \A k \in 1..w : y[k] = [of |-> u, nth |-> k]
  BY BegunFacts
<1> HIDE DEF c, y
<1>3. SubSeq(c, 1, v) = c
  BY <1>1, SubSeqFull
<1>4. /\ SubSeq(y, 1, v) \in Seq(Piece)
      /\ Len(SubSeq(y, 1, v)) = v
      /\ \A i \in 1..v : SubSeq(y, 1, v)[i] = y[i]
  BY <1>2
<1>5. SubSeq(y, 1, v) = c
  BY <1>1, <1>2, <1>4, SeqEqual
<1> QED BY <1>1, <1>2, <1>3, <1>5 DEF IsPrefix, c, y

\* Whatever is stored and written, files are sequences of pieces.
LEMMA ReadType ==
  ASSUME NEW c \in Seq(Piece), NEW w \in Nat
  PROVE  read(c, w) \in Seq(Piece)
<1> DEFINE n == IF w + CHUNK_SIZE <= Len(c) THEN CHUNK_SIZE
                ELSE IF w <= Len(c) THEN Len(c) - w ELSE 0
<1>1. n \in Nat /\ (n > 0 => w + n <= Len(c))
  BY FilesAssumption
<1>2. read(c, w) = [k \in 1..n |-> c[w + k]]
  BY DEF read
<1> HIDE DEF n
<1>3. \A k \in 1..n : c[w + k] \in Piece
  BY <1>1
<1>4. [k \in 1..n |-> c[w + k]] \in [1..n -> Piece]
  BY <1>3
<1> QED BY <1>1, <1>2, <1>4, FunctionIsSeq

LEMMA WriteType ==
  ASSUME NEW c \in Seq(Piece), NEW w \in Nat, NEW x \in Seq(Piece)
  PROVE  write(c, w, x) \in Seq(Piece)
<1> DEFINE end == w + Len(x)
           n == IF end > Len(c) THEN end ELSE Len(c)
           at(k) == CASE w < k /\ k <= end -> x[k - w]
                      [] k <= w /\ k > Len(c) -> Hole
                      [] OTHER -> c[k]
<1>1. n \in Nat
  OBVIOUS
<1>2. \A k \in 1..n : at(k) \in Piece
  <2> SUFFICES ASSUME NEW k \in 1..n PROVE at(k) \in Piece
    OBVIOUS
  <2>1. CASE w < k /\ k <= end
    <3>1. k - w \in 1..Len(x)
      BY <2>1
    <3> QED BY <2>1, <3>1
  <2>2. CASE ~(w < k /\ k <= end) /\ k > Len(c)
    <3>1. k <= w /\ Hole \in Piece
      BY <2>2 DEF Piece
    <3> QED BY <2>2, <3>1
  <2>3. CASE ~(w < k /\ k <= end) /\ k <= Len(c)
    BY <2>3
  <2> QED BY <2>1, <2>2, <2>3
<1>3. write(c, w, x) = [k \in 1..n |-> at(k)]
  BY DEF write
<1> HIDE DEF n, at
<1>4. [k \in 1..n |-> at(k)] \in [1..n -> Piece]
  BY <1>2
<1> QED BY <1>1, <1>3, <1>4, FunctionIsSeq

LEMMA TakenType ==
  ASSUME NEW s \in Sharer, NEW x \in Seq(Piece), s.written <= s.size
  PROVE  /\ taken(s, x) \in Seq(Piece)
         /\ Len(taken(s, x)) \in Nat
         /\ s.written + Len(taken(s, x)) <= s.size
         /\ Len(x) <= s.size - s.written => taken(s, x) = x
<1>1. s.size \in Nat /\ s.written \in Nat /\ rest(s) = s.size - s.written
  BY DEF Sharer, rest
<1>2. CASE Len(x) <= rest(s)
  <2>1. taken(s, x) = x
    BY <1>2, SubSeqFull DEF taken
  <2> QED BY <1>1, <1>2, <2>1
<1>3. CASE ~(Len(x) <= rest(s))
  <2>1. taken(s, x) = SubSeq(x, 1, rest(s))
    BY <1>3 DEF taken
  <2>2. SubSeq(x, 1, rest(s)) \in Seq(Piece) /\ Len(SubSeq(x, 1, rest(s))) = rest(s)
    BY <1>1, <1>3
  <2> QED BY <1>1, <1>3, <2>1, <2>2
<1> QED BY <1>2, <1>3

-----------------------------------------------------------------------------
(* The inductive invariant *)

\* A name that was granted to one upload at most.
Sole(n) == \A c, d \in accepted[n] : c = d

LEMMA OnceIsSole ==
  ASSUME NEW S, IsFiniteSet(S)
  PROVE  Cardinality(S) <= 1 <=> \A c, d \in S : c = d
<1>1. ASSUME Cardinality(S) <= 1, NEW c \in S, NEW d \in S PROVE c = d
  <2>1. {c} \in SUBSET S /\ Cardinality({c}) = 1
    BY FS_Singleton
  <2>2. Cardinality({c}) <= Cardinality(S) /\ (Cardinality(S) = Cardinality({c}) => S = {c})
    BY <2>1, FS_Subset, Zenon
  <2>3. Cardinality(S) \in Nat
    BY FS_CardinalityType
  <2>4. Cardinality(S) = Cardinality({c})
    BY <1>1, <2>1, <2>2, <2>3
  <2> QED BY <2>2, <2>4
<1>2. ASSUME \A c, d \in S : c = d PROVE Cardinality(S) <= 1
  <2>1. CASE S = {}
    BY <2>1, FS_EmptySet
  <2>2. CASE S # {}
    <3>1. PICK c \in S : TRUE
      BY <2>2
    <3>2. S = {c}
      BY <1>2, <3>1
    <3> QED BY <3>2, FS_Singleton
  <2> QED BY <2>1, <2>2
<1> QED BY <1>1, <1>2

\* An upload that was let in is for its client's whole file, and a part of it
\* has come.
Upload(u) ==
  phase[u] \in {"checked", "open", "done"} =>
    /\ sharer[u] \in Sharer
    /\ sharer[u].size = Size[u]
    /\ sharer[u].written <= Size[u]
    /\ phase[u] = "checked" => sharer[u].written = 0
    /\ phase[u] = "done" => sharer[u].written = Size[u]
    /\ phase[u] # "checked" => u \in accepted[sharer[u].name]

\* A file is there when an upload created it; it is announced when one of its
\* uploads is over.
Granted(n) ==
  /\ IsFiniteSet(accepted[n])
  /\ files[n] = None <=> accepted[n] = {}
  /\ \A u \in accepted[n] : phase[u] \in {"open", "done"} /\ sharer[u].name = n
  /\ n \in announced => \E u \in accepted[n] : phase[u] = "done"

\* What is stored is what has come, in whole chunks.
Stored(n) ==
  Sole(n) => \A u \in accepted[n] :
    /\ files[n] = Begun(u, sharer[u].written)
    /\ Rounded(sharer[u].written, Size[u])

\* A download was promised what was stored then, whole chunks or the file, and has
\* delivered the beginning of it in whole chunks, or all of it.
Delivered(d, u) ==
  /\ sharer[d].size <= sharer[u].written
  /\ Rounded(sharer[d].size, Size[u])
  /\ sharer[d].written <= sharer[d].size
  /\ Rounded(sharer[d].written, sharer[d].size)
  /\ got[d] = Begun(u, sharer[d].written)
  /\ d \in late => sharer[d].size = Size[u]
  /\ phase[d] = "done" => sharer[d].written = sharer[d].size

Download(d) ==
  /\ phase[d] = "idle" => sharer[d] = None
  /\ sharer[d] = None => phase[d] \in {"idle", "refused"} /\ got[d] = <<>> /\ d \notin late
  /\ sharer[d] # None =>
       /\ files[sharer[d].name] # None
       /\ Sole(sharer[d].name) => \A u \in accepted[sharer[d].name] : Delivered(d, u)

IInv ==
  /\ TypeOK
  /\ \A u \in Uploaders : Upload(u)
  /\ \A n \in Names : Granted(n) /\ Stored(n)
  /\ \A d \in Downloaders : Download(d)

LEMMA InitIInv == Init => IInv
<1> SUFFICES ASSUME Init PROVE IInv
  OBVIOUS
<1> USE DEF Init
<1>1. TypeOK
  BY DEF TypeOK, Phases, Conns
<1>2. \A u \in Uploaders : Upload(u)
  BY DEF Upload, Conns
<1>3. ASSUME NEW n \in Names PROVE Granted(n) /\ Stored(n)
  BY FS_EmptySet DEF Granted, Stored
<1>4. \A d \in Downloaders : Download(d)
  BY DEF Download, Conns
<1> QED BY <1>1, <1>2, <1>3, <1>4 DEF IInv

\* What the steps of downloads leave alone: the directory and the uploads.
SameStore ==
  /\ UNCHANGED <<files, accepted, announced>>
  /\ \A u \in Uploaders : phase'[u] = phase[u] /\ sharer'[u] = sharer[u]

SameDownload(d) ==
  /\ phase'[d] = phase[d] /\ sharer'[d] = sharer[d] /\ got'[d] = got[d]
  /\ d \in late' <=> d \in late

LEMMA KeepStore ==
  ASSUME IInv, SameStore
  PROVE  /\ \A u \in Uploaders : Upload(u)'
         /\ \A n \in Names : (Granted(n) /\ Stored(n))'
<1>1. \A u \in Uploaders : Upload(u)'
  BY DEF IInv, SameStore, Upload
<1>2. ASSUME NEW n \in Names PROVE (Granted(n) /\ Stored(n))'
  <2>1. accepted[n] \subseteq Uploaders /\ Granted(n) /\ Stored(n)
    BY DEF IInv, TypeOK
  <2> QED BY <2>1 DEF SameStore, Granted, Stored, Sole
<1> QED BY <1>1, <1>2

LEMMA KeepDownload ==
  ASSUME IInv, SameStore, NEW d \in Downloaders, SameDownload(d)
  PROVE  Download(d)'
<1>1. Download(d) /\ (sharer[d] # None => accepted[sharer[d].name] \subseteq Uploaders)
  BY DEF IInv, TypeOK, Conns, Sharer
<1> QED BY <1>1 DEF SameStore, SameDownload, Download, Delivered, Sole

-----------------------------------------------------------------------------
(* Steps of downloads *)

\* An agreement, a refusal, the end of a file that was sent.
LEMMA PhaseStep ==
  ASSUME IInv, NEW d \in Downloaders, NEW p \in {"sending", "refused", "done"},
         phase[d] \in {"open", "sending"},
         p = "done" => sharer[d].written = sharer[d].size,
         phase' = [phase EXCEPT ![d] = p],
         UNCHANGED <<files, sharer, got, accepted, announced, late, gone>>
  PROVE  IInv'
<1>1. TypeOK /\ Download(d) /\ d \in Conns /\ d \notin Uploaders
  BY FilesAssumption DEF IInv, Conns
<1>2. TypeOK'
  BY <1>1, FilesAssumption DEF TypeOK, Phases, Conns
<1>3. SameStore /\ \A e \in Downloaders : e # d => SameDownload(e)
  BY <1>1 DEF TypeOK, SameStore, SameDownload, Conns
<1>4. Download(d)'
  <2>1. phase'[d] = p /\ sharer[d] # None
    BY <1>1 DEF TypeOK, Download
  <2> QED BY <1>1, <2>1 DEF Download, Delivered, Sole
<1>5. \A e \in Downloaders : Download(e)'
  BY <1>3, <1>4, KeepDownload
<1> QED BY <1>2, <1>3, <1>5, KeepStore DEF IInv

LEMMA RequestStep ==
  ASSUME IInv, NEW d \in Downloaders, NEW n \in Names,
         handle_client_request_file_download(d, n)
  PROVE  IInv'
<1> USE DEF handle_client_request_file_download
<1>1. /\ TypeOK /\ Download(d) /\ d \in Conns /\ d \notin Uploaders
      /\ phase[d] = "idle" /\ sharer[d] = None /\ got[d] = <<>> /\ d \notin late
  BY FilesAssumption DEF IInv, Conns, Download
<1>2. /\ phase' \in [Conns -> Phases]
      /\ \A c \in Conns : c # d => phase'[c] = phase[c] /\ sharer'[c] = sharer[c]
      /\ \A e \in Downloaders : e # d => (e \in late' <=> e \in late)
  BY <1>1 DEF TypeOK, Phases
<1>3. SameStore /\ \A e \in Downloaders : e # d => SameDownload(e)
  BY <1>1, <1>2 DEF TypeOK, SameStore, SameDownload, Conns
<1>4. CASE files[n] = None
  <2>1. phase'[d] = "refused" /\ UNCHANGED <<sharer, late>>
    BY <1>1, <1>4 DEF TypeOK
  <2>2. TypeOK'
    BY <1>1, <1>2, <1>3, <2>1 DEF TypeOK, SameStore
  <2>3. Download(d)'
    BY <1>1, <2>1 DEF Download
  <2>4. \A e \in Downloaders : Download(e)'
    BY <1>3, <2>3, KeepDownload
  <2> QED BY <1>3, <2>2, <2>4, KeepStore DEF IInv
<1>5. CASE files[n] # None
  <2>1. files[n] \in Seq(Piece) /\ Len(files[n]) \in Nat
    BY <1>1, <1>5 DEF TypeOK
  <2>2. FileSharer(n, metadata(n)) \in Sharer
    BY <2>1 DEF FileSharer, metadata, Sharer
  <2>3. /\ phase'[d] = "open" /\ sharer'[d] = FileSharer(n, metadata(n))
        /\ sharer' \in [Conns -> Sharer \union {None}]
        /\ late' \subseteq Downloaders /\ (d \in late' <=> n \in announced)
    BY <1>1, <1>5, <2>2 DEF TypeOK
  <2>4. TypeOK'
    BY <1>1, <1>2, <1>3, <2>3 DEF TypeOK, SameStore
  <2>5. sharer'[d] # None /\ sharer'[d].name = n
        /\ sharer'[d].size = Len(files[n]) /\ sharer'[d].written = 0
    BY <2>2, <2>3, FilesAssumption DEF FileSharer, metadata
  <2>6. ASSUME Sole(n), NEW u \in accepted[n] PROVE Delivered(d, u)'
    <3>1. u \in Uploaders /\ Upload(u) /\ Granted(n) /\ Stored(n)
      BY <1>1, <2>6 DEF IInv, TypeOK
    <3>2. /\ phase[u] \in {"open", "done"} /\ sharer[u] \in Sharer
          /\ files[n] = Begun(u, sharer[u].written)
          /\ Rounded(sharer[u].written, Size[u])
      BY <2>6, <3>1 DEF Granted, Stored, Upload
    <3>3. sharer[u].written \in Nat /\ Len(files[n]) = sharer[u].written
      BY <3>1, <3>2, BegunFacts DEF Sharer
    <3>4. n \in announced => sharer[u].written = Size[u]
      BY <2>6, <3>1 DEF Granted, Sole, Upload
    <3>5. Begun(u, 0) = <<>>
      BY DEF Begun
    <3>6. Rounded(0, sharer[u].written)
      BY ChunkedZero DEF Rounded
    <3>7. sharer'[u] = sharer[u] /\ got'[d] = <<>>
      BY <1>1, <1>3, <3>1 DEF SameStore
    <3> QED BY <2>3, <2>5, <3>2, <3>3, <3>4, <3>5, <3>6, <3>7 DEF Delivered
  <2>7. Download(d)'
    <3>1. files'[n] # None /\ (Sole(n)' => Sole(n)) /\ accepted'[n] = accepted[n]
      BY <1>5 DEF Sole
    <3>2. phase'[d] # "idle"
      BY <2>3
    <3> QED BY <2>5, <2>6, <3>1, <3>2 DEF Download, Sole
  <2>8. \A e \in Downloaders : Download(e)'
    BY <1>3, <2>7, KeepDownload
  <2> QED BY <1>3, <2>4, <2>8, KeepStore DEF IInv
<1> QED BY <1>4, <1>5

\* A chunk of a file that is still being written ends where the promise does, or
\* before: both are whole chunks.
LEMMA ChunkStaysBelow ==
  ASSUME NEW w \in Nat, NEW v \in Nat, NEW m \in Nat, NEW z \in Nat,
         w < v, v <= m, m <= z,
         Rounded(w, v), Rounded(v, z), Rounded(m, z)
  PROVE  /\ w + Next_length(w, m) <= v
         /\ Rounded(w + Next_length(w, m), v)
<1>1. CHUNK_SIZE \in Nat \ {0} /\ Chunked(w)
  BY FilesAssumption DEF Rounded
<1>2. CASE v = m
  BY <1>2, NextLength
<1>3. CASE v < m
  <2>1. Chunked(v)
    BY <1>3 DEF Rounded
  <2>2. w + CHUNK_SIZE <= v
    BY <1>1, <2>1, ChunkedGap
  <2>3. Next_length(w, m) = CHUNK_SIZE
    BY <1>1, <1>3, <2>2 DEF Next_length
  <2>4. Chunked(w + CHUNK_SIZE)
    BY <1>1, ChunkedNext
  <2> QED BY <2>2, <2>3, <2>4 DEF Rounded
<1> QED BY <1>2, <1>3

LEMMA SendStep ==
  ASSUME IInv, NEW d \in Downloaders, send_chunk(d)
  PROVE  IInv'
<1> DEFINE s == sharer[d]
           n == s.name
           data == read(files[n], s.written)
           room == s.size - Len(got[d])
           part == SubSeq(data, 1, IF Len(data) <= room THEN Len(data) ELSE room)
<1>1. /\ TypeOK /\ Download(d) /\ d \in Conns /\ d \notin Uploaders
      /\ phase[d] = "sending" /\ s.written # s.size
  BY FilesAssumption DEF IInv, Conns, send_chunk
<1>2. /\ s \in Sharer /\ n \in Names /\ s.size \in Nat /\ s.written \in Nat
      /\ files[n] \in Seq(Piece) /\ got[d] \in Seq(Piece)
  <2>1. s # None
    BY <1>1 DEF Download
  <2>2. s \in Sharer
    BY <1>1, <2>1 DEF TypeOK
  <2>3. files[n] # None /\ n \in Names
    BY <1>1, <2>1, <2>2 DEF Download, Sharer
  <2> QED BY <1>1, <2>2, <2>3 DEF TypeOK, Sharer
<1>3. data \in Seq(Piece) /\ Len(data) \in Nat
  <2> HIDE DEF s, n
  <2>1. data \in Seq(Piece)
    BY <1>2, ReadType
  <2> QED BY <2>1
<1>4. /\ sharer' = [sharer EXCEPT ![d].written = @ + Len(data)]
      /\ got' = [got EXCEPT ![d] = @ \o part]
      /\ UNCHANGED <<files, phase, accepted, announced, late, gone>>
  BY DEF send_chunk
<1>5. part \in Seq(Piece)
  <2>1. Len(got[d]) \in Nat
    BY <1>2
  <2> HIDE DEF data
  <2> DEFINE k == IF Len(data) <= room THEN Len(data) ELSE room
  <2>2. k \in Int /\ k <= Len(data)
    BY <1>2, <1>3, <2>1
  <2> HIDE DEF k
  <2>3. SubSeq(data, 1, k) \in Seq(Piece)
    <3>1. ASSUME NEW i \in 1..k PROVE i \in 1..Len(data) /\ data[i] \in Piece
      BY <1>3, <2>2, <3>1
    <3> QED BY <1>3, <2>2, <3>1
  <2> QED BY <2>3 DEF k
<1> HIDE DEF s, data, part
<1>6. /\ sharer'[d] = [s EXCEPT !.written = @ + Len(data)]
      /\ got'[d] = got[d] \o part
      /\ \A c \in Conns : c # d => sharer'[c] = sharer[c]
      /\ \A c \in Downloaders : c # d => got'[c] = got[c]
  BY <1>1, <1>4 DEF TypeOK, s
<1>7. /\ sharer'[d] \in Sharer
      /\ sharer'[d].name = n /\ sharer'[d].size = s.size
      /\ sharer'[d].written = s.written + Len(data)
  BY <1>2, <1>3, <1>6 DEF Sharer
<1>8. TypeOK'
  <2>1. sharer' \in [Conns -> Sharer \union {None}]
    BY <1>1, <1>4, <1>6, <1>7 DEF TypeOK
  <2>2. got[d] \o part \in Seq(Piece)
    BY <1>2, <1>5, ConcatProperties
  <2>3. got' \in [Downloaders -> Seq(Piece)]
    BY <1>1, <1>4, <2>2 DEF TypeOK
  <2>4. \A c \in Uploaders : phase'[c] = phase[c] /\ sharer'[c] = sharer[c]
    BY <1>1, <1>4, <1>6 DEF Conns
  <2> QED BY <1>1, <1>4, <2>1, <2>3, <2>4 DEF TypeOK
<1>9. SameStore /\ \A e \in Downloaders : e # d => SameDownload(e)
  BY <1>1, <1>4, <1>6 DEF SameStore, SameDownload, Conns
<1>10. ASSUME Sole(n), NEW u \in accepted[n] PROVE Delivered(d, u)'
  <2>1. /\ u \in Uploaders /\ Upload(u) /\ Granted(n) /\ Stored(n)
        /\ Delivered(d, u)
    BY <1>1, <1>2, <1>10 DEF IInv, TypeOK, Download, s
  <2> DEFINE m == sharer[u].written
             k == Next_length(s.written, m)
  <2>2. /\ sharer[u] \in Sharer /\ m <= Size[u] /\ files[n] = Begun(u, m)
        /\ Rounded(m, Size[u])
    BY <1>10, <2>1 DEF Granted, Stored, Upload
  <2>3. m \in Nat /\ Size[u] \in Nat
    BY <2>1, <2>2, FilesAssumption DEF Sharer
  <2>4. /\ s.size <= m /\ s.written <= s.size /\ s.written < s.size
        /\ Rounded(s.size, Size[u]) /\ Rounded(s.written, s.size)
        /\ got[d] = Begun(u, s.written)
        /\ d \in late => s.size = Size[u]
    BY <1>1, <1>2, <2>1 DEF Delivered, s
  <2> HIDE DEF m
  <2>5. /\ s.written <= m /\ k \in Nat
        /\ s.written + k <= s.size /\ Rounded(s.written + k, s.size)
    BY <1>2, <2>2, <2>3, <2>4, ChunkStaysBelow, NextLength
  <2> HIDE DEF k
  <2>6. data = Slice(u, s.written, k) /\ Len(data) = k
    <3>1. read(Begun(u, m), s.written) = Slice(u, s.written, k)
      BY <1>2, <2>1, <2>3, <2>5, ReadOf DEF k
    <3>2. Len(Slice(u, s.written, k)) = k
      BY <1>2, <2>1, <2>5, SliceFacts
    <3> QED BY <2>2, <3>1, <3>2 DEF data
  <2>7. part = data
    <3>1. Len(got[d]) = s.written
      BY <1>2, <2>1, <2>4, BegunFacts
    <3>2. Len(data) <= room
      BY <1>2, <2>5, <2>6, <3>1
    <3>3. part = SubSeq(data, 1, Len(data))
      BY <3>2 DEF part
    <3> QED BY <1>3, <3>3, SubSeqFull
  <2>8. got'[d] = Begun(u, s.written + k)
    <3>1. Begun(u, s.written) \o Slice(u, s.written, k) = Begun(u, s.written + k)
      BY <1>2, <2>1, <2>5, AppendOf
    <3> QED BY <1>6, <2>4, <2>6, <2>7, <3>1
  <2>9. sharer'[u] = sharer[u] /\ phase'[d] = "sending" /\ late' = late
    BY <1>1, <1>4, <1>9, <2>1 DEF SameStore
  <2>10. sharer'[d].written = s.written + k /\ phase'[d] # "done"
    BY <1>7, <2>6, <2>9
  <2>11. sharer'[d].size <= m /\ sharer'[d].written <= sharer'[d].size
    BY <1>7, <2>4, <2>5, <2>10
  <2>12. Rounded(sharer'[d].size, Size[u])
    BY <1>7, <2>4
  <2>13. Rounded(sharer'[d].written, sharer'[d].size)
    BY <1>7, <2>5, <2>10
  <2>14. got'[d] = Begun(u, sharer'[d].written)
    BY <2>8, <2>10
  <2>15. d \in late' => sharer'[d].size = Size[u]
    BY <1>7, <2>4, <2>9
  <2> QED BY <2>9, <2>10, <2>11, <2>12, <2>13, <2>14, <2>15 DEF Delivered, m
<1>11. Download(d)'
  <2>1. files'[n] # None /\ accepted'[n] = accepted[n]
    BY <1>2, <1>4, FilesAssumption
  <2>2. phase'[d] # "idle" /\ sharer'[d] # None
    BY <1>1, <1>4, <1>7, FilesAssumption
  <2> HIDE DEF n
  <2>3. ASSUME \A c, e \in accepted'[n] : c = e
        PROVE  \A u \in accepted'[n] : Delivered(d, u)'
    BY <1>10, <2>1, <2>3 DEF Sole
  <2> QED BY <1>7, <2>1, <2>2, <2>3 DEF Download, Sole
<1>12. \A e \in Downloaders : Download(e)'
  BY <1>9, <1>11, KeepDownload
<1> QED BY <1>8, <1>9, <1>12, KeepStore DEF IInv

LEMMA InterruptStep == ASSUME IInv, NEW c \in Conns, Interrupt(c) PROVE IInv'
<1>1. /\ gone' \subseteq Conns
      /\ UNCHANGED <<files, phase, sharer, got, accepted, announced, late>>
  BY DEF IInv, TypeOK, Interrupt
<1>2. TypeOK'
  BY <1>1 DEF IInv, TypeOK
<1>3. SameStore /\ \A e \in Downloaders : SameDownload(e)
  BY <1>1 DEF SameStore, SameDownload
<1> QED BY <1>2, <1>3, KeepStore, KeepDownload DEF IInv

-----------------------------------------------------------------------------
(* Steps of uploads *)

\* What a step of an upload leaves alone: the other connections, and files of
\* other names.
SameOthers(c) ==
  /\ got' = got /\ late' = late
  /\ \A e \in Conns : e # c => phase'[e] = phase[e] /\ sharer'[e] = sharer[e]

SameName(n) ==
  files'[n] = files[n] /\ accepted'[n] = accepted[n] /\ (n \in announced' <=> n \in announced)

LEMMA KeepName ==
  ASSUME IInv, NEW c \in Uploaders, SameOthers(c), NEW n \in Names, SameName(n),
         c \notin accepted[n]
  PROVE  (Granted(n) /\ Stored(n))'
<1>1. Granted(n) /\ Stored(n)
  BY DEF IInv
<1>2. \A u \in accepted[n] : phase'[u] = phase[u] /\ sharer'[u] = sharer[u]
  BY DEF IInv, TypeOK, SameOthers, Conns
<1>3. Granted(n)'
  BY <1>1, <1>2 DEF SameName, Granted
<1>4. Stored(n)'
  BY <1>1, <1>2 DEF SameName, Stored, Sole
<1> QED BY <1>3, <1>4

LEMMA KeepUpload ==
  ASSUME IInv, NEW c \in Uploaders, SameOthers(c), NEW u \in Uploaders, u # c,
         \A n \in Names : accepted[n] \subseteq accepted'[n]
  PROVE  Upload(u)'
<1>1. Upload(u) /\ phase'[u] = phase[u] /\ sharer'[u] = sharer[u]
  BY DEF IInv, SameOthers, Conns
<1> QED BY <1>1 DEF Upload, Sharer

LEMMA KeepOtherDownload ==
  ASSUME IInv, NEW c \in Uploaders, SameOthers(c), NEW d \in Downloaders,
         sharer[d] # None => SameName(sharer[d].name) /\ c \notin accepted[sharer[d].name]
  PROVE  Download(d)'
<1>1. /\ Download(d) /\ d # c
      /\ sharer[d] # None => accepted[sharer[d].name] \subseteq Uploaders
  BY FilesAssumption DEF IInv, TypeOK, Conns, Sharer
<1>2. /\ phase'[d] = phase[d] /\ sharer'[d] = sharer[d]
      /\ got'[d] = got[d] /\ late' = late
  BY <1>1 DEF SameOthers, Conns
<1>3. CASE sharer[d] = None
  BY <1>1, <1>2, <1>3 DEF Download
<1>4. CASE sharer[d] # None
  <2> DEFINE n == sharer[d].name
  <2>1. /\ n = sharer'[d].name
        /\ files'[n] = files[n] /\ accepted'[n] = accepted[n] /\ c \notin accepted[n]
    BY <1>2, <1>4 DEF SameName
  <2>2. ASSUME Sole(n), NEW u \in accepted[n] PROVE Delivered(d, u)'
    <3>1. Delivered(d, u) /\ sharer'[u] = sharer[u]
      BY <1>1, <1>4, <2>1, <2>2 DEF Download, SameOthers, Conns
    <3> QED BY <1>2, <3>1 DEF Delivered
  <2>3. /\ phase[d] # "idle" /\ files[n] # None
    BY <1>1, <1>4 DEF Download
  <2> HIDE DEF n
  <2> QED BY <1>2, <1>4, <2>1, <2>2, <2>3 DEF Download, Sole
<1> QED BY <1>3, <1>4

LEMMA CheckStep ==
  ASSUME IInv, NEW c \in Uploaders, NEW n \in Names, Check_upload(c, n)
  PROVE  IInv'
<1> DEFINE p == IF files[n] = None THEN "checked" ELSE "refused"
<1>1. /\ TypeOK /\ c \in Conns /\ Size[c] \in Nat /\ phase[c] = "idle"
      /\ phase' = [phase EXCEPT ![c] = p]
      /\ sharer' = [sharer EXCEPT ![c] = FileSharer(n, Size[c])]
      /\ UNCHANGED <<files, got, accepted, announced, late, gone>>
  BY FilesAssumption DEF IInv, Conns, Check_upload
<1>2. p \in {"checked", "refused"}
  OBVIOUS
<1> HIDE DEF p
<1>3. FileSharer(n, Size[c]) \in Sharer
  BY <1>1 DEF FileSharer, Sharer
<1>4. /\ phase'[c] = p /\ sharer'[c] = FileSharer(n, Size[c])
      /\ SameOthers(c) /\ \A k \in Names : SameName(k)
  BY <1>1 DEF TypeOK, SameOthers, SameName
<1>5. TypeOK'
  <2>1. phase' \in [Conns -> Phases] /\ sharer' \in [Conns -> Sharer \union {None}]
    BY <1>1, <1>2, <1>3 DEF TypeOK, Phases
  <2>2. ASSUME NEW u \in Uploaders, phase'[u] = "open", sharer'[u].size > 0
        PROVE  sharer'[u].written < sharer'[u].size
    <3>1. u # c
      BY <1>2, <1>4, <2>2
    <3> QED BY <1>1, <1>4, <2>2, <3>1 DEF TypeOK, SameOthers, Conns
  <2> QED BY <1>1, <2>1, <2>2 DEF TypeOK
<1>6. \A k \in Names : c \notin accepted[k]
  BY <1>1 DEF IInv, Granted
<1>7. Upload(c)'
  <2>1. /\ sharer'[c] \in Sharer /\ sharer'[c].size = Size[c] /\ sharer'[c].written = 0
    BY <1>3, <1>4 DEF FileSharer
  <2> QED BY <1>1, <1>2, <1>4, <2>1 DEF Upload
<1>8. \A u \in Uploaders : Upload(u)'
  BY <1>1, <1>4, <1>7, KeepUpload
<1>9. \A k \in Names : (Granted(k) /\ Stored(k))'
  BY <1>4, <1>6, KeepName
<1>10. ASSUME NEW d \in Downloaders PROVE Download(d)'
  <2>1. sharer[d] # None => sharer[d].name \in Names
    BY <1>1 DEF TypeOK, Conns, Sharer
  <2> QED BY <1>4, <1>6, <2>1, KeepOtherDownload
<1> QED BY <1>5, <1>8, <1>9, <1>10 DEF IInv

LEMMA CreateStep ==
  ASSUME IInv, NEW c \in Uploaders, Create(c)
  PROVE  IInv'
<1> DEFINE n == sharer[c].name
<1>1. /\ TypeOK /\ c \in Conns /\ Size[c] \in Nat /\ phase[c] = "checked"
      /\ files' = [files EXCEPT ![n] = <<>>]
      /\ phase' = [phase EXCEPT ![c] = "open"]
      /\ accepted' = [accepted EXCEPT ![n] = @ \union {c}]
      /\ UNCHANGED <<sharer, got, announced, late, gone>>
  BY FilesAssumption DEF IInv, Conns, Create
<1>2. /\ sharer[c] \in Sharer /\ sharer[c].size = Size[c] /\ sharer[c].written = 0
      /\ n \in Names
  BY <1>1 DEF IInv, Upload, Sharer
<1>3. \A k \in Names : c \notin accepted[k]
  BY <1>1 DEF IInv, Granted
<1> HIDE DEF n
<1>4. <<>> \in Seq(Piece) /\ <<>> # None
  <2>1. <<>> \in Seq(Piece)
    OBVIOUS
  <2> QED BY <2>1, FilesAssumption, Zenon
<1>5. /\ phase'[c] = "open" /\ files'[n] = <<>> /\ accepted'[n] = accepted[n] \union {c}
      /\ SameOthers(c) /\ \A k \in Names : k # n => SameName(k)
      /\ \A k \in Names : accepted[k] \subseteq accepted'[k]
  BY <1>1, <1>2 DEF TypeOK, SameOthers, SameName
<1>6. TypeOK'
  <2>1. /\ files' \in [Names -> Seq(Piece) \union {None}]
        /\ phase' \in [Conns -> Phases]
        /\ accepted' \in [Names -> SUBSET Uploaders]
    BY <1>1, <1>2, <1>4 DEF TypeOK, Phases
  <2>2. ASSUME NEW u \in Uploaders, phase'[u] = "open", sharer'[u].size > 0
        PROVE  sharer'[u].written < sharer'[u].size
    <3>1. CASE u = c
      BY <1>1, <1>2, <2>2, <3>1
    <3>2. CASE u # c
      BY <1>1, <1>5, <2>2, <3>2 DEF TypeOK, SameOthers, Conns
    <3> QED BY <3>1, <3>2
  <2>3. /\ sharer' \in [Conns -> Sharer \union {None}]
        /\ got' \in [Downloaders -> Seq(Piece)]
        /\ announced' \subseteq Names /\ late' \subseteq Downloaders /\ gone' \subseteq Conns
    BY <1>1 DEF TypeOK
  <2> QED BY <2>1, <2>2, <2>3 DEF TypeOK
<1>7. \A u \in Uploaders : Upload(u)'
  <2>1. Upload(c)'
    <3>1. c \in accepted'[sharer[c].name] /\ phase'[c] = "open" /\ sharer' = sharer
      BY <1>1, <1>5 DEF n
    <3> QED BY <1>1, <1>2, <3>1 DEF Upload
  <2> QED BY <1>5, <2>1, KeepUpload
<1>8. ASSUME NEW k \in Names, k = n PROVE (Granted(k) /\ Stored(k))'
  <2>1. Granted(k)
    BY DEF IInv
  <2>2. \A u \in accepted[k] : u # c /\ phase'[u] = phase[u]
    BY <1>1, <1>3, <1>5 DEF TypeOK, SameOthers, Conns
  <2>3. /\ accepted'[k] = accepted[k] \union {c} /\ files'[k] = <<>>
        /\ phase'[c] = "open" /\ sharer' = sharer /\ announced' = announced
        /\ sharer[c].name = k
    BY <1>1, <1>5, <1>8 DEF n
  <2>4. IsFiniteSet(accepted'[k])
    BY <2>1, <2>3, FS_AddElement DEF Granted
  <2>5. \A u \in accepted'[k] : phase'[u] \in {"open", "done"} /\ sharer'[u].name = k
    BY <2>1, <2>2, <2>3 DEF Granted
  <2>6. k \in announced' => \E u \in accepted'[k] : phase'[u] = "done"
    BY <2>1, <2>2, <2>3 DEF Granted
  <2>7. files'[k] # None /\ accepted'[k] # {}
    BY <1>4, <2>3
  <2>8. Granted(k)'
    BY <2>4, <2>5, <2>6, <2>7 DEF Granted
  <2>9. Stored(k)'
    <3>1. Begun(c, 0) = <<>> /\ Rounded(0, Size[c])
      BY ChunkedZero DEF Begun, Rounded
    <3>2. sharer'[c].written = 0
      BY <1>1, <1>2
    <3>3. ASSUME \A u, v \in accepted'[k] : u = v, NEW u \in accepted'[k] PROVE u = c
      BY <2>3, <3>3
    <3> QED BY <2>3, <3>1, <3>2, <3>3 DEF Stored, Sole
  <2> QED BY <2>8, <2>9
<1>9. \A k \in Names : (Granted(k) /\ Stored(k))'
  BY <1>3, <1>5, <1>8, KeepName
<1>10. ASSUME NEW d \in Downloaders PROVE Download(d)'
  <2>1. CASE sharer[d] # None /\ sharer[d].name = n
    <3>1. PICK u \in accepted[n] : u # c
      <4>1. files[n] # None /\ Granted(n)
        BY <1>2, <2>1 DEF IInv, Download
      <4> QED BY <1>2, <1>3, <4>1 DEF Granted
    <3>2. u \in accepted'[n] /\ c \in accepted'[n]
      BY <1>5
    <3>3. /\ Download(d) /\ d # c
          /\ phase'[d] = phase[d] /\ sharer'[d] = sharer[d]
      BY <1>1, <1>5, FilesAssumption DEF IInv, SameOthers, Conns
    <3> QED BY <1>4, <1>5, <2>1, <3>1, <3>2, <3>3 DEF Download, Sole
  <2>2. CASE ~(sharer[d] # None /\ sharer[d].name = n)
    <3>1. sharer[d] # None => sharer[d].name \in Names
      BY <1>1 DEF TypeOK, Conns, Sharer
    <3> QED BY <1>3, <1>5, <2>2, <3>1, KeepOtherDownload
  <2> QED BY <2>1, <2>2
<1> QED BY <1>6, <1>7, <1>9, <1>10 DEF IInv

\* The chunk that comes is the next one of the client's file, whole.
LEMMA ChunkIs ==
  ASSUME NEW c \in Uploaders, NEW s \in Sharer, s.size = Size[c], s.written <= s.size
  PROVE  /\ taken(s, read(Original(c), s.written))
              = Slice(c, s.written, Next_length(s.written, Size[c]))
         /\ Len(taken(s, read(Original(c), s.written))) = Next_length(s.written, Size[c])
<1> DEFINE k == Next_length(s.written, Size[c])
           data == Slice(c, s.written, k)
<1>1. Size[c] \in Nat /\ s.written \in Nat
  BY FilesAssumption DEF Sharer
<1>2. k \in Nat /\ s.written + k <= Size[c]
  BY <1>1, NextLength
<1>3. read(Original(c), s.written) = data
  <2>1. Original(c) = Begun(c, Size[c])
    BY DEF Original, Begun
  <2> QED BY <1>1, <2>1, ReadOf
<1> HIDE DEF k
<1>4. data \in Seq(Piece) /\ Len(data) = k
  BY <1>1, <1>2, SliceFacts
<1>5. Len(data) <= s.size - s.written
  BY <1>1, <1>2, <1>4
<1> HIDE DEF data
<1>6. taken(s, data) = data
  BY <1>4, <1>5, TakenType
<1> QED BY <1>3, <1>4, <1>6 DEF k, data

LEMMA ChunkStep ==
  ASSUME IInv, NEW c \in Uploaders, handle_client_chunk(c)
  PROVE  IInv'
<1> DEFINE n == sharer[c].name
           w == sharer[c].written
           k == Next_length(w, Size[c])
           full == w + k >= Size[c]
<1>1. TypeOK /\ c \in Conns /\ phase[c] = "open" /\ Upload(c) /\ Size[c] \in Nat
  BY FilesAssumption DEF IInv, Conns, handle_client_chunk
<1>2. /\ sharer[c] \in Sharer /\ sharer[c].size = Size[c] /\ w <= Size[c]
      /\ w \in Nat /\ n \in Names /\ c \in accepted[n]
  BY <1>1 DEF Upload, Sharer
<1>3. /\ k \in Nat /\ w + k <= Size[c]
      /\ Rounded(w, Size[c]) => Rounded(w + k, Size[c])
  BY <1>1, <1>2, NextLength
<1>4. /\ taken(sharer[c], read(Original(c), w)) = Slice(c, w, k)
      /\ Len(Slice(c, w, k)) = k
  BY <1>2, ChunkIs
<1>5. Slice(c, w, k) \in Seq(Piece)
  BY <1>2, <1>3, SliceFacts
<1> HIDE DEF k
<1>6. /\ files' = [files EXCEPT ![n] = write(@, w, Slice(c, w, k))]
      /\ sharer' = [sharer EXCEPT ![c].written = @ + k]
      /\ phase' = [phase EXCEPT ![c] = IF full THEN "done" ELSE "open"]
      /\ announced' = IF full THEN announced \union {n} ELSE announced
      /\ UNCHANGED <<got, accepted, late, gone>>
  <2>1. done(sharer[c], k) <=> full
    BY <1>2 DEF done
  <2>2. CASE full
    BY <1>4, <2>1, <2>2 DEF handle_client_chunk
  <2>3. CASE ~full
    <3>1. phase' = phase /\ announced' = announced
      BY <1>4, <2>1, <2>3 DEF handle_client_chunk
    <3>2. phase = [phase EXCEPT ![c] = "open"]
      BY <1>1 DEF TypeOK
    <3> QED BY <1>4, <2>3, <3>1, <3>2 DEF handle_client_chunk
  <2> QED BY <2>2, <2>3
<1>7. files[n] \in Seq(Piece) /\ files'[n] = write(files[n], w, Slice(c, w, k))
  BY <1>1, <1>2, <1>6 DEF IInv, Granted, TypeOK
<1>8. files'[n] \in Seq(Piece) /\ files'[n] # None
  BY <1>2, <1>5, <1>7, WriteType, FilesAssumption
<1>9. /\ sharer'[c] = [sharer[c] EXCEPT !.written = w + k]
      /\ phase'[c] = IF full THEN "done" ELSE "open"
  BY <1>1, <1>6 DEF TypeOK
<1>10. /\ sharer'[c] \in Sharer /\ sharer'[c].name = n /\ sharer'[c].size = Size[c]
       /\ sharer'[c].written = w + k
  BY <1>2, <1>3, <1>9 DEF Sharer
<1> HIDE DEF n, w
<1>11. SameOthers(c) /\ \A j \in Names : j # n => SameName(j)
  BY <1>1, <1>2, <1>6 DEF TypeOK, SameOthers, SameName
<1>12. \A j \in Names : j # n => c \notin accepted[j]
  BY DEF IInv, Granted, n
<1>13. TypeOK'
  <2>1. files' \in [Names -> Seq(Piece) \union {None}]
    BY <1>1, <1>6, <1>7, <1>8 DEF TypeOK
  <2>2. phase' \in [Conns -> Phases] /\ announced' \subseteq Names
    BY <1>1, <1>2, <1>6 DEF TypeOK, Phases
  <2>3. sharer' \in [Conns -> Sharer \union {None}]
    BY <1>1, <1>6, <1>9, <1>10 DEF TypeOK
  <2>4. ASSUME NEW u \in Uploaders, phase'[u] = "open", sharer'[u].size > 0
        PROVE  sharer'[u].written < sharer'[u].size
    <3>1. CASE u = c
      <4>1. ~(w + k >= Size[c])
        BY <1>9, <2>4, <3>1
      <4>2. w + k < Size[c]
        BY <1>1, <1>2, <1>3, <4>1
      <4> QED BY <1>10, <3>1, <4>2
    <3>2. CASE u # c
      BY <1>1, <1>11, <2>4, <3>2 DEF TypeOK, SameOthers, Conns
    <3> QED BY <3>1, <3>2
  <2>5. /\ got' \in [Downloaders -> Seq(Piece)] /\ accepted' \in [Names -> SUBSET Uploaders]
        /\ late' \subseteq Downloaders /\ gone' \subseteq Conns
    BY <1>1, <1>6 DEF TypeOK
  <2> QED BY <2>1, <2>2, <2>3, <2>4, <2>5 DEF TypeOK
<1>14. \A u \in Uploaders : Upload(u)'
  <2>1. Upload(c)'
    <3>1. c \in accepted'[sharer'[c].name] /\ phase'[c] # "checked"
      BY <1>2, <1>6, <1>9, <1>10
    <3>2. phase'[c] = "done" => sharer'[c].written = Size[c]
      BY <1>1, <1>2, <1>3, <1>9, <1>10
    <3> QED BY <1>3, <1>10, <3>1, <3>2 DEF Upload
  <2>2. accepted' = accepted
    BY <1>6
  <2> QED BY <1>11, <2>1, <2>2, KeepUpload
<1>15. ASSUME NEW j \in Names, j = n PROVE (Granted(j) /\ Stored(j))'
  <2>1. /\ Granted(j) /\ Stored(j) /\ accepted[j] \subseteq Uploaders
        /\ accepted'[j] = accepted[j]
    BY <1>1, <1>6 DEF IInv, TypeOK
  <2>2. \A u \in accepted[j] : u # c => phase'[u] = phase[u] /\ sharer'[u] = sharer[u]
    BY <1>11, <2>1 DEF SameOthers, Conns
  <2>3. Granted(j)'
    <3>1. \A u \in accepted[j] : phase'[u] \in {"open", "done"} /\ sharer'[u].name = j
      BY <1>9, <1>10, <1>15, <2>1, <2>2 DEF Granted
    <3>2. ASSUME j \in announced' PROVE \E u \in accepted[j] : phase'[u] = "done"
      <4>1. CASE full
        <5>1. c \in accepted[j] /\ phase'[c] = "done"
          BY <1>2, <1>9, <1>15, <4>1
        <5> QED BY <5>1
      <4>2. CASE ~full
        <5>1. PICK u \in accepted[j] : phase[u] = "done"
          BY <1>6, <2>1, <3>2, <4>2 DEF Granted
        <5> QED BY <1>1, <2>2, <5>1
      <4> QED BY <4>1, <4>2
    <3> QED BY <1>2, <1>8, <1>15, <2>1, <3>1, <3>2 DEF Granted
  <2>4. Stored(j)'
    <3> SUFFICES ASSUME Sole(j), NEW u \in accepted[j]
                 PROVE  /\ files'[j] = Begun(u, sharer'[u].written)
                        /\ Rounded(sharer'[u].written, Size[u])
      BY <2>1 DEF Stored, Sole
    <3>1. u = c
      BY <1>2, <1>15 DEF Sole
    <3>2. files[n] = Begun(c, w) /\ Rounded(w, Size[c])
      BY <1>15, <2>1, <3>1 DEF Stored, w
    <3>3. write(Begun(c, w), w, Slice(c, w, k)) = Begun(c, w + k)
      BY <1>2, <1>3, WriteOf
    <3>4. files'[j] = Begun(c, w + k)
      BY <1>7, <1>15, <3>2, <3>3
    <3> QED BY <1>3, <1>10, <3>1, <3>2, <3>4
  <2> QED BY <2>3, <2>4
<1>16. \A j \in Names : (Granted(j) /\ Stored(j))'
  BY <1>11, <1>12, <1>15, KeepName
<1>17. ASSUME NEW d \in Downloaders PROVE Download(d)'
  <2>1. CASE sharer[d] # None /\ sharer[d].name = n
    <3>1. /\ Download(d) /\ d # c /\ late' = late /\ got' = got /\ accepted' = accepted
          /\ phase'[d] = phase[d] /\ sharer'[d] = sharer[d] /\ sharer[d] \in Sharer
      BY <1>1, <1>6, <1>11, <2>1, FilesAssumption DEF IInv, SameOthers, Conns, TypeOK
    <3>2. ASSUME Sole(n), NEW u \in accepted[n] PROVE Delivered(d, u)'
      <4>1. u = c /\ Delivered(d, c)
        BY <1>2, <2>1, <3>1, <3>2 DEF Sole, Download
      <4>2. sharer[d].size <= w + k
        BY <1>2, <1>3, <3>1, <4>1 DEF Delivered, Sharer, w
      <4> QED BY <1>10, <3>1, <4>1, <4>2 DEF Delivered
    <3>3. phase[d] # "idle"
      BY <2>1, <3>1 DEF Download
    <3> QED BY <1>8, <2>1, <3>1, <3>2, <3>3 DEF Download, Sole
  <2>2. CASE ~(sharer[d] # None /\ sharer[d].name = n)
    <3>1. sharer[d] # None => sharer[d].name \in Names
      BY <1>1 DEF TypeOK, Conns, Sharer
    <3> QED BY <1>11, <1>12, <2>2, <3>1, KeepOtherDownload
  <2> QED BY <2>1, <2>2
<1> QED BY <1>13, <1>14, <1>16, <1>17 DEF IInv

-----------------------------------------------------------------------------
(* Theorems *)

LEMMA NextIInv == IInv /\ [Next]_vars => IInv'
<1> SUFFICES ASSUME IInv, [Next]_vars PROVE IInv'
  OBVIOUS
<1>1. ASSUME NEW c \in Uploaders, NEW n \in Names, Check_upload(c, n) PROVE IInv'
  BY <1>1, CheckStep
<1>2. ASSUME NEW c \in Uploaders, Create(c) PROVE IInv'
  BY <1>2, CreateStep
<1>3. ASSUME NEW c \in Uploaders, handle_client_chunk(c) PROVE IInv'
  BY <1>3, ChunkStep
<1>4. ASSUME NEW d \in Downloaders, NEW n \in Names,
             handle_client_request_file_download(d, n)
      PROVE  IInv'
  BY <1>4, RequestStep
<1>5. ASSUME NEW d \in Downloaders,
             \/ handle_client_agree_file_download(d)
             \/ handle_client_decline_file_download(d)
             \/ Sent(d)
      PROVE  IInv'
  <2>1. CASE handle_client_agree_file_download(d)
    BY <2>1, PhaseStep DEF handle_client_agree_file_download
  <2>2. CASE handle_client_decline_file_download(d)
    BY <2>2, PhaseStep DEF handle_client_decline_file_download
  <2>3. CASE Sent(d)
    BY <2>3, PhaseStep DEF Sent
  <2> QED BY <1>5, <2>1, <2>2, <2>3
<1>6. ASSUME NEW d \in Downloaders, send_chunk(d) PROVE IInv'
  BY <1>6, SendStep
<1>7. ASSUME NEW c \in Conns, Interrupt(c) PROVE IInv'
  BY <1>7, InterruptStep
<1>8. CASE UNCHANGED vars
  <2>1. SameStore /\ TypeOK' /\ \A d \in Downloaders : SameDownload(d)
    BY <1>8 DEF vars, SameStore, SameDownload, IInv, TypeOK
  <2> QED BY <2>1, KeepStore, KeepDownload DEF IInv
<1> QED BY <1>1, <1>2, <1>3, <1>4, <1>5, <1>6, <1>7, <1>8 DEF Next

LEMMA IInvHolds == Spec => []IInv
BY InitIInv, NextIInv, PTL DEF Spec

\* Types are kept, by any number of uploads and downloads.
THEOREM TypeCorrect == Spec => []TypeOK
<1>1. IInv => TypeOK
  BY DEF IInv
<1> QED BY <1>1, IInvHolds, PTL

\* NewFile tells the truth: what is announced is its client's whole file, no
\* matter what uploads, downloads and interruptions came in between, as long as
\* no two threads were let in for the name.
THEOREM NewFileIsComplete == Spec => []AnnouncedIsComplete
<1>1. IInv => AnnouncedIsComplete
  <2> SUFFICES ASSUME IInv, NEW n \in announced, Once(n)
               PROVE  \E c \in accepted[n] : files[n] = Original(c)
    BY DEF AnnouncedIsComplete
  <2>1. Granted(n) /\ Stored(n) /\ accepted[n] \subseteq Uploaders
    BY DEF IInv, TypeOK
  <2>2. Sole(n)
    BY <2>1, OnceIsSole DEF Granted, Once, Sole
  <2>3. PICK c \in accepted[n] : phase[c] = "done"
    BY <2>1 DEF Granted
  <2>4. files[n] = Begun(c, Size[c])
    BY <2>1, <2>2, <2>3 DEF IInv, Upload, Stored
  <2> QED BY <2>4 DEF Original, Begun
<1> QED BY <1>1, IInvHolds, PTL

\* A download is the beginning of what is stored, and the whole of it when the
\* file had been announced; while the file grows, too.
THEOREM DownloadsAreStored == Spec => []DeliveredIsStored
<1>1. IInv => DeliveredIsStored
  <2> SUFFICES ASSUME IInv, NEW d \in Downloaders, sharer[d] # None, Once(sharer[d].name)
               PROVE  /\ IsPrefix(got[d], files[sharer[d].name])
                      /\ phase[d] = "done" => Len(got[d]) = sharer[d].size
                      /\ phase[d] = "done" /\ d \in late => got[d] = files[sharer[d].name]
    BY DEF DeliveredIsStored
  <2> DEFINE n == sharer[d].name
  <2>1. Download(d) /\ sharer[d] \in Sharer
    BY DEF IInv, TypeOK, Conns
  <2>2. Granted(n) /\ Stored(n) /\ accepted[n] \subseteq Uploaders
    BY <2>1 DEF IInv, TypeOK, Sharer
  <2>3. Sole(n)
    BY <2>2, OnceIsSole DEF Granted, Once, Sole
  <2>4. PICK u \in accepted[n] : TRUE
    BY <2>1, <2>2 DEF Granted, Download
  <2>5. u \in Uploaders /\ Upload(u) /\ phase[u] \in {"open", "done"} /\ Delivered(d, u)
    BY <2>1, <2>2, <2>3, <2>4 DEF IInv, Granted, Download
  <2>6. /\ sharer[u].written \in Nat /\ sharer[u].written <= Size[u]
        /\ files[n] = Begun(u, sharer[u].written)
    BY <2>2, <2>3, <2>4, <2>5 DEF Upload, Stored, Sharer
  <2>7. /\ got[d] = Begun(u, sharer[d].written)
        /\ sharer[d].written \in Nat /\ sharer[d].written <= sharer[u].written
    BY <2>1, <2>5, <2>6 DEF Delivered, Sharer
  <2>8. IsPrefix(got[d], files[n])
    BY <2>5, <2>6, <2>7, PrefixOf
  <2>9. phase[d] = "done" => Len(got[d]) = sharer[d].size
    BY <2>5, <2>7, BegunFacts DEF Delivered
  <2>10. phase[d] = "done" /\ d \in late => got[d] = files[n]
    <3>1. ASSUME phase[d] = "done", d \in late PROVE sharer[d].written = sharer[u].written
      <4>1. sharer[d].written = Size[u]
        BY <2>5, <3>1 DEF Delivered
      <4>2. Size[u] \in Nat
        BY <2>5, FilesAssumption
      <4> QED BY <2>6, <2>7, <4>1, <4>2
    <3> QED BY <2>6, <2>7, <3>1
  <2> QED BY <2>8, <2>9, <2>10
<1> QED BY <1>1, IInvHolds, PTL

\* The difference of lengths in send_file never runs below zero, for every
\* length of a chunk: what grows does so in whole chunks.
THEOREM SendingStaysWithin == Spec => []NoOvershoot
<1>1. IInv => NoOvershoot
  <2> SUFFICES ASSUME IInv, NEW d \in Downloaders, sharer[d] # None, Once(sharer[d].name)
               PROVE  sharer[d].written <= sharer[d].size
    BY DEF NoOvershoot
  <2> DEFINE n == sharer[d].name
  <2>1. Download(d) /\ sharer[d] \in Sharer
    BY DEF IInv, TypeOK, Conns
  <2>2. Granted(n)
    BY <2>1 DEF IInv, Sharer
  <2>3. Sole(n)
    BY <2>2, OnceIsSole DEF Granted, Once, Sole
  <2>4. PICK u \in accepted[n] : TRUE
    BY <2>1, <2>2 DEF Granted, Download
  <2> QED BY <2>1, <2>3, <2>4 DEF Download, Delivered
<1> QED BY <1>1, IInvHolds, PTL

===============================================================================
