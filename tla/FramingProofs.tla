------------------------------ MODULE FramingProofs ------------------------------
(***************************************************************************)
(* Theorems about the readers of messages, Reader and Scanner, for every   *)
(* cap and all lengths of documents.                                       *)
(***************************************************************************)
EXTENDS Reader, Scanner, TLAPS

(* The stream of documents *)

LEMMA SizesArePositive ==
  \A size \in Sizes : size \in Nat /\ size > 0 /\ Header < size
  BY StreamAssumption

\* Every document has a first and a last position, and the last of them ends at
\* End (write_message puts documents one behind the other).
LEMMA DocumentsAreStretches ==
  ASSUME StreamTypeOK
  PROVE  /\ \A k \in 1..Len(written) :
              /\ written[k] \in Stretch
              /\ written[k].from \in Nat
              /\ written[k].to \in Nat
         /\ Len(written) \in Nat
         /\ End \in Nat
         /\ written # <<>> => End = written[Len(written)].to /\ Len(written) > 0
         /\ written = <<>> => End = 0 /\ Len(written) = 0
  <1>1. written \in Seq(Stretch)
    BY DEF StreamTypeOK
  <1>2. Len(written) \in Nat /\ \A k \in 1..Len(written) : written[k] \in Stretch
    BY <1>1
  <1>3. \A k \in 1..Len(written) : written[k].from \in Nat /\ written[k].to \in Nat
    BY <1>2 DEF Stretch
  <1>4. written # <<>> => Len(written) > 0
    BY <1>1
  <1>5. written = <<>> => Len(written) = 0
    BY <1>1
  <1>6. End \in Nat
    <2>1. CASE written = <<>>
      BY <2>1 DEF End
    <2>2. CASE written # <<>>
      BY <2>2, <1>2, <1>3, <1>4 DEF End
    <2> QED BY <2>1, <2>2
  <1> QED
    BY <1>2, <1>3, <1>4, <1>5, <1>6 DEF End

\* The stream keeps its types and its layout, and documents already written stay
\* where they are, whatever the writing end and the network do.
LEMMA EnvironmentKeepsLayout ==
  ASSUME StreamTypeOK, Layout, Environment
  PROVE  /\ StreamTypeOK'
         /\ Layout'
         /\ Len(written) <= Len(written')
         /\ \A k \in 1..Len(written) : written'[k] = written[k]
         /\ UNCHANGED <<received, offset, first, handed, status>>
  <1> USE StreamAssumption
  <1>0. /\ \A k \in 1..Len(written) : written[k].from \in Nat /\ written[k].to \in Nat
        /\ Len(written) \in Nat
        /\ End \in Nat
    BY DocumentsAreStretches
  <1>1. CASE write_message
    <2>1. PICK size \in Sizes :
            written' = Append(written, [from |-> End, to |-> End + size])
      BY <1>1 DEF write_message
    <2>2. size \in Nat /\ size > 0
      <3>1. size \in Nat /\ Header < size
        BY <2>1
      <3> QED BY <3>1
    <2> DEFINE document == [from |-> End, to |-> End + size]
    <2>3. document \in Stretch /\ document.from = End /\ document.to = End + size
      BY <1>0, <2>2 DEF Stretch
    <2>4. /\ written' \in Seq(Stretch)
          /\ Len(written') = Len(written) + 1
          /\ \A k \in 1..Len(written) : written'[k] = written[k]
          /\ written'[Len(written) + 1] = document
      <3>1. written \in Seq(Stretch)
        BY DEF StreamTypeOK
      <3>2. written' = Append(written, document)
        BY <2>1
      <3> HIDE DEF document
      <3> QED BY <3>1, <3>2, <2>3
    <2>5. End' = End + size
      <3>1. written' # <<>>
        BY <2>4, <1>0
      <3>2. End' = written'[Len(written')].to
        BY <3>1 DEF End
      <3> QED BY <3>2, <2>4, <2>3
    <2>6. StreamTypeOK'
      <3>1. sent \in 0..End /\ peer \in {"open", "closed", "reset"} /\ received \in 0..sent
              /\ offset \in 0..Cap
        BY DEF StreamTypeOK
      <3>2. sent' \in 0..End'
        BY <3>1, <2>5, <2>2, <1>0, <1>1 DEF write_message
      <3> QED BY <3>1, <3>2, <2>4, <1>1 DEF write_message, StreamTypeOK
    <2>7. \A k \in 1..Len(written') :
            /\ written'[k].to - written'[k].from \in Sizes
            /\ written'[k].from = IF k = 1 THEN 0 ELSE written'[k - 1].to
            /\ written'[k].to <= End'
      <3> SUFFICES ASSUME NEW k \in 1..Len(written')
                   PROVE  /\ written'[k].to - written'[k].from \in Sizes
                          /\ written'[k].from = IF k = 1 THEN 0 ELSE written'[k - 1].to
                          /\ written'[k].to <= End'
        OBVIOUS
      <3>1. CASE k \in 1..Len(written)
        <4>1. /\ written[k].to - written[k].from \in Sizes
              /\ written[k].from = IF k = 1 THEN 0 ELSE written[k - 1].to
              /\ written[k].to <= End
          BY <3>1 DEF Layout
        <4>2. k # 1 => k - 1 \in 1..Len(written)
          BY <3>1, <1>0
        <4>3. written'[k] = written[k] /\ (k # 1 => written'[k - 1] = written[k - 1])
          BY <3>1, <4>2, <2>4
        <4>4. written[k].to \in Nat
          BY <3>1, <1>0
        <4> QED BY <4>1, <4>3, <4>4, <2>5, <2>2, <1>0
      <3>2. CASE k = Len(written) + 1
        <4>1. written'[k] = document
          BY <3>2, <2>4
        <4>2. document.to - document.from = size
          BY <2>3, <2>2, <1>0
        <4>3. CASE written = <<>>
          <5>1. k = 1 /\ End = 0
            BY <4>3, <3>2, DocumentsAreStretches
          <5> QED BY <5>1, <4>1, <4>2, <2>3, <2>5, <2>2
        <4>4. CASE written # <<>>
          <5>1. k # 1 /\ End = written[Len(written)].to /\ k - 1 = Len(written)
                  /\ k - 1 \in 1..Len(written)
            BY <4>4, <3>2, <1>0, DocumentsAreStretches
          <5>2. written'[k - 1] = written[Len(written)]
            BY <5>1, <2>4
          <5>3. written'[k].to <= End'
            BY <4>1, <2>3, <2>5, <2>2, <1>0
          <5> QED BY <5>1, <5>2, <5>3, <4>1, <4>2, <2>3
        <4> QED BY <4>3, <4>4
      <3> QED BY <3>1, <3>2, <2>4, <1>0
    <2>8. \A i, j \in 1..Len(written') : i < j => written'[i].to <= written'[j].from
      <3> SUFFICES ASSUME NEW i \in 1..Len(written'), NEW j \in 1..Len(written'), i < j
                   PROVE  written'[i].to <= written'[j].from
        OBVIOUS
      <3>1. i \in 1..Len(written) /\ written'[i] = written[i]
        BY <2>4, <1>0
      <3>2. CASE j \in 1..Len(written)
        BY <3>1, <3>2, <2>4 DEF Layout
      <3>3. CASE j = Len(written) + 1
        <4>1. written'[j].from = End
          BY <3>3, <2>4, <2>3
        <4>2. written[i].to <= End
          BY <3>1 DEF Layout
        <4>3. written'[i].to = written[i].to
          BY <3>1
        <4> QED BY <4>1, <4>2, <4>3
      <3>4. j \in 1..Len(written) \/ j = Len(written) + 1
        <4>1. Len(written') = Len(written) + 1
          BY <2>4
        <4> QED BY <4>1, <1>0
      <3> QED BY <3>2, <3>3, <3>4
    <2>9. Layout'
      BY <2>7, <2>8 DEF Layout
    <2> QED
      BY <2>4, <2>6, <2>9, <1>0, <1>1 DEF write_message
  <1>2. CASE ~write_message
    <2>1. /\ UNCHANGED <<written, received, offset, first, handed, status>>
          /\ sent' \in Nat
          /\ received <= sent' /\ sent' <= End
          /\ peer' \in {"open", "closed", "reset"}
      <3>1. received \in 0..sent /\ sent \in 0..End /\ peer \in {"open", "closed", "reset"}
        BY DEF StreamTypeOK
      <3>2. CASE Transmit
        BY <3>1, <3>2, <1>0 DEF Transmit
      <3>3. CASE Close
        BY <3>1, <3>3, <1>0 DEF Close
      <3>4. CASE Reset
        BY <3>1, <3>4, <1>0 DEF Reset
      <3> QED BY <3>2, <3>3, <3>4, <1>2 DEF Environment
    <2>2. End' = End
      BY <2>1 DEF End
    <2>3. sent' \in 0..End' /\ received' \in 0..sent'
      <3>1. received \in Nat
        BY DEF StreamTypeOK
      <3> QED BY <2>1, <2>2, <3>1, <1>0
    <2>4. StreamTypeOK'
      BY <2>1, <2>3 DEF StreamTypeOK
    <2>5. Layout'
      BY <2>1, <2>2 DEF Layout
    <2> QED
      BY <2>1, <2>4, <2>5, <1>0
  <1> QED
    BY <1>1, <1>2

\* Behind the documents that were read lies the next one, and nothing else begins
\* there; or nothing more was written.
LEMMA NextDocument ==
  ASSUME Framing
  PROVE  /\ Len(handed) \in Nat
         /\ first \in Nat
         /\ Len(handed) = Len(written) => first = End
         /\ Len(handed) < Len(written) =>
              /\ written[Len(handed) + 1] \in Stretch
              /\ written[Len(handed) + 1].from = first
              /\ SizeFields(first) = {written[Len(handed) + 1].to - first}
              /\ written[Len(handed) + 1].to - first \in Sizes
  <1> DEFINE K == Len(handed)
  <1>00. StreamTypeOK /\ Layout /\ Aligned /\ handed \in Seq(Stretch)
    BY DEF Framing, TypeOK
  <1>0. /\ \A k \in 1..Len(written) :
             /\ written[k] \in Stretch
             /\ written[k].from \in Nat
             /\ written[k].to \in Nat
        /\ Len(written) \in Nat
        /\ End \in Nat
        /\ written # <<>> => End = written[Len(written)].to /\ Len(written) > 0
        /\ written = <<>> => End = 0 /\ Len(written) = 0
    BY <1>00, DocumentsAreStretches
  <1>1. K \in Nat /\ K <= Len(written)
    BY <1>00 DEF Aligned
  <1>2. first = IF K = 0 THEN 0 ELSE written[K].to
    BY <1>00 DEF Aligned, Boundary
  <1> HIDE DEF K
  <1>3. first \in Nat
    BY <1>0, <1>1, <1>2
  <1>4. K = Len(written) => first = End
    BY <1>0, <1>1, <1>2
  <1>5. ASSUME K < Len(written)
        PROVE  /\ written[K + 1] \in Stretch
               /\ written[K + 1].from = first
               /\ SizeFields(first) = {written[K + 1].to - first}
               /\ written[K + 1].to - first \in Sizes
    <2>1. K + 1 \in 1..Len(written) /\ (K # 0 => K \in 1..Len(written))
      BY <1>5, <1>1, <1>0
    <2>2. written[K + 1].from = first /\ written[K + 1].to - first \in Sizes
      <3>1. /\ written[K + 1].to - written[K + 1].from \in Sizes
            /\ written[K + 1].from = IF K + 1 = 1 THEN 0 ELSE written[K + 1 - 1].to
        BY <2>1, <1>00 DEF Layout
      <3>2. K + 1 - 1 = K /\ (K + 1 = 1 <=> K = 0)
        BY <1>1
      <3> QED BY <3>1, <3>2, <1>2
    <2>3. ASSUME NEW k \in 1..Len(written), written[k].from = first
          PROVE  k = K + 1
      <3>1. \A j \in 1..Len(written) : written[j].from < written[j].to
        <4> SUFFICES ASSUME NEW j \in 1..Len(written)
                     PROVE  written[j].from < written[j].to
          OBVIOUS
        <4>1. written[j].to - written[j].from \in Sizes
          BY <1>00 DEF Layout
        <4>2. written[j].to - written[j].from > 0
          <5>1. \A size \in Sizes : size \in Nat /\ Header < size /\ Header \in Nat
            BY StreamAssumption
          <5> QED BY <4>1, <5>1
        <4> QED BY <4>2, <1>0
      <3>2. ASSUME k < K + 1
            PROVE  FALSE
        <4>1. written[k].to <= written[K + 1].from
          BY <3>2, <2>1, <1>00 DEF Layout
        <4> QED BY <4>1, <3>1, <2>2, <2>3, <1>0, <1>3
      <3>3. ASSUME K + 1 < k
            PROVE  FALSE
        <4>1. written[K + 1].to <= written[k].from
          BY <3>3, <2>1, <1>00 DEF Layout
        <4> QED BY <4>1, <3>1, <2>1, <2>2, <2>3, <1>0, <1>3
      <3> QED BY <3>2, <3>3, <2>1, <1>0, <1>1
    <2>4. {k \in 1..Len(written) : written[k].from = first} = {K + 1}
      BY <2>1, <2>2, <2>3
    <2> QED BY <2>1, <2>2, <2>4, <1>0 DEF SizeFields
  <1> QED
    BY <1>1, <1>3, <1>4, <1>5 DEF K

(* What both readers rely on *)

LEMMA FramingInit ==
  ASSUME Init
  PROVE  Framing
<1> USE StreamAssumption
<1>1. written = <<>> /\ handed = <<>> /\ sent = 0 /\ received = 0 /\ offset = 0 /\ first = 0
        /\ peer = "open" /\ status = "reading"
  BY DEF Init
<1>2. End = 0 /\ Len(written) = 0 /\ Len(handed) = 0
  BY <1>1 DEF End
<1>3. TypeOK
  BY <1>1, <1>2 DEF TypeOK, StreamTypeOK
<1>4. Layout
  BY <1>2 DEF Layout
<1>5. Aligned
  BY <1>1, <1>2 DEF Aligned, Boundary
<1> QED
  BY <1>3, <1>4, <1>5 DEF Framing

\* The facts about the numbers in a state of Framing.
LEMMA FramingNumbers ==
  ASSUME Framing
  PROVE  /\ sent \in Nat /\ sent <= End /\ End \in Nat
         /\ received \in Nat /\ received <= sent
         /\ offset \in Nat /\ offset <= Cap
         /\ first \in Nat /\ first <= received
         /\ handed \in Seq(Stretch)
         /\ written \in Seq(Stretch)
         /\ Len(handed) \in Nat
         /\ Len(written) \in Nat
         /\ Len(handed) <= Len(written)
         /\ Cap \in Nat /\ Header \in Nat /\ Header > 0 /\ Header <= Cap
<1> USE StreamAssumption
<1>1. StreamTypeOK
  BY DEF Framing, TypeOK
<1>2. End \in Nat /\ Len(written) \in Nat
  BY <1>1, DocumentsAreStretches
<1>3. sent \in 0..End /\ received \in 0..sent /\ offset \in 0..Cap /\ written \in Seq(Stretch)
  BY <1>1 DEF StreamTypeOK
<1>4. first \in 0..received /\ handed \in Seq(Stretch)
  BY DEF Framing, TypeOK
<1>5. Len(handed) <= Len(written)
  BY DEF Framing, Aligned
<1> QED
  BY <1>2, <1>3, <1>4, <1>5

\* The writing end and the network keep the invariant.
LEMMA EnvironmentKeepsFraming ==
  ASSUME Framing, Environment
  PROVE  Framing'
<1>0. /\ TypeOK /\ StreamTypeOK /\ Layout /\ Aligned
      /\ handed \in Seq(Stretch) /\ Len(handed) \in Nat
  BY DEF Framing, TypeOK
<1>1. /\ StreamTypeOK'
      /\ Layout'
      /\ Len(written) <= Len(written')
      /\ \A k \in 1..Len(written) : written'[k] = written[k]
      /\ UNCHANGED <<received, offset, first, handed, status>>
  BY <1>0, EnvironmentKeepsLayout
<1>2. TypeOK'
  BY <1>1, <1>0 DEF TypeOK
<1>3. Len(written) \in Nat /\ Len(written') \in Nat
  BY <1>1, <1>0 DEF StreamTypeOK
<1>4. Aligned'
  <2>1. /\ Len(handed) <= Len(written)
        /\ \A k \in 1..Len(handed) : handed[k] = written[k]
        /\ first = IF Len(handed) = 0 THEN 0 ELSE written[Len(handed)].to
    BY <1>0 DEF Aligned, Boundary
  <2>2. \A k \in 1..Len(handed) : k \in 1..Len(written)
    BY <2>1, <1>3, <1>0
  <2>3. \A k \in 1..Len(handed) : handed[k] = written'[k]
    BY <2>1, <2>2, <1>1
  <2>4. Len(handed) # 0 => Len(handed) \in 1..Len(written)
    BY <2>1, <1>3, <1>0
  <2>5. first = IF Len(handed) = 0 THEN 0 ELSE written'[Len(handed)].to
    BY <2>1, <2>4, <1>1
  <2>6. Len(handed) <= Len(written')
    BY <2>1, <1>1, <1>3, <1>0
  <2> QED BY <2>3, <2>5, <2>6, <1>1 DEF Aligned, Boundary
<1> QED BY <1>1, <1>2, <1>4 DEF Framing

\* So does a read that returns the next document,
LEMMA NextReturned ==
  ASSUME Framing, UNCHANGED <<written, sent, peer, status>>,
         Len(handed) < Len(written),
         handed' = Append(handed, written[Len(handed) + 1]),
         first' = written[Len(handed) + 1].to,
         first' \in 0..received', received' \in 0..sent, offset' \in 0..Cap
  PROVE  Framing' /\ handed' \in Seq(Stretch) /\ Len(handed') = Len(handed) + 1
<1>1. /\ StreamTypeOK /\ Layout /\ Aligned /\ handed \in Seq(Stretch)
      /\ written \in Seq(Stretch) /\ Len(handed) \in Nat /\ Len(written) \in Nat
  BY FramingNumbers DEF Framing, TypeOK
<1>2. Len(handed) + 1 \in 1..Len(written) /\ written[Len(handed) + 1] \in Stretch
  BY <1>1
<1>3. /\ handed' \in Seq(Stretch)
      /\ Len(handed') = Len(handed) + 1
      /\ \A k \in 1..Len(handed) : handed'[k] = handed[k]
      /\ handed'[Len(handed) + 1] = written[Len(handed) + 1]
  BY <1>1, <1>2
<1>4. End' = End
  BY DEF End
<1>5. TypeOK'
  <2>1. sent \in 0..End /\ peer \in {"open", "closed", "reset"}
        /\ status \in {"reading", "refused", "nothing"}
    BY DEF Framing, TypeOK, StreamTypeOK
  <2> QED BY <2>1, <1>1, <1>3, <1>4 DEF TypeOK, StreamTypeOK
<1>6. Layout'
  BY <1>1, <1>4 DEF Layout
<1>7. Aligned'
  <2>1. Len(handed') <= Len(written')
    BY <1>1, <1>3
  <2>2. \A k \in 1..Len(handed') : handed'[k] = written'[k]
    <3>1. \A k \in 1..Len(handed) : handed[k] = written[k]
      BY <1>1 DEF Aligned
    <3>2. \A k \in 1..Len(handed') : k \in 1..Len(handed) \/ k = Len(handed) + 1
      BY <1>1, <1>3
    <3> QED BY <3>1, <3>2, <1>3
  <2>3. Len(handed') # 0 /\ first' = written'[Len(handed')].to
    BY <1>1, <1>3
  <2> QED BY <2>1, <2>2, <2>3 DEF Aligned, Boundary
<1> QED BY <1>3, <1>5, <1>6, <1>7 DEF Framing

\* one that returns nothing yet,
LEMMA NothingReturned ==
  ASSUME Framing, UNCHANGED <<written, sent, peer, status, handed, first>>,
         received' \in received..sent, offset' \in 0..Cap
  PROVE  Framing'
<1>1. End' = End
  BY DEF End
<1>2. TypeOK'
  <2>1. first' \in 0..received' /\ received' \in 0..sent'
    BY FramingNumbers
  <2> QED BY <2>1, <1>1 DEF Framing, TypeOK, StreamTypeOK
<1>3. Layout' /\ Aligned'
  BY <1>1 DEF Framing, Layout, Aligned, Boundary
<1> QED BY <1>2, <1>3 DEF Framing

\* and an error.
LEMMA OnlyTheStatus ==
  ASSUME Framing, UNCHANGED <<written, sent, peer, received, offset, first, handed>>,
         status' \in {"reading", "refused", "nothing"}
  PROVE  Framing'
<1>1. End' = End
  BY DEF End
<1> QED BY <1>1 DEF Framing, TypeOK, StreamTypeOK, Layout, Aligned, Boundary

\* A refusal uses up the cap.
LEMMA RefusedAtTheCap ==
  ASSUME Framing, read_refused
  PROVE  offset = Cap
<1>1. offset \in 0..Cap /\ Cap \in Nat
  BY StreamAssumption DEF Framing, TypeOK, StreamTypeOK
<1> QED BY <1>1 DEF read_refused, space_left

\* To write a document is to put it into the FIFO.
LEMMA EnvironmentIsFifo ==
  ASSUME Framing, Environment
  PROVE  [Fifo!Next]_Fifo!vars
<1>1. CASE write_message
  <2>1. PICK size \in Sizes :
          written' = Append(written, [from |-> End, to |-> End + size])
    BY <1>1 DEF write_message
  <2>2. written \in Seq(Stretch) /\ End + size \in Nat /\ End \in Nat
    <3>1. StreamTypeOK
      BY DEF Framing, TypeOK
    <3>2. End \in Nat
      BY <3>1, DocumentsAreStretches
    <3>3. size \in Nat
      BY StreamAssumption
    <3> QED BY <3>1, <3>2, <3>3 DEF StreamTypeOK
  <2> DEFINE document == [from |-> End, to |-> End + size]
  <2>3. document \in Stretch
    BY <2>2 DEF Stretch
  <2>4. written' = Append(written, document)
    BY <2>1
  <2> HIDE DEF document
  <2>5. written' # <<>> /\ written'[Len(written')] = document
    BY <2>2, <2>3, <2>4
  <2>6. written' = Append(written, written'[Len(written')])
    BY <2>4, <2>5
  <2> QED BY <2>5, <2>6, <1>1 DEF write_message, Fifo!Next, Fifo!Write
<1>2. CASE ~write_message
  BY <1>2 DEF Environment, Transmit, Close, Reset, Fifo!vars
<1> QED BY <1>1, <1>2

\* What a step leaves to be read has at least one byte.
LEMMA NextAfterStep ==
  ASSUME Framing', (Len(handed) < Len(written))'
  PROVE  /\ first' \in Nat
         /\ written'[Len(handed') + 1].to \in Nat
         /\ first' < written'[Len(handed') + 1].to
<1>1. /\ Layout' /\ handed' \in Seq(Stretch) /\ written' \in Seq(Stretch)
      /\ first' \in 0..received' /\ received' \in 0..sent'
      /\ first' = IF Len(handed') = 0 THEN 0 ELSE written'[Len(handed')].to
  BY DEF Framing, TypeOK, StreamTypeOK, Aligned, Boundary
<1> DEFINE k == Len(handed') + 1
<1>2. k \in 1..Len(written') /\ k - 1 = Len(handed') /\ (k = 1 <=> Len(handed') = 0)
  BY <1>1
<1>3. written'[k] \in Stretch
  BY <1>1, <1>2
<1> HIDE DEF k
<1>4. /\ written'[k].to - written'[k].from \in Sizes
      /\ written'[k].from = IF k = 1 THEN 0 ELSE written'[k - 1].to
  BY <1>1, <1>2 DEF Layout
<1>5. written'[k].from = first'
  BY <1>1, <1>2, <1>4
<1>6. written'[k].from \in Nat /\ written'[k].to \in Nat
  BY <1>3 DEF Stretch
<1>7. written'[k].to - written'[k].from > 0
  BY <1>4, SizesArePositive
<1> QED BY <1>5, <1>6, <1>7 DEF k

(* Reader *)

\* What one read of read_message does: it takes in a piece of the next document,
\* and returns the document with its last piece.
LEMMA ReadStep ==
  ASSUME ReaderInvariant, read_message
  PROVE  /\ UNCHANGED <<written, sent, peer, status>>
         /\ Len(handed) < Len(written)
         /\ received' \in Nat /\ received' <= sent
         /\ \/ /\ handed' = Append(handed, written[Len(handed) + 1])
               /\ received' = written[Len(handed) + 1].to
               /\ first' = received'
               /\ offset' = 0
               /\ written[Len(handed) + 1].from = first
               /\ received' - first <= Cap
            \/ /\ UNCHANGED <<handed, first>>
               /\ received' < written[Len(handed) + 1].to
               /\ offset' = received' - first
               /\ offset' \in 0..Cap
               /\ received <= received'
<1> USE StreamAssumption
<1>1. PICK size \in SizeFields(first) : \E n \in Portions(Allowed(size)) :
        received' = received + n /\ advance(size, n)
  BY DEF read_message
<1>2. PICK n \in Portions(Allowed(size)) : received' = received + n /\ advance(size, n)
  BY <1>1
<1>3. UNCHANGED <<written, sent, peer, status>>
  BY DEF read_message
<1>4. /\ sent \in Nat /\ sent <= End /\ End \in Nat
      /\ received \in Nat /\ received <= sent
      /\ offset \in Nat /\ offset <= Cap
      /\ offset = received - first
      /\ first \in Nat /\ first <= received
      /\ handed \in Seq(Stretch)
      /\ Len(handed) \in Nat
      /\ Len(written) \in Nat
      /\ Len(handed) <= Len(written)
      /\ Cap \in Nat /\ Header \in Nat /\ Header > 0 /\ Header <= Cap
  BY FramingNumbers DEF ReaderInvariant, ReaderWithinCap
<1>5. /\ Len(handed) = Len(written) => first = End
      /\ Len(handed) < Len(written) =>
           /\ written[Len(handed) + 1] \in Stretch
           /\ written[Len(handed) + 1].from = first
           /\ SizeFields(first) = {written[Len(handed) + 1].to - first}
           /\ written[Len(handed) + 1].to - first \in Sizes
  BY NextDocument DEF ReaderInvariant
<1>6. n \in 1..Allowed(size) /\ received + n <= sent
  BY <1>2 DEF Portions
<1>7. Len(handed) < Len(written)
  <2>1. n > 0
    BY <1>6
  <2>2. Len(handed) # Len(written)
    BY <2>1, <1>4, <1>5, <1>6
  <2> QED BY <2>2, <1>4
<1>8. /\ size = written[Len(handed) + 1].to - first
      /\ size \in Nat /\ Header < size
      /\ written[Len(handed) + 1] \in Stretch
      /\ written[Len(handed) + 1].from = first
      /\ written[Len(handed) + 1].to = first + size
  <2>1. /\ size = written[Len(handed) + 1].to - first
        /\ size \in Sizes
        /\ written[Len(handed) + 1] \in Stretch
        /\ written[Len(handed) + 1].from = first
    BY <1>1, <1>5, <1>7
  <2>2. written[Len(handed) + 1].to \in Nat
    BY <2>1 DEF Stretch
  <2>3. size \in Nat /\ Header < size
    BY <2>1
  <2> QED BY <2>1, <2>2, <2>3, <1>4
<1>9. received < first + size
  BY <1>7, <1>8 DEF ReaderInvariant, ReaderWithinCap
<1>10. Wanted(size) \in Nat /\ n <= Wanted(size) /\ n <= Cap - offset /\ n \in Nat /\ n > 0
  <2>1. Wanted(size) \in Nat
    BY <1>4, <1>8, <1>9 DEF Wanted
  <2>2. Allowed(size) <= Wanted(size) /\ Allowed(size) <= Cap - offset /\ Allowed(size) \in Nat
    BY <2>1, <1>4 DEF Allowed, space_left
  <2> QED BY <2>1, <2>2, <1>4, <1>6
<1>11. CASE n = Wanted(size) /\ received - first >= Header
  <2>1. /\ handed' = Append(handed, [from |-> first, to |-> received + n])
        /\ first' = received + n
        /\ offset' = 0
    BY <1>11, <1>2, <1>4 DEF advance
  <2>2. n = size - (received - first)
    BY <1>11, <1>4 DEF Wanted
  <2>3. received + n = first + size
    BY <2>2, <1>4, <1>8
  <2>4. written[Len(handed) + 1] = [from |-> first, to |-> received + n]
    BY <2>3, <1>8 DEF Stretch
  <2>5. (received + n) - first <= Cap
    BY <1>4, <1>10
  <2> QED
    BY <2>1, <2>3, <2>4, <2>5, <1>2, <1>3, <1>4, <1>6, <1>7, <1>8, <1>10
<1>12. CASE n # Wanted(size) \/ received - first < Header
  <2>1. UNCHANGED <<handed, first>> /\ offset' = offset + n
    BY <1>12, <1>2, <1>4 DEF advance
  <2>2. received + n < first + size
    <3>0. received \in Nat /\ first \in Nat /\ size \in Nat /\ n \in Nat
          /\ Header \in Nat /\ Header < size
      BY <1>4, <1>8, <1>10
    <3>1. CASE received - first < Header
      <4>1. n <= Header - (received - first)
        BY <3>1, <1>10 DEF Wanted
      <4> QED BY <4>1, <3>0
    <3>2. CASE ~(received - first < Header)
      <4>1. n < size - (received - first)
        <5>1. Wanted(size) = size - (received - first) /\ n # Wanted(size)
          BY <3>2, <1>12, <1>4 DEF Wanted
        <5> QED BY <5>1, <1>10, <3>0
      <4> QED BY <4>1, <3>0
    <3> QED BY <3>1, <3>2
  <2>3. offset' \in 0..Cap /\ offset' = (received + n) - first
    BY <2>1, <1>4, <1>10
  <2>4. received' \in Nat /\ received' <= sent /\ received <= received'
    BY <1>2, <1>4, <1>6, <1>10
  <2>5. received' < written[Len(handed) + 1].to /\ offset' = received' - first
    BY <2>2, <2>3, <1>2, <1>8
  <2> QED
    BY <2>1, <2>3, <2>4, <2>5, <1>3, <1>7
<1> QED
  BY <1>11, <1>12, <1>4

LEMMA ReaderInit ==
  ASSUME Init
  PROVE  ReaderInvariant
<1>1. Framing
  BY FramingInit
<1>2. Len(written) = 0 /\ Len(handed) = 0
  BY DEF Init
<1> QED BY <1>1, <1>2 DEF ReaderInvariant, ReaderWithinCap, Init

\* The invariant of the reader is kept by every step.
LEMMA ReaderStep ==
  ASSUME ReaderInvariant, [ReaderNext]_vars
  PROVE  ReaderInvariant'
<1>0. Framing /\ ReaderWithinCap
  BY DEF ReaderInvariant
<1>n. /\ sent \in Nat /\ sent <= End /\ End \in Nat
      /\ received \in Nat /\ received <= sent
      /\ first \in Nat /\ first <= received
      /\ written \in Seq(Stretch) /\ Len(written) \in Nat
      /\ handed \in Seq(Stretch) /\ Len(handed) \in Nat
      /\ Len(handed) <= Len(written)
      /\ Cap \in Nat
  BY <1>0, FramingNumbers
<1>1. CASE UNCHANGED vars
  <2>1. End' = End
    BY <1>1 DEF vars, End
  <2> QED BY <2>1, <1>1, <1>0 DEF vars, ReaderInvariant, Framing, TypeOK, StreamTypeOK, Layout,
                                  Aligned, Boundary, ReaderWithinCap
<1>2. CASE Environment
  <2>1. Framing'
    BY <1>0, <1>2, EnvironmentKeepsFraming
  <2>2. /\ Len(written) <= Len(written')
        /\ \A k \in 1..Len(written) : written'[k] = written[k]
        /\ UNCHANGED <<received, offset, first, handed, status>>
    BY <1>0, <1>2, EnvironmentKeepsLayout DEF Framing, TypeOK
  <2>3. ASSUME Len(handed) < Len(written')
        PROVE  received < written'[Len(handed) + 1].to
    <3>1. CASE Len(handed) < Len(written)
      <4>1. received < written[Len(handed) + 1].to
        BY <3>1, <1>0 DEF ReaderWithinCap
      <4>2. Len(handed) + 1 \in 1..Len(written)
        BY <3>1, <1>n
      <4> QED BY <4>1, <4>2, <2>2
    <3>2. CASE ~(Len(handed) < Len(written))
      \* The document has only now been written, and nothing of it has arrived.
      <4>1. received <= first
        <5>1. Len(handed) = Len(written)
          BY <3>2, <1>n
        <5>2. first = End
          BY <5>1, <1>0, NextDocument
        <5> QED BY <5>2, <1>n
      <4>2. (Len(handed) < Len(written))'
        BY <2>2, <2>3
      <4>3. first < written'[Len(handed) + 1].to /\ written'[Len(handed) + 1].to \in Nat
        BY <4>2, <2>1, <2>2, NextAfterStep
      <4> QED BY <4>1, <4>3, <1>n
    <3> QED BY <3>1, <3>2
  <2>4. ReaderWithinCap'
    BY <2>2, <2>3, <1>0 DEF ReaderWithinCap
  <2> QED BY <2>1, <2>4 DEF ReaderInvariant
<1>3. CASE read_message
  <2>1. /\ UNCHANGED <<written, sent, peer, status>>
        /\ Len(handed) < Len(written)
        /\ received' \in Nat /\ received' <= sent
        /\ \/ /\ handed' = Append(handed, written[Len(handed) + 1])
              /\ received' = written[Len(handed) + 1].to
              /\ first' = received'
              /\ offset' = 0
           \/ /\ UNCHANGED <<handed, first>>
              /\ received' < written[Len(handed) + 1].to
              /\ offset' = received' - first
              /\ offset' \in 0..Cap
              /\ received <= received'
    BY <1>3, ReadStep
  <2>2. status' # "refused"
    BY <2>1, <1>3 DEF read_message
  <2>3. CASE /\ handed' = Append(handed, written[Len(handed) + 1])
             /\ received' = written[Len(handed) + 1].to
             /\ first' = received'
             /\ offset' = 0
    <3>1. Framing' /\ Len(handed') = Len(handed) + 1
      <4>1. /\ first' = written[Len(handed) + 1].to
            /\ first' \in 0..received' /\ received' \in 0..sent /\ offset' \in 0..Cap
        BY <2>1, <2>3, <1>n
      <4> QED BY <4>1, <2>1, <2>3, <1>0, NextReturned
    <3>2. ASSUME Len(handed') < Len(written')
          PROVE  received' < written'[Len(handed') + 1].to
      BY <3>1, <3>2, <2>3, NextAfterStep
    <3> QED BY <3>1, <3>2, <2>1, <2>2, <2>3 DEF ReaderInvariant, ReaderWithinCap
  <2>4. CASE /\ UNCHANGED <<handed, first>>
             /\ received' < written[Len(handed) + 1].to
             /\ offset' = received' - first
             /\ offset' \in 0..Cap
             /\ received <= received'
    <3>1. received' \in received..sent
      BY <2>1, <2>4, <1>n
    <3>2. Framing'
      BY <3>1, <2>1, <2>4, <1>0, NothingReturned
    <3> QED BY <3>2, <2>1, <2>2, <2>4 DEF ReaderInvariant, ReaderWithinCap
  <2> QED BY <2>1, <2>3, <2>4
<1>4. CASE read_refused \/ read_end
  <2>1. /\ UNCHANGED <<written, sent, peer, received, offset, first, handed>>
        /\ status' \in {"refused", "nothing"}
    BY <1>4 DEF read_refused, read_end
  <2>2. Framing'
    BY <2>1, <1>0, OnlyTheStatus
  <2>3. status' = "refused" => offset = Cap
    <3>1. CASE read_refused
      BY <3>1, <1>0, RefusedAtTheCap
    <3>2. CASE read_end
      BY <3>2 DEF read_end
    <3> QED BY <3>1, <3>2, <1>4
  <2> QED BY <2>1, <2>2, <2>3, <1>0 DEF ReaderInvariant, ReaderWithinCap
<1> QED
  BY <1>1, <1>2, <1>3, <1>4 DEF ReaderNext, Read

THEOREM ReaderFraming == ReaderSpec => []ReaderInvariant
<1>1. Init => ReaderInvariant
  BY ReaderInit
<1>2. ReaderInvariant /\ [ReaderNext]_vars => ReaderInvariant'
  BY ReaderStep
<1> QED
  BY <1>1, <1>2, PTL DEF ReaderSpec

\* Every variable of the reader stays in its type.
THEOREM ReaderTypeCorrect == ReaderSpec => []TypeOK
<1>1. ReaderInvariant => TypeOK
  BY DEF ReaderInvariant, Framing
<1> QED
  BY <1>1, ReaderFraming, PTL

\* A document within the cap is never refused by the server.
THEOREM ReaderRefusesOnlyOversized == ReaderSpec => []NeverRefused
<1>1. ReaderInvariant => NeverRefused
  <2> SUFFICES ASSUME ReaderInvariant, status = "refused"
               PROVE  /\ Len(handed) < Len(written)
                      /\ written[Len(handed) + 1].to - written[Len(handed) + 1].from > Cap
    BY DEF NeverRefused
  <2>1. Framing /\ received - first = Cap
    BY DEF ReaderInvariant, ReaderWithinCap
  <2>2. /\ sent \in Nat /\ sent <= End /\ End \in Nat
        /\ received \in Nat /\ received <= sent /\ first \in Nat
        /\ Len(handed) \in Nat /\ Len(written) \in Nat /\ Len(handed) <= Len(written)
        /\ Cap \in Nat /\ Cap > 0
    BY <2>1, FramingNumbers
  <2>3. Len(handed) < Len(written)
    <3>1. Len(handed) = Len(written) => first = End
      BY <2>1, NextDocument
    <3> QED BY <3>1, <2>1, <2>2
  <2>4. /\ written[Len(handed) + 1] \in Stretch
        /\ written[Len(handed) + 1].from = first
        /\ received < written[Len(handed) + 1].to
    BY <2>1, <2>3, NextDocument DEF ReaderInvariant, ReaderWithinCap
  <2>5. written[Len(handed) + 1].to \in Nat
    BY <2>4 DEF Stretch
  <2> QED BY <2>1, <2>2, <2>3, <2>4, <2>5
<1> QED
  BY <1>1, ReaderFraming, PTL

\* The server accepts no document beyond the cap, whatever it is sent.
THEOREM ReaderEnforcesTheCap == ReaderSpec => []NothingOversizedIsRead
<1> DEFINE Safe == ReaderInvariant /\ NothingOversizedIsRead
<1>1. Init => Safe
  BY ReaderInit DEF Init, NothingOversizedIsRead
<1>2. Safe /\ [ReaderNext]_vars => Safe'
  <2> SUFFICES ASSUME Safe, [ReaderNext]_vars
               PROVE  Safe'
    OBVIOUS
  <2>1. ReaderInvariant'
    BY ReaderStep
  <2>2. NothingOversizedIsRead'
    <3>1. CASE UNCHANGED handed
      BY <3>1 DEF NothingOversizedIsRead
    <3>2. CASE handed' # handed
      <4>1. read_message
        <5>1. ~Environment
          BY <3>2, EnvironmentKeepsLayout DEF ReaderInvariant, Framing, TypeOK
        <5> QED BY <5>1, <3>2 DEF ReaderNext, Read, read_refused, read_end, vars
      <4>2. /\ handed' = Append(handed, written[Len(handed) + 1])
            /\ received' = written[Len(handed) + 1].to
            /\ written[Len(handed) + 1].from = first
            /\ received' - first <= Cap
            /\ Len(handed) < Len(written)
        BY <4>1, <3>2, ReadStep
      <4>3. handed \in Seq(Stretch) /\ written[Len(handed) + 1] \in Stretch
        BY <4>2, FramingNumbers DEF ReaderInvariant
      <4>4. /\ Len(handed') = Len(handed) + 1
            /\ Len(handed) \in Nat
            /\ \A k \in 1..Len(handed) : handed'[k] = handed[k]
            /\ handed'[Len(handed) + 1] = written[Len(handed) + 1]
        BY <4>2, <4>3
      <4>5. \A k \in 1..Len(handed') : k \in 1..Len(handed) \/ k = Len(handed) + 1
        BY <4>4
      <4> QED BY <4>2, <4>4, <4>5 DEF NothingOversizedIsRead
    <3> QED BY <3>1, <3>2
  <2> QED BY <2>1, <2>2
<1>3. Safe => NothingOversizedIsRead
  OBVIOUS
<1> QED
  BY <1>1, <1>2, <1>3, PTL DEF ReaderSpec

\* The reader implements the FIFO: documents are returned whole and in the order
\* in which they were written.
THEOREM ReaderIsAFifo == ReaderSpec => ImplementsFifo
<1>1. Init => Fifo!Init
  BY DEF Init, Fifo!Init
<1>2. ReaderInvariant /\ [ReaderNext]_vars => [Fifo!Next]_Fifo!vars
  <2> SUFFICES ASSUME ReaderInvariant, [ReaderNext]_vars
               PROVE  [Fifo!Next]_Fifo!vars
    OBVIOUS
  <2>1. CASE Environment
    BY <2>1, EnvironmentIsFifo DEF ReaderInvariant
  <2>2. CASE read_message
    <3>1. /\ UNCHANGED written
          /\ \/ /\ Len(handed) < Len(written)
                /\ handed' = Append(handed, written[Len(handed) + 1])
             \/ UNCHANGED handed
      BY <2>2, ReadStep
    <3> QED BY <3>1 DEF Fifo!Next, Fifo!Read, Fifo!vars
  <2>3. CASE read_refused \/ read_end \/ UNCHANGED vars
    BY <2>3 DEF read_refused, read_end, vars, Fifo!vars
  <2> QED
    BY <2>1, <2>2, <2>3 DEF ReaderNext, Read
<1> QED
  BY <1>1, <1>2, ReaderFraming, PTL DEF ReaderSpec, ImplementsFifo, Fifo!Spec

(* Scanner *)

\* What one call of scan_message does: it takes in some bytes, and either returns
\* the next document or leaves a buffer that does not hold all of it.
LEMMA ScanStep ==
  ASSUME ScannerInvariant, scan_message
  PROVE  /\ UNCHANGED <<written, sent, peer, status>>
         /\ received' \in received..sent
         /\ \/ /\ Len(handed) < Len(written)
               /\ handed' = Append(handed, written[Len(handed) + 1])
               /\ first' = written[Len(handed) + 1].to
               /\ first' \in 0..received'
               /\ offset' = 0
            \/ /\ UNCHANGED <<handed, first>>
               /\ offset' \in Nat
               /\ offset' <= received' - first
               /\ offset' <= Cap
               /\ offset' > 0 => /\ Len(handed) < Len(written)
                                 /\ received' < written[Len(handed) + 1].to
<1> USE StreamAssumption
<1>1. PICK n \in Portion : \E s \in SizeFields(first) :
        received' = received + n /\ parse(s, received + n)
  BY DEF scan_message
<1>2. PICK size \in SizeFields(first) : received' = received + n /\ parse(size, received + n)
  BY <1>1
<1>3. /\ UNCHANGED <<written, sent, peer, status>>
      /\ space_left > 0
  BY DEF scan_message
<1>4. /\ sent \in Nat
      /\ received \in Nat /\ received <= sent
      /\ offset \in Nat /\ offset <= Cap
      /\ first \in Nat /\ first <= received
      /\ sent <= End /\ End \in Nat
      /\ handed \in Seq(Stretch)
      /\ Cap \in Nat /\ Header \in Nat /\ Header > 0 /\ Header <= Cap
  BY FramingNumbers DEF ScannerInvariant
<1>5. n \in Nat /\ n <= Cap - offset /\ received + n <= sent
  <2>1. CASE received < sent
    BY <2>1, <1>3, <1>4 DEF Portion, Portions, space_left
  <2>2. CASE ~(received < sent)
    BY <2>2, <1>3, <1>4 DEF Portion, space_left
  <2> QED BY <2>1, <2>2
<1>6. received' \in received..sent
  BY <1>2, <1>4, <1>5
<1>7. /\ Len(handed) \in Nat
      /\ first \in Nat
      /\ Len(handed) = Len(written) => first = End
      /\ Len(handed) < Len(written) =>
           /\ written[Len(handed) + 1] \in Stretch
           /\ written[Len(handed) + 1].from = first
           /\ SizeFields(first) = {written[Len(handed) + 1].to - first}
           /\ written[Len(handed) + 1].to - first \in Sizes
  BY NextDocument DEF ScannerInvariant
<1>8. Len(handed) <= Len(written) /\ Len(written) \in Nat
  BY FramingNumbers DEF ScannerInvariant
<1>9. offset <= received - first
  BY DEF ScannerInvariant, ScannerWithinCap
<1>10. CASE Parsable(size, received + n)
  <2>1. (received + n) - first >= Header /\ (received + n) - first >= size
    BY <1>10 DEF Parsable
  <2>2. Len(handed) < Len(written)
    <3>1. Len(handed) # Len(written)
      BY <2>1, <1>7, <1>4, <1>5
    <3> QED BY <3>1, <1>8, <1>7
  <2>3. size = written[Len(handed) + 1].to - first
    BY <2>2, <1>7, <1>2
  <2>4. /\ handed' = Append(handed, [from |-> first, to |-> first + size])
        /\ first' = first + size
        /\ offset' = 0
    BY <1>10, <1>2 DEF parse
  <2>5. /\ written[Len(handed) + 1] = [from |-> first, to |-> first + size]
        /\ first + size = written[Len(handed) + 1].to
        /\ size \in Nat
    <3>1. /\ written[Len(handed) + 1] \in Stretch
          /\ written[Len(handed) + 1].from = first
          /\ size \in Sizes
      BY <2>2, <2>3, <1>7
    <3>2. written[Len(handed) + 1].to \in Nat
      BY <3>1 DEF Stretch
    <3>3. first + size = written[Len(handed) + 1].to
      BY <3>2, <2>3, <1>4
    <3> QED BY <3>1, <3>3 DEF Stretch
  <2>6. first' \in 0..received'
    BY <2>1, <2>4, <2>5, <1>2, <1>4, <1>5
  <2> QED
    BY <2>2, <2>4, <2>5, <2>6, <1>3, <1>6
<1>11. CASE ~Parsable(size, received + n)
  <2>1. /\ UNCHANGED <<handed, first>>
        /\ offset' = offset + ((received + n) - received)
    BY <1>11, <1>2 DEF parse
  <2>2. offset' = offset + n
    BY <2>1, <1>4, <1>5
  <2>3. offset' \in Nat /\ offset' <= Cap /\ offset' <= received' - first
    BY <2>2, <1>2, <1>4, <1>5, <1>9
  <2>4. ASSUME offset' > 0
        PROVE  Len(handed) < Len(written) /\ received' < written[Len(handed) + 1].to
    <3>1. Len(handed) < Len(written)
      <4>1. Len(handed) # Len(written)
        BY <2>4, <2>2, <1>4, <1>5, <1>7, <1>9
      <4> QED BY <4>1, <1>7, <1>8
    <3>2. /\ size \in Sizes
          /\ size = written[Len(handed) + 1].to - first
          /\ written[Len(handed) + 1].to \in Nat
      BY <3>1, <1>7, <1>2 DEF Stretch
    <3>3. size \in Nat /\ Header < size
      BY <3>2
    <3>4. (received + n) - first < size
      BY <1>11, <3>3, <1>4, <1>5 DEF Parsable
    <3> QED BY <3>1, <3>2, <3>4, <1>2, <1>4, <1>5
  <2> QED
    BY <2>1, <2>3, <2>4, <1>3, <1>6
<1> QED
  BY <1>10, <1>11

LEMMA ScannerInit ==
  ASSUME Init
  PROVE  ScannerInvariant
<1>1. Framing
  BY FramingInit
<1> QED BY <1>1 DEF ScannerInvariant, ScannerWithinCap, Init

\* The invariant of the scanner is kept by every step.
LEMMA ScannerStep ==
  ASSUME ScannerInvariant, [ScannerNext]_vars
  PROVE  ScannerInvariant'
<1>0. Framing /\ ScannerWithinCap
  BY DEF ScannerInvariant
<1>n. /\ sent \in Nat
      /\ received \in Nat /\ received <= sent
      /\ first \in Nat /\ first <= received
      /\ Len(written) \in Nat /\ Len(handed) \in Nat
      /\ Cap \in Nat /\ Cap > 0
  BY <1>0, FramingNumbers
<1>1. CASE UNCHANGED vars
  <2>1. End' = End
    BY <1>1 DEF vars, End
  <2> QED BY <2>1, <1>1, <1>0 DEF vars, ScannerInvariant, Framing, TypeOK, StreamTypeOK, Layout,
                                  Aligned, Boundary, ScannerWithinCap
<1>2. CASE Environment
  <2>1. Framing'
    BY <1>0, <1>2, EnvironmentKeepsFraming
  <2>2. /\ Len(written) <= Len(written') /\ Len(written') \in Nat
        /\ \A k \in 1..Len(written) : written'[k] = written[k]
        /\ UNCHANGED <<received, offset, first, handed, status>>
    BY <1>0, <1>2, EnvironmentKeepsLayout DEF Framing, TypeOK, StreamTypeOK
  <2>3. ASSUME offset > 0
        PROVE  Len(handed) < Len(written') /\ received < written'[Len(handed) + 1].to
    <3>1. Len(handed) < Len(written) /\ received < written[Len(handed) + 1].to
      BY <2>3, <1>0 DEF ScannerWithinCap
    <3>2. Len(handed) + 1 \in 1..Len(written)
      BY <3>1, <1>n
    <3> QED BY <3>1, <3>2, <2>2, <1>n
  <2> QED BY <2>1, <2>2, <2>3, <1>0 DEF ScannerInvariant, ScannerWithinCap
<1>3. CASE scan_message
  <2>1. /\ UNCHANGED <<written, sent, peer, status>>
        /\ received' \in received..sent
        /\ \/ /\ Len(handed) < Len(written)
              /\ handed' = Append(handed, written[Len(handed) + 1])
              /\ first' = written[Len(handed) + 1].to
              /\ first' \in 0..received'
              /\ offset' = 0
           \/ /\ UNCHANGED <<handed, first>>
              /\ offset' \in Nat
              /\ offset' <= received' - first
              /\ offset' <= Cap
              /\ offset' > 0 => /\ Len(handed) < Len(written)
                                /\ received' < written[Len(handed) + 1].to
    BY <1>3, ScanStep
  <2>2. status' # "refused"
    BY <2>1, <1>3 DEF scan_message
  <2>3. received' \in 0..sent /\ offset' \in 0..Cap
    BY <2>1, <1>n
  <2>4. CASE /\ Len(handed) < Len(written)
             /\ handed' = Append(handed, written[Len(handed) + 1])
             /\ first' = written[Len(handed) + 1].to
             /\ first' \in 0..received'
             /\ offset' = 0
    <3>1. Framing'
      BY <2>1, <2>3, <2>4, <1>0, NextReturned
    <3>2. offset' <= received' - first' /\ ~(offset' > 0)
      BY <2>3, <2>4, <1>n
    <3> QED BY <3>1, <3>2, <2>2 DEF ScannerInvariant, ScannerWithinCap
  <2>5. CASE /\ UNCHANGED <<handed, first>>
             /\ offset' <= received' - first
             /\ offset' > 0 => /\ Len(handed) < Len(written)
                               /\ received' < written[Len(handed) + 1].to
    <3>1. Framing'
      BY <2>1, <2>3, <2>5, <1>0, NothingReturned
    <3> QED BY <3>1, <2>1, <2>2, <2>5 DEF ScannerInvariant, ScannerWithinCap
  <2> QED BY <2>1, <2>4, <2>5
<1>4. CASE read_refused \/ read_reset
  <2>1. /\ UNCHANGED <<written, sent, peer, received, offset, first, handed>>
        /\ status' \in {"refused", "nothing"}
    BY <1>4 DEF read_refused, read_reset
  <2>2. Framing'
    BY <2>1, <1>0, OnlyTheStatus
  <2>3. status' = "refused" => offset = Cap
    <3>1. CASE read_refused
      BY <3>1, <1>0, RefusedAtTheCap
    <3>2. CASE read_reset
      BY <3>2 DEF read_reset
    <3> QED BY <3>1, <3>2, <1>4
  <2> QED BY <2>1, <2>2, <2>3, <1>0 DEF ScannerInvariant, ScannerWithinCap
<1> QED
  BY <1>1, <1>2, <1>3, <1>4 DEF ScannerNext, Scan

THEOREM ScannerFraming == ScannerSpec => []ScannerInvariant
<1>1. Init => ScannerInvariant
  BY ScannerInit
<1>2. ScannerInvariant /\ [ScannerNext]_vars => ScannerInvariant'
  BY ScannerStep
<1> QED
  BY <1>1, <1>2, PTL DEF ScannerSpec

\* Every variable of the scanner stays in its type: in particular the offset never
\* passes the cap, whose difference sizes the next read (space_left), and the
\* buffer never loses bytes of a document that is still to come.
THEOREM ScannerTypeCorrect == ScannerSpec => []TypeOK
<1>1. ScannerInvariant => TypeOK
  BY DEF ScannerInvariant, Framing
<1> QED
  BY <1>1, ScannerFraming, PTL

\* A document within the cap is never refused: when read_message answers
\* InvalidData, the document at the head of the buffer is beyond the cap.
THEOREM ScannerRefusesOnlyOversized == ScannerSpec => []NeverRefused
<1>1. ScannerInvariant => NeverRefused
  <2> SUFFICES ASSUME ScannerInvariant, status = "refused"
               PROVE  /\ Len(handed) < Len(written)
                      /\ written[Len(handed) + 1].to - written[Len(handed) + 1].from > Cap
    BY DEF NeverRefused
  <2>1. /\ Framing /\ offset = Cap /\ Cap \in Nat /\ Cap > 0
        /\ received \in Nat /\ first \in Nat
    BY FramingNumbers DEF ScannerInvariant, ScannerWithinCap
  <2>2. /\ offset <= received - first
        /\ Len(handed) < Len(written)
        /\ received < written[Len(handed) + 1].to
    BY <2>1 DEF ScannerInvariant, ScannerWithinCap
  <2>3. written[Len(handed) + 1] \in Stretch /\ written[Len(handed) + 1].from = first
    BY <2>1, <2>2, NextDocument
  <2>4. written[Len(handed) + 1].to \in Nat
    BY <2>3 DEF Stretch
  <2> QED BY <2>1, <2>2, <2>3, <2>4
<1> QED
  BY <1>1, ScannerFraming, PTL

\* The scanner implements the FIFO: a call returns the next document that was
\* written, whole, or none.
THEOREM ScannerIsAFifo == ScannerSpec => ImplementsFifo
<1>1. Init => Fifo!Init
  BY DEF Init, Fifo!Init
<1>2. ScannerInvariant /\ [ScannerNext]_vars => [Fifo!Next]_Fifo!vars
  <2> SUFFICES ASSUME ScannerInvariant, [ScannerNext]_vars
               PROVE  [Fifo!Next]_Fifo!vars
    OBVIOUS
  <2>1. CASE Environment
    BY <2>1, EnvironmentIsFifo DEF ScannerInvariant
  <2>2. CASE scan_message
    <3>1. /\ UNCHANGED written
          /\ \/ /\ Len(handed) < Len(written)
                /\ handed' = Append(handed, written[Len(handed) + 1])
             \/ UNCHANGED handed
      BY <2>2, ScanStep
    <3> QED BY <3>1 DEF Fifo!Next, Fifo!Read, Fifo!vars
  <2>3. CASE read_refused \/ read_reset \/ UNCHANGED vars
    BY <2>3 DEF read_refused, read_reset, vars, Fifo!vars
  <2> QED
    BY <2>1, <2>2, <2>3 DEF ScannerNext, Scan
<1> QED
  BY <1>1, <1>2, ScannerFraming, PTL DEF ScannerSpec, ImplementsFifo, Fifo!Spec
=================================================================================
