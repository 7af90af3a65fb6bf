------------------------------- MODULE ByteStream -------------------------------
(***************************************************************************)
(* One direction of a TCP connection as the readers of messages see it,    *)
(* and what the two readers have in common.  Bytes are known by their      *)
(* position in the stream; a message is the stretch of positions its        *)
(* document occupies, and its first Header bytes hold its length.           *)
(***************************************************************************)
EXTENDS Naturals, Sequences

CONSTANTS
  Header,      \* bytes of the length field of a document: 4
  Cap,         \* what a reader allows one message: MAXIMUM_MESSAGE_SIZE
  Sizes,       \* the lengths of the documents written, header included
  Faults,      \* what the writing end may do, out of {"close", "reset"}
  MaxMessages  \* bound: documents written

ASSUME StreamAssumption ==
  /\ Header \in Nat \ {0}
  /\ Cap \in Nat
  /\ Header <= Cap
  /\ Sizes \subseteq Nat
  /\ \A size \in Sizes : Header < size
  /\ Faults \subseteq {"close", "reset"}
  /\ MaxMessages \in Nat

VARIABLES
  written,   \* the documents written, each as the stretch it occupies
  sent,      \* the bytes that have arrived so far
  peer,      \* whether the writing end is open, closed or reset
  received,  \* the bytes taken from the socket by the reader
  offset,    \* CappedReader.offset: bytes read since the last clear()
  first,     \* position at which the document being read begins
  handed,    \* the documents returned
  status     \* "reading", or the error that ended it

vars == <<written, sent, peer, received, offset, first, handed, status>>

Stretch == [from : Nat, to : Nat]

\* Where the next document will begin.
End == IF written = <<>> THEN 0 ELSE written[Len(written)].to

Init ==
  /\ written = <<>>
  /\ sent = 0
  /\ peer = "open"
  /\ received = 0
  /\ offset = 0
  /\ first = 0
  /\ handed = <<>>
  /\ status = "reading"

\* write_message encodes the document and hands it to write_all.
write_message ==
  /\ peer = "open"
  /\ Len(written) < MaxMessages
  /\ \E size \in Sizes :
       written' = Append(written, [from |-> End, to |-> End + size])
  /\ UNCHANGED <<sent, peer, received, offset, first, handed, status>>

\* The network delivers some more bytes, without regard to where documents end.
Transmit ==
  /\ peer = "open"
  /\ \E position \in (sent + 1)..End : sent' = position
  /\ UNCHANGED <<written, peer, received, offset, first, handed, status>>

Close ==
  /\ "close" \in Faults
  /\ peer = "open"
  /\ peer' = "closed"
  /\ UNCHANGED <<written, sent, received, offset, first, handed, status>>

\* A RST; what had arrived may still be read, or not.
Reset ==
  /\ "reset" \in Faults
  /\ peer = "open"
  /\ peer' = "reset"
  /\ sent' \in received..sent
  /\ UNCHANGED <<written, received, offset, first, handed, status>>

Environment == write_message \/ Transmit \/ Close \/ Reset

\* What the length field at a position says; bytes from the middle of a
\* document can say anything.
SizeFields(position) ==
  LET starting == {k \in 1..Len(written) : written[k].from = position}
  IN  IF starting = {}
        THEN 0..Cap
        ELSE {written[k].to - position : k \in starting}

\* Mutant: the bytes already read are not counted.
space_left_full == Cap

space_left == Cap - offset

\* The number of bytes a read of at most `wanted' returns when some are there.
Portions(wanted) ==
  {n \in 1..wanted : received + n <= sent}

\* The cap is used up before the document is complete: the capped reader answers
\* InvalidData.
read_refused ==
  /\ status = "reading"
  /\ space_left = 0
  /\ status' = "refused"
  /\ UNCHANGED <<written, sent, peer, received, offset, first, handed>>

-----------------------------------------------------------------------------
(* Properties of either reader *)

StreamTypeOK ==
  /\ written \in Seq(Stretch)
  /\ sent \in 0..End
  /\ peer \in {"open", "closed", "reset"}
  /\ received \in 0..sent
  /\ offset \in 0..Cap

\* Every variable has its type: no read goes past the cap, and no document is
\* taken that has not arrived.
TypeOK ==
  /\ StreamTypeOK
  /\ first \in 0..received
  /\ handed \in Seq(Stretch)
  /\ status \in {"reading", "refused", "nothing"}

\* The documents read are those written, in the same order, whatever the pieces
\* they came in and however many of them one read returned.
Fifo == INSTANCE Fifo WITH input <- written, output <- handed

ImplementsFifo == Fifo!Spec

\* A document within the cap is never refused, though the cap counts the bytes
\* read since the last document and what was read may hold several.
NeverRefused ==
  status = "refused" =>
    /\ Len(handed) < Len(written)
    /\ written[Len(handed) + 1].to - written[Len(handed) + 1].from > Cap

-----------------------------------------------------------------------------
(* What makes the safety properties inductive *)

\* Documents lie one behind the other, without gaps.
Layout ==
  /\ \A k \in 1..Len(written) :
       /\ written[k].to - written[k].from \in Sizes
       /\ written[k].from = IF k = 1 THEN 0 ELSE written[k - 1].to
       /\ written[k].to <= End
  /\ \A i, j \in 1..Len(written) : i < j => written[i].to <= written[j].from

\* Where the document after the first `count' ones begins.
Boundary(count) == IF count = 0 THEN 0 ELSE written[count].to

\* The documents returned are the first that were written, and the next one
\* begins where the last of them ends.
Aligned ==
  /\ Len(handed) <= Len(written)
  /\ \A k \in 1..Len(handed) : handed[k] = written[k]
  /\ first = Boundary(Len(handed))

Framing == TypeOK /\ Layout /\ Aligned
===============================================================================
