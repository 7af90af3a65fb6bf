---------------------------------- MODULE Reader ----------------------------------
(***************************************************************************)
(* BsonReader, the reader of the server: each call blocks until it has     *)
(* read the length field and then the rest of one document, piece by piece. *)
(***************************************************************************)
EXTENDS ByteStream

\* Mutant: the length is taken not to count the length field.
WantedMore(size) ==
  IF received - first < Header THEN Header - (received - first)
                               ELSE size + Header - (received - first)

\* What from_reader asks for next: the rest of the length field, then the rest of
\* the document.
Wanted(size) ==
  IF received - first < Header THEN Header - (received - first)
                               ELSE size - (received - first)

\* Mutant: the request is not cut to what the cap leaves.
AllowedAny(size) == Wanted(size)

\* The capped reader cuts a request to what the cap leaves.
Allowed(size) == IF Wanted(size) <= space_left THEN Wanted(size) ELSE space_left

\* Mutant: clear() is forgotten.
advance_unclear(size, n) ==
  \/ /\ n = Wanted(size) /\ received - first >= Header
     /\ handed' = Append(handed, [from |-> first, to |-> received + n])
     /\ first' = received + n
     /\ offset' = offset + n
  \/ /\ n # Wanted(size) \/ received - first < Header
     /\ offset' = offset + n
     /\ UNCHANGED <<handed, first>>

\* With the last piece of a document the document is returned and the cap lifted.
advance(size, n) ==
  \/ /\ n = Wanted(size) /\ received - first >= Header
     /\ handed' = Append(handed, [from |-> first, to |-> received + n])
     /\ first' = received + n
     /\ offset' = 0
  \/ /\ n # Wanted(size) \/ received - first < Header
     /\ offset' = offset + n
     /\ UNCHANGED <<handed, first>>

read_message ==
  /\ status = "reading"
  /\ space_left > 0
  /\ \E size \in SizeFields(first) : \E n \in Portions(Allowed(size)) :
       /\ received' = received + n
       /\ advance(size, n)
  /\ UNCHANGED <<written, sent, peer, status>>

\* Mutant: only a reset counts as the end.
read_end_open ==
  /\ status = "reading"
  /\ space_left > 0
  /\ received = sent /\ peer = "reset"
  /\ status' = "nothing"
  /\ UNCHANGED <<written, sent, peer, received, offset, first, handed>>

\* UnexpectedEof or ConnectionReset, between documents or inside one, become
\* NothingToRead.
read_end ==
  /\ status = "reading"
  /\ space_left > 0
  /\ received = sent /\ peer # "open"
  /\ status' = "nothing"
  /\ UNCHANGED <<written, sent, peer, received, offset, first, handed>>

Read == read_message \/ read_refused \/ read_end

ReaderNext == Read \/ Environment

ReaderSpec == Init /\ [][ReaderNext]_vars

\* The thread goes on reading whenever there is something to read.
ReaderFairSpec == ReaderSpec /\ WF_vars(Read)

-----------------------------------------------------------------------------
(* Properties *)

\* README: "A single message cannot exceed some fixed number of bytes in size".
NothingOversizedIsRead ==
  \A k \in 1..Len(handed) : handed[k].to - handed[k].from <= Cap

\* A peer that is gone is noticed, after what it had sent, even when it was cut
\* off inside a document.
EndIsNoticed == peer # "open" ~> status # "reading"

-----------------------------------------------------------------------------
(* What makes the safety properties inductive *)

\* Bytes counted against the cap are those of the document being read, which is
\* not complete.
ReaderWithinCap ==
  /\ offset = received - first
  /\ Len(handed) < Len(written) => received < written[Len(handed) + 1].to
  /\ status = "refused" => offset = Cap

ReaderInvariant == Framing /\ ReaderWithinCap
===============================================================================
