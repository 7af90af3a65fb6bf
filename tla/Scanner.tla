--------------------------------- MODULE Scanner ---------------------------------
(***************************************************************************)
(* BsonScanner, the reader of the client: it polls a non-blocking socket,  *)
(* keeps what it reads in a buffer and takes one document out of it.  The   *)
(* buffer holds the bytes from `first' up to `received'.                    *)
(***************************************************************************)
EXTENDS ByteStream

\* With the bytes up to position `end', the buffer holds a document.
Parsable(size, end) == end - first >= Header /\ end - first >= size

\* Mutant: clear() is forgotten.
parse_unclear(size, end) ==
  \/ /\ Parsable(size, end)
     /\ handed' = Append(handed, [from |-> first, to |-> first + size])
     /\ first' = first + size
     /\ offset' = offset + (end - received)
  \/ /\ ~Parsable(size, end)
     /\ offset' = offset + (end - received)
     /\ UNCHANGED <<handed, first>>

\* Mutant: the buffer is emptied, with whatever follows the document in it.
parse_emptying(size, end) ==
  \/ /\ Parsable(size, end)
     /\ handed' = Append(handed, [from |-> first, to |-> first + size])
     /\ first' = end
     /\ offset' = 0
  \/ /\ ~Parsable(size, end)
     /\ offset' = offset + (end - received)
     /\ UNCHANGED <<handed, first>>

\* The length field is looked at when all of it is there; a complete document is
\* removed from the buffer, and the cap is lifted for the next one.
parse(size, end) ==
  \/ /\ Parsable(size, end)
     /\ handed' = Append(handed, [from |-> first, to |-> first + size])
     /\ first' = first + size
     /\ offset' = 0
  \/ /\ ~Parsable(size, end)
     /\ offset' = offset + (end - received)
     /\ UNCHANGED <<handed, first>>

\* A read of 0 bytes is no news (WouldBlock) or the end of the stream; the buffer
\* may still hold documents.
Portion ==
  IF received < sent THEN Portions(space_left) ELSE {0}

\* Mutant: without news the buffer is left alone.
scan_message_impatient ==
  /\ status = "reading"
  /\ space_left > 0
  /\ received < sent
  /\ \E n \in Portion : \E size \in SizeFields(first) :
       /\ received' = received + n
       /\ parse(size, received + n)
  /\ UNCHANGED <<written, sent, peer, status>>

scan_message ==
  /\ status = "reading"
  /\ space_left > 0
  /\ received = sent => peer # "reset"
  /\ \E n \in Portion : \E size \in SizeFields(first) :
       /\ received' = received + n
       /\ parse(size, received + n)
  /\ UNCHANGED <<written, sent, peer, status>>

read_reset ==
  /\ status = "reading"
  /\ space_left > 0
  /\ received = sent /\ peer = "reset"
  /\ status' = "nothing"
  /\ UNCHANGED <<written, sent, peer, received, offset, first, handed>>

Scan == scan_message \/ read_refused \/ read_reset

ScannerNext == Scan \/ Environment

ScannerSpec == Init /\ [][ScannerNext]_vars

\* The loop of the client polls again and again.
ScannerFairSpec == ScannerSpec /\ WF_vars(Scan)

-----------------------------------------------------------------------------
(* Properties *)

\* Every document that has arrived is read in the end, also when it arrived
\* together with others and nothing more comes after it, unless the client stops.
ArrivedIsRead ==
  \A k \in 1..MaxMessages :
    (Len(written) >= k /\ sent >= written[k].to)
      ~> (Len(handed) >= k \/ status # "reading")

-----------------------------------------------------------------------------
(* What makes the safety properties inductive *)

\* Bytes counted against the cap are in the buffer, and when there are some the
\* document that begins there is not complete.
ScannerWithinCap ==
  /\ offset <= received - first
  /\ offset > 0 => /\ Len(handed) < Len(written)
                   /\ received < written[Len(handed) + 1].to
  /\ status = "refused" => offset = Cap

ScannerInvariant == Framing /\ ScannerWithinCap
===============================================================================
