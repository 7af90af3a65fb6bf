-------------------------------- MODULE Messages --------------------------------
(***************************************************************************)
(* The sizes of the messages: a client types commands with names and texts  *)
(* of any length, the console and the server check the lengths, and each    *)
(* request and its answer is put on the wire as a BSON document of an enum:  *)
(* a document with one element, the variant, whose value is the document of  *)
(* its fields.  Sizes are in bytes.                                         *)
(***************************************************************************)
EXTENDS Naturals

CONSTANT Lengths   \* of the names and texts a user may type

VARIABLES
  name,  \* the length of the name the user has
  wire   \* the sizes of the last request and of the answer to it

vars == <<name, wire>>

-----------------------------------------------------------------------------
(* BSON *)

document(elements) == 4 + elements + 1
element(key, value) == 1 + key + 1 + value
string(length) == 4 + length + 1
number == 8
datetime == 8

\* The document of a variant, by the length of its name and its fields.
message(variant, fields) == document(element(variant, document(fields)))

\* A variant without fields: its name as the key of an empty document.
unit(variant) == document(element(variant, document(0)))

\* The array of n bytes, at most 100: a 32-bit number under the decimal index.
array(n) == document(n * (1 + 1 + 4) + (IF n <= 10 THEN n ELSE 10 + 2 * (n - 10)))

-----------------------------------------------------------------------------
(* messages.rs *)

MAXIMUM_MESSAGE_SIZE == 1024

\* Mutant: the bound that leaves no room for the name.
text_size_generous == MAXIMUM_MESSAGE_SIZE - 52

MAXIMUM_TEXT_SIZE == (MAXIMUM_MESSAGE_SIZE - 52) \div 2
MAXIMUM_NAME_SIZE == MAXIMUM_TEXT_SIZE
MAXIMUM_FILE_NAME_SIZE == MAXIMUM_MESSAGE_SIZE - 66
CHUNK_SIZE == 100

\* Without a name it is the address, from "1.1.1.1:1" to "[" IPv6 "%" scope "]:"
\* and port.
ADDRESS_SIZE == 58

Text(length)         == message(4, element(4, string(length)))
Leave                == unit(5)
Rename(length)       == message(6, element(8, string(length)))
RequestUpload(length) ==
  message(17, element(4, string(length)) + element(4, number) + element(2, number))
RequestDownload(length) == message(19, element(4, string(length)))
AgreeDownload        == message(17, element(2, number))
Chunk(n) ==
  message(6, element(6, message(5, element(4, array(n)) + element(2, number))))

SaidText(length, author) ==
  message(4, element(4, string(length)) + element(4, string(author))
               + element(4, datetime))
NewUser(author)      == message(7, element(4, string(author)) + element(4, datetime))
Interrupt(author)    == message(9, element(4, string(author)) + element(4, datetime))
UserLeaves(author)   == message(10, element(4, string(author)) + element(4, datetime))
Support(length)      == message(7, element(4, string(length)))
UserRenamed(old, new) ==
  message(11, element(8, string(old)) + element(8, string(new)))
NewFile(length)      == message(7, element(4, string(length)))
AgreeUpload          == message(15, element(2, number))
DeclineUpload        == message(17, element(2, number) + element(6, string(39)))
OfferDownload(length) ==
  message(17, element(4, string(length)) + element(4, number) + element(2, number))
DeclineDownload(length) ==
  message(19, element(4, string(length)) + element(6, string(22)))

-----------------------------------------------------------------------------
(* Exchanges *)

Init ==
  /\ name \in 9..ADDRESS_SIZE
  /\ wire = {NewUser(name), Support(25)}

perform_text(length) ==
  /\ length <= MAXIMUM_TEXT_SIZE
  /\ wire' = {Text(length), SaidText(length, name)}
  /\ UNCHANGED name

\* The name is taken or has a '.' or a ':' in it.
Rename_refused(length) ==
  /\ length <= MAXIMUM_NAME_SIZE
  /\ wire' \in {{Rename(length), Support(36)}, {Rename(length), Support(52)}}
  /\ UNCHANGED name

Rename_accepted(length) ==
  /\ length <= MAXIMUM_NAME_SIZE
  /\ wire' = {Rename(length), UserRenamed(name, length)}
  /\ name' = length

\* The request, the answer, and what the upload comes to.
perform_upload_file(length) ==
  /\ length <= MAXIMUM_FILE_NAME_SIZE
  /\ \/ wire' = {RequestUpload(length), DeclineUpload}
     \/ \E n \in 0..CHUNK_SIZE :
          wire' = {RequestUpload(length), AgreeUpload, Chunk(n), NewFile(length)}
  /\ UNCHANGED name

Download_refused(length) ==
  /\ length <= MAXIMUM_FILE_NAME_SIZE
  /\ wire' = {RequestDownload(length), DeclineDownload(length)}
  /\ UNCHANGED name

Download_accepted(length) ==
  /\ length <= MAXIMUM_FILE_NAME_SIZE
  /\ \E n \in 0..CHUNK_SIZE :
       wire' = {RequestDownload(length), OfferDownload(length), AgreeDownload, Chunk(n)}
  /\ UNCHANGED name

\* The user leaves or is interrupted.
Farewell ==
  /\ wire' \in {{Leave, UserLeaves(name)}, {Interrupt(name)}}
  /\ UNCHANGED name

\* The exchanges whose messages fit.
Fitting(length) ==
  \/ perform_text(length)
  \/ Rename_refused(length)
  \/ perform_upload_file(length)
  \/ Download_accepted(length)
  \/ Farewell

Next ==
  \E length \in Lengths :
    Fitting(length) \/ Rename_accepted(length) \/ Download_refused(length)

Spec == Init /\ [][Next]_vars

-----------------------------------------------------------------------------
(* Properties *)

\* "A single message cannot exceed some fixed number of bytes in size" (README,
\* Protocol): beyond it the receiver ends the connection.
NoOversizedMessage == \A size \in wire : size <= MAXIMUM_MESSAGE_SIZE

\* What the name of a user is bounded by.
NameFits == name \in Nat /\ name <= MAXIMUM_NAME_SIZE

\* A step in which a message beyond the maximum is sent is the answer to a
\* rename, or the refusal of a download.
Exceeding_step ==
  \A size \in wire' : size > MAXIMUM_MESSAGE_SIZE =>
    /\ size <= MAXIMUM_MESSAGE_SIZE + 11
    /\ \E length \in Lengths : Rename_accepted(length) \/ Download_refused(length)

\* A message is beyond the maximum only in the answer to a rename, whose old and
\* new names take their bounds together, and in the refusal of a download; and
\* then by no more than 11 bytes.
FewExceed == [][Exceeding_step]_vars

===============================================================================
