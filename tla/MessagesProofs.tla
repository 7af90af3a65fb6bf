---------------------------- MODULE MessagesProofs -----------------------------
(***************************************************************************)
(* The sizes of messages, for names and texts of every length.              *)
(***************************************************************************)
EXTENDS Messages, TLAPS

\* The sizes of messages spelled out.
LEMMA Sizes ==
  /\ \A l \in Nat : Text(l) = l + 27
  /\ \A l \in Nat : RequestUpload(l) = l + 66
  /\ \A l, m \in Nat : SaidText(l, m) = l + m + 52
  /\ \A l, m \in Nat : UserRenamed(l, m) = l + m + 53
  /\ \A l \in Nat : OfferDownload(l) = l + 66
  /\ \A l \in Nat : DeclineDownload(l) = l + 77
BY DEF Text, RequestUpload, SaidText, UserRenamed, OfferDownload, DeclineDownload,
       message, document, element, string, number, datetime

LEMMA SmallSizes ==
  /\ \A l \in Nat : Rename(l) = l + 33
  /\ \A l \in Nat : RequestDownload(l) = l + 42
  /\ \A l \in Nat : NewUser(l) = l + 44
  /\ \A l \in Nat : Interrupt(l) = l + 46
  /\ \A l \in Nat : UserLeaves(l) = l + 47
  /\ \A l \in Nat : NewFile(l) = l + 30
  /\ \A l \in Nat : Support(l) = l + 30
  /\ Leave = 17 /\ AgreeDownload = 41 /\ AgreeUpload = 39 /\ DeclineUpload = 93
<1> USE DEF message, document, element, string, number, datetime
<1>1. \A l \in Nat : Rename(l) = l + 33
  BY DEF Rename
<1>2. \A l \in Nat : RequestDownload(l) = l + 42
  BY DEF RequestDownload
<1>3. \A l \in Nat : NewUser(l) = l + 44
  BY DEF NewUser
<1>4. \A l \in Nat : Interrupt(l) = l + 46
  BY DEF Interrupt
<1>5. \A l \in Nat : UserLeaves(l) = l + 47
  BY DEF UserLeaves
<1>6. \A l \in Nat : NewFile(l) = l + 30
  BY DEF NewFile
<1>7. \A l \in Nat : Support(l) = l + 30
  BY DEF Support
<1>8. Leave = 17
  BY DEF Leave, unit
<1>9. AgreeDownload = 41
  BY DEF AgreeDownload
<1>10. AgreeUpload = 39
  BY DEF AgreeUpload
<1>11. DeclineUpload = 93
  BY DEF DeclineUpload
<1> QED BY <1>1, <1>2, <1>3, <1>4, <1>5, <1>6, <1>7, <1>8, <1>9, <1>10, <1>11

\* A chunk fits, whatever its length.
LEMMA ChunkFits == \A n \in 0..CHUNK_SIZE : Chunk(n) \in Nat /\ Chunk(n) <= 856
BY DEF CHUNK_SIZE, Chunk, array, message, document, element, number

LEMMA Bounds ==
  /\ MAXIMUM_TEXT_SIZE = 486 /\ MAXIMUM_NAME_SIZE = 486
  /\ MAXIMUM_FILE_NAME_SIZE = 958 /\ MAXIMUM_MESSAGE_SIZE = 1024
  /\ ADDRESS_SIZE = 58
BY DEF MAXIMUM_TEXT_SIZE, MAXIMUM_NAME_SIZE, MAXIMUM_FILE_NAME_SIZE,
       MAXIMUM_MESSAGE_SIZE, ADDRESS_SIZE

\* No user has a name beyond the bound.
THEOREM NamesAreBounded ==
  ASSUME Lengths \subseteq Nat
  PROVE  Spec => []NameFits
<1>1. Init => NameFits
  BY Bounds DEF Init, NameFits
<1>2. NameFits /\ [Next]_vars => NameFits'
  BY Bounds DEF NameFits, Next, vars, Fitting, perform_text, Rename_refused,
     Rename_accepted, perform_upload_file, Download_refused, Download_accepted,
     Farewell
<1> QED BY <1>1, <1>2, PTL DEF Spec

\* Whatever lengths users type, only two answers ever exceed the maximum.
THEOREM OnlyTwoAnswersExceed ==
  ASSUME Lengths \subseteq Nat
  PROVE  Spec => FewExceed
<1>1. ASSUME NameFits, NEW length \in Lengths, Fitting(length)
      PROVE  \A size \in wire' : size \in Nat /\ size <= MAXIMUM_MESSAGE_SIZE
  <2>0. length \in Nat /\ name \in Nat /\ name <= 486 /\ MAXIMUM_MESSAGE_SIZE = 1024
    BY <1>1, Bounds DEF NameFits
  <2>1. CASE perform_text(length)
    <3>1. wire' = {Text(length), SaidText(length, name)} /\ length <= 486
      BY <2>1, Bounds DEF perform_text
    <3>2. Text(length) = length + 27 /\ SaidText(length, name) = length + name + 52
      BY <2>0, Sizes
    <3> QED BY <2>0, <3>1, <3>2
  <2>2. CASE Rename_refused(length)
    BY <2>0, <2>2, Bounds, SmallSizes DEF Rename_refused
  <2>3. CASE perform_upload_file(length)
    <3>1. length <= 958
      BY <2>3, Bounds DEF perform_upload_file
    <3>2. /\ RequestUpload(length) = length + 66 /\ DeclineUpload = 93
          /\ AgreeUpload = 39 /\ NewFile(length) = length + 30
      BY <2>0, Sizes, SmallSizes
    <3>3. CASE wire' = {RequestUpload(length), DeclineUpload}
      BY <2>0, <3>1, <3>2, <3>3
    <3>4. CASE \E n \in 0..CHUNK_SIZE :
                 wire' = {RequestUpload(length), AgreeUpload, Chunk(n), NewFile(length)}
      <4>1. PICK n \in 0..CHUNK_SIZE :
              wire' = {RequestUpload(length), AgreeUpload, Chunk(n), NewFile(length)}
        BY <3>4
      <4>2. Chunk(n) \in Nat /\ Chunk(n) <= 856
        BY ChunkFits
      <4> QED BY <2>0, <3>1, <3>2, <4>1, <4>2
    <3> QED BY <2>3, <3>3, <3>4 DEF perform_upload_file
  <2>4. CASE Download_accepted(length)
    <3>1. PICK n \in 0..CHUNK_SIZE :
            wire' = {RequestDownload(length), OfferDownload(length), AgreeDownload, Chunk(n)}
      BY <2>4 DEF Download_accepted
    <3>2. Chunk(n) \in Nat /\ Chunk(n) <= 856
      BY ChunkFits
    <3>3. length <= 958
      BY <2>4, Bounds DEF Download_accepted
    <3>4. /\ RequestDownload(length) = length + 42 /\ AgreeDownload = 41
          /\ OfferDownload(length) = length + 66
      BY <2>0, Sizes, SmallSizes
    <3> QED BY <2>0, <3>1, <3>2, <3>3, <3>4
  <2>5. CASE Farewell
    BY <2>0, <2>5, SmallSizes DEF Farewell
  <2> QED BY <1>1, <2>1, <2>2, <2>3, <2>4, <2>5 DEF Fitting
<1>2. ASSUME NameFits, NEW length \in Lengths, Rename_accepted(length)
      PROVE  \A size \in wire' : size <= MAXIMUM_MESSAGE_SIZE + 11
  <2>0. length \in Nat /\ name \in Nat /\ name <= 486 /\ length <= 486
    BY <1>2, Bounds DEF NameFits, Rename_accepted
  <2>1. Rename(length) = length + 33 /\ UserRenamed(name, length) = name + length + 53
    BY <2>0, Sizes, SmallSizes
  <2>2. wire' = {Rename(length), UserRenamed(name, length)}
    BY <1>2 DEF Rename_accepted
  <2> QED BY <2>0, <2>1, <2>2, Bounds
<1>3. ASSUME NameFits, NEW length \in Lengths, Download_refused(length)
      PROVE  \A size \in wire' : size <= MAXIMUM_MESSAGE_SIZE + 11
  <2>0. length \in Nat /\ length <= 958
    BY <1>3, Bounds DEF Download_refused
  <2>1. RequestDownload(length) = length + 42 /\ DeclineDownload(length) = length + 77
    BY <2>0, Sizes, SmallSizes
  <2>2. wire' = {RequestDownload(length), DeclineDownload(length)}
    BY <1>3 DEF Download_refused
  <2> QED BY <2>0, <2>1, <2>2, Bounds
<1>4. NameFits /\ Next => Exceeding_step
  <2> SUFFICES ASSUME NameFits, Next PROVE Exceeding_step
    OBVIOUS
  <2>1. PICK length \in Lengths :
          Fitting(length) \/ Rename_accepted(length) \/ Download_refused(length)
    BY DEF Next
  <2>2. CASE Fitting(length)
    <3>1. \A size \in wire' : size \in Nat /\ size <= MAXIMUM_MESSAGE_SIZE
      BY <1>1, <2>2
    <3> QED BY <3>1, Bounds DEF Exceeding_step
  <2>3. CASE Rename_accepted(length)
    BY <1>2, <2>3 DEF Exceeding_step
  <2>4. CASE Download_refused(length)
    BY <1>3, <2>4 DEF Exceeding_step
  <2> QED BY <2>1, <2>2, <2>3, <2>4
<1>5. NameFits /\ [Next]_vars => [Exceeding_step]_vars
  BY <1>4
<1>6. Spec => []NameFits
  BY NamesAreBounded
<1> QED BY <1>5, <1>6, PTL DEF Spec, FewExceed

===============================================================================
