------------------------------ MODULE ServerFiles ------------------------------
(***************************************************************************)
(* One directory of files, and the threads of the server that fill and read *)
(* it for many clients at once.  Nothing is locked: each thread has a file  *)
(* of its own open, with its own position, and what one of them writes the  *)
(* others see at once.                                                      *)
(*                                                                         *)
(* A file is a sequence of pieces of what the clients upload.  A chunk has  *)
(* CHUNK_SIZE of them, the last one of a file what is left.  Every client   *)
(* asks once; what several transfers of one connection do to each other is  *)
(* in FileTransfer, and a name of a file is here no number.                 *)
(***************************************************************************)
EXTENDS Naturals, Sequences, SequencesExt, FiniteSets

CONSTANTS
  Uploaders,    \* connections whose client uploads a file
  Downloaders,  \* connections whose client downloads one
  Names,        \* names of files
  Size,         \* the length in pieces of the file each of Uploaders has
  CHUNK_SIZE,   \* pieces in a chunk
  Faulty,       \* the connections that may be interrupted
  None          \* no file, no sharer

Conns == Uploaders \union Downloaders

\* Pieces of the clients' files; what was never written reads as a hole.
Hole  == [of |-> None, nth |-> 0]
Piece == [of : Uploaders, nth : Nat \ {0}] \union {Hole}

Original(c) == [k \in 1..Size[c] |-> [of |-> c, nth |-> k]]

VARIABLES
  files,      \* the directory: the content of each name, or None
  phase,      \* where each transfer is
  sharer,     \* its FileSharer: [name, size, written], or None
  got,        \* the content of the local file of each downloader
  accepted,   \* history: the uploaders each name was granted to
  announced,  \* history: the names broadcast as NewFile
  late,       \* history: downloads of names that had been announced
  gone        \* connections that were interrupted

vars == <<files, phase, sharer, got, accepted, announced, late, gone>>

Phases == {"idle", "checked", "refused", "open", "sending", "done"}

Sharer == [name : Names, size : Nat, written : Nat]

ASSUME FilesAssumption ==
  /\ Uploaders \intersect Downloaders = {}
  /\ Size \in [Uploaders -> Nat]
  /\ CHUNK_SIZE \in Nat \ {0}
  /\ Faulty \subseteq Conns
  /\ None \notin Seq(Piece) \union Sharer

Init ==
  /\ files = [n \in Names |-> None]
  /\ phase = [c \in Conns |-> "idle"]
  /\ sharer = [c \in Conns |-> None]
  /\ got = [c \in Downloaders |-> <<>>]
  /\ accepted = [n \in Names |-> {}]
  /\ announced = {} /\ late = {} /\ gone = {}

-----------------------------------------------------------------------------
(* Files *)

FileSharer(n, size) == [name |-> n, size |-> size, written |-> 0]

rest(s) == s.size - s.written

\* What one read() into a buffer of CHUNK_SIZE returns.
read(content, position) ==
  [k \in 1..(IF position + CHUNK_SIZE <= Len(content) THEN CHUNK_SIZE
             ELSE IF position <= Len(content) THEN Len(content) - position ELSE 0)
     |-> content[position + k]]

\* A file after a write at a position, which may be beyond its end.
write(content, position, data) ==
  LET end == position + Len(data)
  IN  [k \in 1..(IF end > Len(content) THEN end ELSE Len(content)) |->
         CASE position < k /\ k <= end -> data[k - position]
           [] k <= position /\ k > Len(content) -> Hole
           [] OTHER -> content[k]]

-----------------------------------------------------------------------------
(* Uploads *)

Serving(c) == c \notin gone

\* handle_client_request_file_upload, up to exists().
Check_upload(c, n) ==
  /\ Serving(c) /\ phase[c] = "idle"
  /\ sharer' = [sharer EXCEPT ![c] = FileSharer(n, Size[c])]
  /\ phase' = [phase EXCEPT ![c] = IF files[n] = None THEN "checked" ELSE "refused"]
  /\ UNCHANGED <<files, got, accepted, announced, late, gone>>

\* Mutant: the file is announced when it is created.
Create_and_announce(c) ==
  LET n == sharer[c].name
  IN  /\ Serving(c) /\ phase[c] = "checked"
      /\ files' = [files EXCEPT ![n] = <<>>]
      /\ phase' = [phase EXCEPT ![c] = "open"]
      /\ accepted' = [accepted EXCEPT ![n] = @ \union {c}]
      /\ announced' = announced \union {n}
      /\ UNCHANGED <<sharer, got, late, gone>>

\* The rest of it: File::create() empties a file that has come to be there.
Create(c) ==
  LET n == sharer[c].name
  IN  /\ Serving(c) /\ phase[c] = "checked"
      /\ files' = [files EXCEPT ![n] = <<>>]
      /\ phase' = [phase EXCEPT ![c] = "open"]
      /\ accepted' = [accepted EXCEPT ![n] = @ \union {c}]
      /\ UNCHANGED <<sharer, got, announced, late, gone>>

\* Mutant: one piece more is waited for.
done_late(s, count) == s.written + count > s.size

\* Mutant: the last chunk is not waited for.
done_early(s, count) == s.written + count + CHUNK_SIZE >= s.size

done(s, count) == s.written + count >= s.size

\* Mutant: a chunk is written in two parts, with other threads in between.
taken_in_parts(s, data) == SubSeq(data, 1, 1)

\* What accept_chunk takes of a chunk.
taken(s, data) ==
  SubSeq(data, 1, IF Len(data) <= rest(s) THEN Len(data) ELSE rest(s))

\* The client's next chunk comes.
handle_client_chunk(c) ==
  LET s    == sharer[c]
      data == taken(s, read(Original(c), s.written))
  IN  /\ Serving(c) /\ c \in Uploaders /\ phase[c] = "open"
      /\ files' = [files EXCEPT ![s.name] = write(@, s.written, data)]
      /\ sharer' = [sharer EXCEPT ![c].written = @ + Len(data)]
      /\ IF done(s, Len(data))
           THEN /\ phase' = [phase EXCEPT ![c] = "done"]
                /\ announced' = announced \union {s.name}
           ELSE UNCHANGED <<phase, announced>>
      /\ UNCHANGED <<got, accepted, late, gone>>

-----------------------------------------------------------------------------
(* Downloads *)

\* Mutant: the size is the one that was promised for the upload under way.
metadata_promised(n) ==
  IF \E u \in accepted[n] : TRUE
    THEN Size[CHOOSE u \in accepted[n] : TRUE] ELSE Len(files[n])

\* The length the file has now.
metadata(n) == Len(files[n])

handle_client_request_file_download(c, n) ==
  /\ Serving(c) /\ phase[c] = "idle"
  /\ IF files[n] = None
       THEN /\ phase' = [phase EXCEPT ![c] = "refused"]
            /\ UNCHANGED <<sharer, late>>
       ELSE /\ phase' = [phase EXCEPT ![c] = "open"]
            /\ sharer' = [sharer EXCEPT ![c] = FileSharer(n, metadata(n))]
            /\ late' = IF n \in announced THEN late \union {c} ELSE late
  /\ UNCHANGED <<files, got, accepted, announced, gone>>

handle_client_agree_file_download(c) ==
  /\ Serving(c) /\ c \in Downloaders /\ phase[c] = "open"
  /\ phase' = [phase EXCEPT ![c] = "sending"]
  /\ UNCHANGED <<files, sharer, got, accepted, announced, late, gone>>

handle_client_decline_file_download(c) ==
  /\ Serving(c) /\ c \in Downloaders /\ phase[c] = "open"
  /\ phase' = [phase EXCEPT ![c] = "refused"]
  /\ UNCHANGED <<files, sharer, got, accepted, announced, late, gone>>

\* One chunk of send_file.  The difference in rest() is unsigned: beyond the size
\* there is always something left.
send_chunk(c) ==
  LET s    == sharer[c]
      data == read(files[s.name], s.written)
      room == s.size - Len(got[c])
  IN  /\ Serving(c) /\ phase[c] = "sending" /\ s.written # s.size
      /\ sharer' = [sharer EXCEPT ![c].written = @ + Len(data)]
      /\ got' = [got EXCEPT ![c] =
                   @ \o SubSeq(data, 1, IF Len(data) <= room THEN Len(data) ELSE room)]
      /\ UNCHANGED <<files, phase, accepted, announced, late, gone>>

\* rest() is 0.
Sent(c) ==
  /\ Serving(c) /\ phase[c] = "sending" /\ sharer[c].written = sharer[c].size
  /\ phase' = [phase EXCEPT ![c] = "done"]
  /\ UNCHANGED <<files, sharer, got, accepted, announced, late, gone>>

\* The threads of the connection end; the file stays as it is.
Interrupt(c) ==
  /\ c \in Faulty \ gone
  /\ gone' = gone \union {c}
  /\ UNCHANGED <<files, phase, sharer, got, accepted, announced, late>>

Next ==
  \/ \E c \in Uploaders :
       \/ \E n \in Names : Check_upload(c, n)
       \/ Create(c) \/ handle_client_chunk(c)
  \/ \E c \in Downloaders :
       \/ \E n \in Names : handle_client_request_file_download(c, n)
       \/ handle_client_agree_file_download(c)
       \/ handle_client_decline_file_download(c)
       \/ send_chunk(c) \/ Sent(c)
  \/ \E c \in Conns : Interrupt(c)

Spec == Init /\ [][Next]_vars

\* The thread that sends a file runs.
FairSpec == Spec /\ \A c \in Downloaders : WF_vars(send_chunk(c) \/ Sent(c))

-----------------------------------------------------------------------------
(* Properties *)

\* Every variable has its type; an upload that lacks nothing is
\* over.
TypeOK ==
  /\ files \in [Names -> Seq(Piece) \union {None}]
  /\ phase \in [Conns -> Phases]
  /\ sharer \in [Conns -> Sharer \union {None}]
  /\ got \in [Downloaders -> Seq(Piece)]
  /\ accepted \in [Names -> SUBSET Uploaders]
  /\ announced \subseteq Names
  /\ late \subseteq Downloaders
  /\ gone \subseteq Conns
  /\ \A c \in Uploaders : phase[c] = "open" /\ sharer[c].size > 0 =>
       sharer[c].written < sharer[c].size

\* "There's already a file with such a name" (handle_client_request_file_upload):
\* a name is granted to one upload.
GrantedOnce == \A n \in Names : Cardinality(accepted[n]) <= 1

Once(n) == Cardinality(accepted[n]) <= 1

\* What is announced as a new file is, then and for ever, what its client had,
\* no matter who reads it, who is refused the name, and who is interrupted; as
\* long as no two threads asked exists() before either created the file.
AnnouncedIsComplete ==
  \A n \in announced : Once(n) => \E c \in accepted[n] : files[n] = Original(c)

\* A download delivers the beginning of what is stored, and all of it when the
\* file had been announced before; also when the file grows meanwhile.
DeliveredIsStored ==
  \A c \in Downloaders : sharer[c] # None /\ Once(sharer[c].name) =>
    /\ IsPrefix(got[c], files[sharer[c].name])
    /\ phase[c] = "done" => Len(got[c]) = sharer[c].size
    /\ phase[c] = "done" /\ c \in late => got[c] = files[sharer[c].name]

\* send_file never reads beyond the size it promised, so that the unsigned
\* difference in rest() is one: a file that is still being written has whole
\* chunks only.
NoOvershoot ==
  \A c \in Downloaders : sharer[c] # None /\ Once(sharer[c].name) =>
    sharer[c].written <= sharer[c].size

\* The thread that sends a file comes to its end, also when the upload of that
\* file was cut off and the rest will never come.
SendingEnds ==
  \A c \in Downloaders :
    phase[c] = "sending" ~> phase[c] = "done" \/ c \in gone \/ ~GrantedOnce

===============================================================================
