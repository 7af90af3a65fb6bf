------------------------------- MODULE FileTransfer -------------------------------
(***************************************************************************)
(* File transfers over one connection: the loop of the client, the thread  *)
(* of the server that serves it, and the threads the server starts to send *)
(* files.  Each side files its transfers in one map, under the name of the *)
(* file until a number is known and under the number afterwards.  The      *)
(* client numbers uploads, the server numbers downloads.                    *)
(*                                                                         *)
(* The unit of data is what one Chunk carries, CHUNK_SIZE bytes.            *)
(***************************************************************************)
EXTENDS Naturals, Sequences, SequencesExt

CONSTANTS
  Paths,        \* files the user has at hand
  Places,       \* local paths downloads are saved to
  Names,        \* names of files; a number among them is a name of digits
  Stored,       \* the files the server has in the beginning
  Size,         \* the length in chunks of each of Paths and Stored
  Uploads,      \* uploads the user may ask for, [path, name]
  Downloads,    \* downloads the user may ask for, [name, place]
  Window,       \* messages the socket of the client takes before WouldBlock
  MaxCommands,  \* bound: commands the user types
  Sessions,     \* bound: sequences of commands the user may type
  None          \* no file, no sharer

Files == Paths \union Places \union Names
Ids   == 0..MaxCommands
Keys  == Names \union Ids

(***************************************************************************)
(* A file holds pieces of originals; where nothing was written it has a    *)
(* hole.                                                                    *)
(***************************************************************************)
Hole  == [of |-> None, nth |-> 0]
Piece == [of : Paths \union Stored, nth : Nat \ {0}] \union {Hole}

Original(file) == [k \in 1..Size[file] |-> [of |-> file, nth |-> k]]

(***************************************************************************)
(* FileSharer: an open file, either to be read or to be written, at        *)
(* position `written'.                                                      *)
(***************************************************************************)
Sharer == [file : Files, mode : {"read", "write"}, name : Names, size : Nat,
           id : Nat, written : Nat]

ASSUME TransferAssumption ==
  /\ Stored \subseteq Names
  /\ Paths \intersect (Places \union Names) = {}
  /\ Places \intersect Names = {}
  /\ Size \in [Paths \union Stored -> Nat]
  /\ Uploads \subseteq [path : Paths, name : Names]
  /\ Downloads \subseteq [name : Names, place : Places]
  /\ Window \in Nat \ {0}
  /\ MaxCommands \in Nat
  /\ Sessions \subseteq Seq([upload : Uploads] \union [download : Downloads])
  /\ None \notin Files \union Sharer \union Seq(Piece)

VARIABLES
  typed,     \* commands on their way from the console to the loop
  client,    \* where the loop is: "command", "read", "send", or "exited"
  turn,      \* the sharer the sending part of the loop is at
  sharers,   \* the client's reading_sharers
  next,      \* the client's nexd_id
  queue,     \* the client's sending_sharers
  home,      \* the files at Places
  toServer,  \* messages on their way to the server
  server,    \* the thread: "serving", or "ended": it handles no more messages
  offers,    \* the server's reading_sharers
  free,      \* the server's nexd_id
  senders,   \* sharers of the threads that run send_file
  store,     \* the files of the server
  toClient,  \* messages on their way to the client
  asked,     \* history: the uploads requested, by number
  sought,    \* history: the downloads requested
  refused,   \* history: uploads by number, downloads by name, declined
  announced, \* history: names broadcast as NewFile
  saved,     \* history: downloads reported as complete
  given      \* history: the commands typed

local  == <<sharers, next, queue, home>>
remote == <<server, offers, free, senders, store>>
past   == <<asked, sought, refused, announced, saved>>
vars   == <<typed, client, turn, local, toServer, remote, toClient, past, given>>

Init ==
  /\ typed = <<>> /\ client = "command" /\ turn = 1
  /\ sharers = [key \in Keys |-> None] /\ next = 0 /\ queue = <<>>
  /\ home = [place \in Places |-> None]
  /\ toServer = <<>> /\ toClient = <<>>
  /\ server = "serving"
  /\ offers = [key \in Keys |-> None] /\ free = 0 /\ senders = {}
  /\ store = [name \in Names |-> IF name \in Stored THEN Original(name) ELSE None]
  /\ asked = <<>> /\ sought = {} /\ refused = {} /\ announced = {} /\ saved = {}
  /\ given = <<>>

-----------------------------------------------------------------------------
(* Connection: what both sides do with their maps *)

FileSharer(file, mode, name) ==
  [file |-> file, mode |-> mode, name |-> name, size |-> 0, id |-> 0,
   written |-> 0]

prepare_sharer(map, sharer) == [map EXCEPT ![sharer.name] = sharer]

\* Mutant: the size is left at 0.
promote_sharer_empty(map, name, size, id) ==
  IF map[name] = None
    THEN map
    ELSE [map EXCEPT ![name] = None, ![id] = [map[name] EXCEPT !.id = id]]

\* Nothing happens when no sharer is filed under the name.
promote_sharer(map, name, size, id) ==
  IF map[name] = None
    THEN map
    ELSE [map EXCEPT ![name] = None,
                     ![id] = [map[name] EXCEPT !.size = size, !.id = id]]

remove_sharer(map, key) == [map EXCEPT ![key] = None]

rest(sharer) == sharer.size - sharer.written

\* What accept_chunk writes, no more than the transfer lacks.
Accepted(sharer, data) ==
  SubSeq(data, 1, IF Len(data) <= rest(sharer) THEN Len(data) ELSE rest(sharer))

\* Mutant: the last chunk is not waited for.
done_early(sharer, data) ==
  sharer.written + Len(Accepted(sharer, data)) + 1 >= sharer.size

done(sharer, data) ==
  sharer.written + Len(Accepted(sharer, data)) >= sharer.size

\* A file after a write at a position.
Overwritten(content, position, data) ==
  LET end == position + Len(data)
  IN  [k \in 1..(IF end > Len(content) THEN end ELSE Len(content)) |->
         CASE position < k /\ k <= end -> data[k - position]
           [] k <= position /\ k > Len(content) -> Hole
           [] OTHER -> content[k]]

\* The map and the files after accept_chunk, and the removal of what is done.
Advanced(map, id, data) ==
  [map EXCEPT ![id] =
     IF done(map[id], data)
       THEN None
       ELSE [map[id] EXCEPT !.written = @ + Len(Accepted(map[id], data))]]

Filled(files, sharer, data) ==
  [files EXCEPT ![sharer.file] =
     Overwritten(@, sharer.written, Accepted(sharer, data))]

\* Mutant: every read begins at the start.
Portion_rewound(content, position) ==
  IF position < Len(content) THEN <<content[1]>> ELSE <<>>

\* A read of one chunk from a position; shorter, or empty, at the end.
Portion(content, position) ==
  IF position < Len(content) THEN <<content[position + 1]>> ELSE <<>>

Chunk(id, data) == [kind |-> "Chunk", id |-> id, data |-> data]

\* The beginning of a chunk of which the rest does not follow.
Part == [kind |-> "Part"]

-----------------------------------------------------------------------------
(* The client *)

Commands == [upload : Uploads] \union [download : Downloads]

\* The console thread checks a command when it is typed, not when it is done.
type_command ==
  /\ client # "exited"
  /\ Len(given) < MaxCommands
  /\ \E command \in Commands :
       /\ \E session \in Sessions : IsPrefix(Append(given, command), session)
       /\ "download" \in DOMAIN command => home[command.download.place] = None
       /\ typed' = Append(typed, command)
       /\ given' = Append(given, command)
  /\ UNCHANGED <<client, turn, local, toServer, remote, toClient, past>>

\* The socket of the client takes all of another message.
Writable == Len(toServer) < Window

exits == client' = "exited"

free_id == next' = next + 1

\* A request the socket does not take, or takes a part of, is an error, and it ends
\* the program.
perform_upload_file(u) ==
  /\ free_id
  /\ sharers' = promote_sharer(
       prepare_sharer(sharers, FileSharer(u.path, "read", u.name)),
       u.name, Size[u.path], next)
  /\ \/ /\ Writable
        /\ toServer' = Append(toServer, [kind |-> "RequestFileUpload",
             name |-> u.name, size |-> Size[u.path], id |-> next])
        /\ asked' = Append(asked, u)
        /\ client' = "read"
     \/ /\ ~Writable /\ exits
        /\ UNCHANGED <<toServer, asked>>
  /\ UNCHANGED <<queue, home, sought>>

\* The file is created, or emptied, before the request is sent.
perform_download_file(d) ==
  /\ home' = [home EXCEPT ![d.place] = <<>>]
  /\ sharers' = prepare_sharer(sharers, FileSharer(d.place, "write", d.name))
  /\ \/ /\ Writable
        /\ toServer' = Append(toServer,
             [kind |-> "RequestFileDownload", name |-> d.name])
        /\ sought' = sought \union {d}
        /\ client' = "read"
     \/ /\ ~Writable /\ exits
        /\ UNCHANGED <<toServer, sought>>
  /\ UNCHANGED <<next, queue, asked>>

handle_user_command ==
  /\ client = "command"
  /\ typed # <<>>
  /\ typed' = Tail(typed)
  /\ \/ "upload" \in DOMAIN Head(typed) /\ perform_upload_file(Head(typed).upload)
     \/ "download" \in DOMAIN Head(typed)
        /\ perform_download_file(Head(typed).download)
  /\ UNCHANGED <<turn, remote, toClient, refused, announced, saved, given>>

\* The file cannot be opened, or created, after all: the error ends the program, as
\* End does, typed instead.
command_ends ==
  /\ client = "command"
  /\ typed # <<>>
  /\ exits
  /\ UNCHANGED <<typed, turn, local, toServer, remote, toClient, past, given>>

no_command ==
  /\ client = "command" /\ typed = <<>>
  /\ client' = "read"
  /\ UNCHANGED <<typed, turn, local, toServer, remote, toClient, past, given>>

\* A sharer that was opened to be read cannot be written to: the error ends the
\* program.
handle_server_chunk(m) ==
  /\ m.kind = "Chunk"
  /\ LET sharer == sharers[m.id] IN
     \/ /\ sharer = None
        /\ client' = "send"
        /\ UNCHANGED <<sharers, home, saved>>
     \/ /\ sharer # None /\ sharer.mode = "read"
        /\ exits
        /\ UNCHANGED <<sharers, home, saved>>
     \/ /\ sharer # None /\ sharer.mode = "write"
        /\ home' = Filled(home, sharer, m.data)
        /\ sharers' = Advanced(sharers, m.id, m.data)
        /\ saved' = IF done(sharer, m.data)
                      THEN saved \union {[name |-> sharer.name, place |-> sharer.file]}
                      ELSE saved
        /\ client' = "send"
  /\ UNCHANGED <<queue, toServer, refused>>

\* Mutant: the sharer is removed and forgotten.
handle_server_agree_file_upload_forgetting(m) ==
  /\ m.kind = "AgreeFileUpload"
  /\ sharers' = remove_sharer(sharers, m.id)
  /\ client' = "send"
  /\ UNCHANGED <<queue, home, toServer, refused, saved>>

handle_server_agree_file_upload(m) ==
  /\ m.kind = "AgreeFileUpload"
  /\ queue' = IF sharers[m.id] = None THEN queue
                                      ELSE Append(queue, sharers[m.id])
  /\ sharers' = remove_sharer(sharers, m.id)
  /\ client' = "send"
  /\ UNCHANGED <<home, toServer, refused, saved>>

handle_server_decline_file_upload(m) ==
  /\ m.kind = "DeclineFileUpload"
  /\ sharers' = remove_sharer(sharers, m.id)
  /\ refused' = refused \union {[upload |-> m.id]}
  /\ client' = "send"
  /\ UNCHANGED <<queue, home, toServer, saved>>

\* The client always agrees, whether or not it still has the sharer.
handle_server_agree_file_download(m) ==
  /\ m.kind = "AgreeFileDownload"
  /\ sharers' = promote_sharer(sharers, m.name, m.size, m.id)
  /\ \/ /\ Writable
        /\ toServer' = Append(toServer, [kind |-> "AgreeFileDownload", id |-> m.id])
        /\ client' = "send"
     \/ /\ ~Writable /\ exits
        /\ UNCHANGED toServer
  /\ UNCHANGED <<queue, home, refused, saved>>

\* The file created for the download stays.
handle_server_decline_file_download(m) ==
  /\ m.kind = "DeclineFileDownload"
  /\ sharers' = remove_sharer(sharers, m.name)
  /\ refused' = refused \union {[download |-> m.name]}
  /\ client' = "send"
  /\ UNCHANGED <<queue, home, toServer, saved>>

read_and_handle_server_message ==
  /\ client = "read"
  /\ toClient # <<>>
  /\ toClient' = Tail(toClient)
  /\ LET m == Head(toClient) IN
       \/ handle_server_chunk(m)
       \/ handle_server_agree_file_upload(m)
       \/ handle_server_decline_file_upload(m)
       \/ handle_server_agree_file_download(m)
       \/ handle_server_decline_file_download(m)
  /\ UNCHANGED <<typed, turn, next, remote, asked, sought, announced, given>>

no_message ==
  /\ client = "read" /\ toClient = <<>>
  /\ client' = "send"
  /\ UNCHANGED <<typed, turn, local, toServer, remote, toClient, past, given>>

(***************************************************************************)
(* process_sending_sharers: one chunk of each sharer.                       *)
(***************************************************************************)
Sending == client = "send" /\ turn <= Len(queue)

\* A file that was created to be written to cannot be read: the error ends the
\* program.
send_chunk_fails ==
  /\ Sending /\ queue[turn].mode = "write"
  /\ exits
  /\ UNCHANGED <<typed, turn, local, toServer, remote, toClient, past, given>>

\* write_all may have given the socket a part of the chunk, or a part more.
Refused ==
  \/ UNCHANGED toServer
  \/ Last(toServer) # Part /\ toServer' = Append(toServer, Part)

\* Mutant: what was read is not read again.
send_chunk_later_skipping ==
  /\ Sending /\ queue[turn].mode = "read"
  /\ ~Writable /\ Refused
  /\ turn' = turn + 1
  /\ queue' = [queue EXCEPT ![turn].written = @ + (IF rest(queue[turn]) > 0 THEN 1 ELSE 0)]
  /\ UNCHANGED <<typed, client, sharers, next, home, remote, toClient, past, given>>

\* The socket takes no more: the file is wound back to where it was, also when it
\* has taken a part.
send_chunk_later ==
  /\ Sending /\ queue[turn].mode = "read"
  /\ ~Writable /\ Refused
  /\ turn' = turn + 1
  /\ UNCHANGED <<typed, client, local, remote, toClient, past, given>>

\* An empty file is sent as one empty chunk; the percentage of it, computed when
\* a second has passed, is a division by zero.  What is left is an unsigned
\* difference: of more than the size there is always something left.
send_chunk ==
  /\ Sending /\ queue[turn].mode = "read"
  /\ Writable
  /\ LET data == Portion(Original(queue[turn].file), queue[turn].written)
         sent == [queue[turn] EXCEPT !.written = @ + Len(data)]
     IN  /\ toServer' = Append(toServer, Chunk(sent.id, data))
         /\ \/ /\ rest(sent) = 0
               /\ queue' = RemoveAt(queue, turn)
               /\ UNCHANGED <<turn, client>>
            \/ /\ rest(sent) # 0
               /\ queue' = [queue EXCEPT ![turn] = sent]
               /\ turn' = turn + 1
               /\ UNCHANGED client
            \/ /\ sent.size = 0
               /\ exits
               /\ UNCHANGED <<queue, turn>>
  /\ UNCHANGED <<typed, sharers, next, home, remote, toClient, past, given>>

all_served ==
  /\ client = "send" /\ turn > Len(queue)
  /\ client' = "command"
  /\ turn' = 1
  /\ UNCHANGED <<typed, local, toServer, remote, toClient, past, given>>

Loop ==
  \/ handle_user_command \/ command_ends \/ no_command
  \/ read_and_handle_server_message \/ no_message
  \/ send_chunk \/ send_chunk_later \/ send_chunk_fails \/ all_served

-----------------------------------------------------------------------------
(* The thread of the server *)

Answer(m) == toClient' = Append(toClient, m)

\* Mutant: the file is created whether or not there is one.
handle_client_request_file_upload_unchecked(m) ==
  /\ m.kind = "RequestFileUpload"
  /\ store' = [store EXCEPT ![m.name] = <<>>]
  /\ offers' = promote_sharer(
       prepare_sharer(offers, FileSharer(m.name, "write", m.name)), m.name, m.size, m.id)
  /\ Answer([kind |-> "AgreeFileUpload", id |-> m.id])
  /\ UNCHANGED <<server, free, senders, announced>>

\* exists and File::create are two steps; other threads are not in this module.
handle_client_request_file_upload(m) ==
  /\ m.kind = "RequestFileUpload"
  /\ \/ /\ store[m.name] # None
        /\ Answer([kind |-> "DeclineFileUpload", id |-> m.id])
        /\ UNCHANGED <<offers, store>>
     \/ /\ store[m.name] = None
        /\ store' = [store EXCEPT ![m.name] = <<>>]
        /\ offers' = promote_sharer(
             prepare_sharer(offers, FileSharer(m.name, "write", m.name)),
             m.name, m.size, m.id)
        /\ Answer([kind |-> "AgreeFileUpload", id |-> m.id])
  /\ UNCHANGED <<server, free, senders, announced>>

handle_client_request_file_download(m) ==
  /\ m.kind = "RequestFileDownload"
  /\ \/ /\ store[m.name] = None
        /\ Answer([kind |-> "DeclineFileDownload", name |-> m.name])
        /\ UNCHANGED <<offers, free>>
     \/ /\ store[m.name] # None
        /\ free' = free + 1
        /\ offers' = promote_sharer(
             prepare_sharer(offers, FileSharer(m.name, "read", m.name)),
             m.name, Len(store[m.name]), free)
        /\ Answer([kind |-> "AgreeFileDownload", name |-> m.name,
                   size |-> Len(store[m.name]), id |-> free])
  /\ UNCHANGED <<server, senders, store, announced>>

handle_client_agree_file_download(m) ==
  /\ m.kind = "AgreeFileDownload"
  /\ offers' = remove_sharer(offers, m.id)
  /\ senders' = IF offers[m.id] = None THEN senders
                                       ELSE senders \union {offers[m.id]}
  /\ UNCHANGED <<server, free, store, toClient, announced>>

handle_client_chunk(m) ==
  /\ m.kind = "Chunk"
  /\ LET sharer == offers[m.id] IN
     \/ /\ sharer = None
        /\ UNCHANGED <<server, offers, store, announced>>
     \/ /\ sharer # None /\ sharer.mode = "read"
        /\ server' = "ended"
        /\ UNCHANGED <<offers, store, announced>>
     \/ /\ sharer # None /\ sharer.mode = "write"
        /\ store' = Filled(store, sharer, m.data)
        /\ offers' = Advanced(offers, m.id, m.data)
        /\ announced' = IF done(sharer, m.data)
                          THEN announced \union {sharer.name}
                          ELSE announced
        /\ UNCHANGED server
  /\ UNCHANGED <<free, senders, toClient>>

\* Whatever comes next is read as the rest of the chunk, and what that makes is no
\* message: the error ends the thread.  (Or nothing comes, and it waits.)  Left out:
\* if only the last byte of the chunk is missing, a 0, and the length of what comes
\* next begins with a 0, the chunk is whole, and the error is that of the next message.
handle_client_part(m) ==
  /\ m = Part
  /\ server' = "ended"
  /\ UNCHANGED <<offers, free, senders, store, toClient, announced>>

handle_client_message ==
  /\ server = "serving"
  /\ toServer # <<>>
  /\ toServer' = Tail(toServer)
  /\ LET m == Head(toServer) IN
       \/ handle_client_request_file_upload(m)
       \/ handle_client_request_file_download(m)
       \/ handle_client_agree_file_download(m)
       \/ handle_client_chunk(m)
       \/ handle_client_part(m)
  /\ UNCHANGED <<typed, client, turn, local, asked, sought, refused, saved, given>>

\* The client is gone; what it had sent may be lost.
read_fails ==
  /\ server = "serving"
  /\ client = "exited"
  /\ server' = "ended"
  /\ UNCHANGED <<typed, client, turn, local, toServer, offers, free, senders,
                 store, toClient, past, given>>

(***************************************************************************)
(* send_file, in a thread of its own.                                       *)
(***************************************************************************)
\* Mutant: the file is sent to its end.
send_file_to_end(sharer) ==
  /\ sharer.mode = "read"
  /\ sharer.written < Len(store[sharer.file])
  /\ client # "exited"
  /\ LET data == Portion(store[sharer.file], sharer.written)
         sent == [sharer EXCEPT !.written = @ + Len(data)]
     IN  /\ Answer(Chunk(sharer.id, data))
         /\ senders' = (senders \ {sharer}) \union {sent}
  /\ UNCHANGED <<typed, client, turn, local, toServer, server, offers, free,
                 store, past, given>>

send_file(sharer) ==
  /\ rest(sharer) > 0 /\ sharer.mode = "read"
  /\ client # "exited"
  /\ LET data == Portion(store[sharer.file], sharer.written)
         sent == [sharer EXCEPT !.written = @ + Len(data)]
     IN  /\ Answer(Chunk(sharer.id, data))
         /\ senders' = (senders \ {sharer}) \union {sent}
  /\ UNCHANGED <<typed, client, turn, local, toServer, server, offers, free,
                 store, past, given>>

\* Everything was sent, or the file cannot be read, or the client is gone.
send_file_ends(sharer) ==
  /\ rest(sharer) = 0 \/ sharer.mode = "write" \/ client = "exited"
  /\ senders' = senders \ {sharer}
  /\ UNCHANGED <<typed, client, turn, local, toServer, server, offers, free,
                 store, toClient, past, given>>

Sender == \E sharer \in senders : send_file(sharer) \/ send_file_ends(sharer)

Next ==
  type_command \/ Loop \/ handle_client_message \/ read_fails \/ Sender

Spec == Init /\ [][Next]_vars

\* The loop of the client runs on; threads run when they can.
FairSpec ==
  /\ Spec
  /\ WF_vars(Loop)
  /\ WF_vars(handle_client_message)
  /\ WF_vars(Sender)

-----------------------------------------------------------------------------
(* Properties *)

ChunkMessages == [kind : {"Chunk"}, id : Ids, data : Seq(Piece)]

ClientMessages ==
  [kind : {"RequestFileUpload"}, name : Names, size : Nat, id : Ids]
    \union [kind : {"RequestFileDownload"}, name : Names]
    \union [kind : {"AgreeFileDownload"}, id : Ids]
    \union ChunkMessages \union {Part}

ServerMessages ==
  [kind : {"AgreeFileUpload", "DeclineFileUpload"}, id : Ids]
    \union [kind : {"AgreeFileDownload"}, name : Names, size : Nat, id : Ids]
    \union [kind : {"DeclineFileDownload"}, name : Names]
    \union ChunkMessages

\* Nobody calls a file by a number, so that no name is the key of a number.
NamesAreNoNumbers == Names \intersect Ids = {}

\* Every variable has its type; no counter runs past the length of a file, on the
\* side of the client only if no name is a number.
TypeOK ==
  /\ typed \in Seq(Commands)
  /\ client \in {"command", "read", "send", "exited"}
  /\ turn \in Nat
  /\ sharers \in [Keys -> Sharer \union {None}]
  /\ next \in Ids
  /\ queue \in Seq(Sharer)
  /\ home \in [Places -> Seq(Piece) \union {None}]
  /\ toServer \in Seq(ClientMessages)
  /\ server \in {"serving", "ended"}
  /\ offers \in [Keys -> Sharer \union {None}]
  /\ free \in Ids
  /\ senders \subseteq Sharer
  /\ store \in [Names -> Seq(Piece) \union {None}]
  /\ toClient \in Seq(ServerMessages)
  /\ asked \in Seq(Uploads)
  /\ sought \subseteq Downloads
  /\ refused \subseteq [upload : Ids] \union [download : Names]
  /\ announced \subseteq Names
  /\ saved \subseteq Downloads
  /\ given \in Seq(Commands) /\ Len(given) <= MaxCommands
  /\ \A sharer \in senders : sharer.written <= sharer.size
  /\ NamesAreNoNumbers => \A sharer \in Range(queue) : sharer.written <= sharer.size

\* A file is announced (handle_client_chunk, NewFile) when the server has all of
\* it, whatever else was going on over the connection.
AnnouncedIsComplete ==
  \A name \in announced : \E k \in 1..Len(asked) :
    asked[k].name = name /\ store[name] = Original(asked[k].path)

CopyOf(d) ==
  /\ store[d.name] # None
  /\ IsPrefix(home[d.place], store[d.name])
  /\ d.name \in Stored => home[d.place] = store[d.name]

FetchedOnce(place) ==
  LET fetches(i) == "download" \in DOMAIN given[i] /\ given[i].download.place = place
  IN  \A i, j \in 1..Len(given) : fetches(i) /\ fetches(j) => i = j

\* A download is reported when the file is a copy of the server's, or, when it
\* was still being uploaded, of the beginning of it; if nothing else was to be
\* saved at that place.
SavedIsComplete == \A d \in saved : FetchedOnce(d.place) => CopyOf(d)

\* Archive, the abstract specification of the directory of the server.
Archive == INSTANCE Archive WITH
  Originals <- {Original(path) : path \in Paths},
  Kept      <- [name \in Stored |-> Original(name)],
  files     <- store

\* The files of the server are an archive, whatever is filed under the numbers of
\* chunks: handle_client_request_file_upload begins files that are not there, and
\* handle_client_chunk adds to them, so that send_file, which reads files that are
\* still uploaded, goes on where it was; it sends NewFile with the last piece only,
\* once, and the file stays as it is.
ImplementsArchive == Archive!Spec

\* README: "the `id` is used to refer to this file transfer procedure (as opposed
\* to transferring other files if they are sent simultaneously)": a chunk on its
\* way to the server finds the file of its upload there.
TransfersAreSeparate ==
  \A k \in 1..Len(toServer) :
    toServer[k].kind = "Chunk" =>
      /\ offers[toServer[k].id] # None
      /\ offers[toServer[k].id].file = asked[toServer[k].id + 1].name

\* While an upload is being sent, what the client counts as written is what the
\* server has and what is on its way, also after chunks the socket refused, until
\* the server reads one the socket had taken a part of; as long as no download
\* takes its number.
SentIsAccountedFor ==
  client # "exited" /\ server = "serving" /\ sought = {} =>
    \A k \in 1..Len(queue) :
      LET underway == {i \in 1..Len(toServer) :
            /\ toServer[i].kind = "Chunk" /\ toServer[i].id = queue[k].id
            /\ toServer[i].data # <<>>}
      IN  /\ offers[queue[k].id] # None
          /\ queue[k].written = offers[queue[k].id].written + Cardinality(underway)

\* An upload that was requested is announced or declined, if the program of the
\* client goes on and nothing is downloaded meanwhile; unless the server reads a
\* chunk that was written in part, after which it handles nothing more.
UploadCompletes ==
  \A k \in 1..MaxCommands :
    Len(asked) >= k
      ~> \/ client = "exited" \/ sought # {} \/ server = "ended"
         \/ [upload |-> k - 1] \in refused
         \/ Len(asked) >= k /\ asked[k].name \in announced

\* Nothing is sent of an empty file, so that nobody finds it complete.
IsEmpty(name) == name \in Stored /\ Size[name] = 0

\* Two downloads of one name are one entry of the map until the server agrees.
SoughtElsewhere(d) == \E other \in sought : other.name = d.name /\ other # d

\* README: "The end of the file transfer is handled by the receiver by the check
\* that the number of already accepted bytes equals the initially sent `size`": a
\* download that was requested is saved or declined, if the program of the client
\* goes on and nothing is uploaded meanwhile; but not of an empty file, and not
\* if the same name is to be saved at another place, too.
DownloadCompletes ==
  \A d \in Downloads :
    d \in sought
      ~> \/ client = "exited" \/ asked # <<>>
         \/ [download |-> d.name] \in refused
         \/ d \in saved
         \/ IsEmpty(d.name) \/ SoughtElsewhere(d)
===============================================================================
