# A verification of NetLab1

NetLab1 is a chat over TCP written in Rust: a server with one thread per
connection, a client that polls a non-blocking socket and its console in one
loop, and a shared crate with the message types, the framing and the file
transfer. This directory holds its TLA+ model, the
instances TLC checks and the theorems TLAPS proves. Paths below are relative to
`src/`, `README.md:n` in a finding is the README of the program.

## The system

| component | state | operations | talks to |
|---|---|---|---|
| **Chat room** `server/src/lib.rs`, `server/src/connection.rs` | `clients` (address -> writing session) and `names` (address -> name), each behind an `RwLock`; one thread and one reading stream per connection | `handle_connection`, `greet_user`, insertion, `read_and_handle_client_message`, `handle_client_*`, `broadcast`, `rename`, `remove_from_clients` | the maps are shared by all threads; `broadcast` writes to every peer under the lock of `clients` |
| **File transfer** `shared/src/connection.rs`, `shared/src/connection/{helpers,sharers}.rs`, handlers in both `lib.rs` | per session `reading_sharers` (key -> open file), `nexd_id`, and on the client `sending_sharers` | request, agree, decline, promote, chunk, complete | both ends number transfers and file sharers under names and numbers |
| **Shared directory** | the files under the server's `files` directory | exists, create, write, metadata | upload and download of all threads |
| **Framing** `shared/src/communication/bson.rs`, `shared/src/helpers/capped_reader.rs` | buffer, offset, last message, remaining budget | `read`, `find_size`, `read_message`, `write_message` | below every session |
| **Messages** `shared/src/connection/messages.rs` | none | size bounds | what framing may reject |
| **Console** `client/src/chars_reader.rs`, `shared/src/helpers.rs`, `client/src/commands.rs` | the buffer of standard input, a cache of characters that points into it, the channel of commands | decode, peek, parse, send | a thread of its own, which feeds the loop through a channel |
| **Client loop** `client/src/lib.rs`, `client/src/connection.rs` | `connection`, if any, and its transfers | carry out commands, poll, send chunks, reconnect | the server, the console |
| **Locks** `shared/src/helpers/shared.rs`, `.../shared/map.rs` | one `RwLock` per shared object | read, write | chat room, client |
| **JSON and ARSON adapters, error types** | none the protocol depends on | conversions | |

### What is hard in it

* Threads interleave between any two holds of a lock: greeting, inserting,
  renaming, removing from one map and from the other, and broadcasting are each a
  hold (or two) of their own.
* A broadcast writes to sockets under the lock; a peer may close or be reset at
  any of those writes, and the first error ends the loop and the thread.
* `name()` and `remote_address()` ask the socket for its peer, so cleaning up
  depends on the stream still being connected.
* A read may stop inside a message, or return several; the cap on the size of a
  message is enforced on reads, not on messages.
* Both ends of a file transfer number transfers on their own, and file them in a
  map shared by both directions and by names.
* The client's socket is non-blocking: a chunk may be refused, or written in part.
* Locks are taken inside locks in some thirty places, through references that are
  themselves locked; writes happen under them.
* The server's directory is shared by all threads and nothing about it is locked.
* Standard input may be cut anywhere, also inside a character.

`PROJECT.json` lists each of these at the line where it bites.

### What makes each component correct

* Chat room: all peers see broadcasts in one order, none twice; no member misses
  one between two others; nothing of a user follows its farewell; a thread that
  stops leaves no entry; displayed names identify one connection; everyone who
  waits for the lock gets it; a closed peer is noticed, and forgotten if no RST has come.
* Framing: what is read is what was written, in order, whatever the pieces it
  comes in; a message within the cap is never refused, one above it never
  accepted. (The buffer of the client is not bounded by the cap: each read may add
  up to the cap and takes out one message.)
* Messages: a message within the limits of its fields fits the cap.
* File transfer: a completed file is a copy of its source; a started transfer
  completes; transfers do not disturb each other.
* Shared directory: two accepted uploads never write to one file.
* Console: the commands are those of the lines typed, none is skipped; the program
  ends with its input.
* Client loop: every accepted command is carried out once; a chunk the socket does not
  take is neither skipped nor repeated. (One it takes in part is repeated from its
  beginning, and the upload is lost; see *FileTransfer*.)
* Locks: no threads wait for each other in a circle; messages to a peer are not
  mixed; only a peer that does not read can hold others up.

## The plan

1. `ChatServer`, refined to `Room`; `MCChatServer`; `ChatServerProofs`. *Done.*
2. `Scanner` and `Reader` over `ByteStream`, refined to `Fifo`; `FramingProofs`. *Done.*
3. `FileTransfer`: one client and its server thread, both directions at once, refined to
   `Archive`;
   `FileTransferProofs`. *Done.*
4. `Messages`: the arithmetic of the limits; `MessagesProofs`. *Done.*
5. `ServerFiles`: several server threads over the shared directory;
   `ServerFilesProofs`. *Done.*
6. `RoomLocks`: every lock a thread takes, in order, with writes that may block;
   `RoomLocksProofs`. *Done.*
7. `Console` over `Filter`: the reader of characters, the parser and the channel of
   commands; `FilterProofs`, `ConsoleProofs`. *Done.*
8. In `FileTransfer`, a chunk written in part. *Done.* A connection that replaces
   another. *Open:* see *Not modelled*.

## ChatServer

A connection stands for its socket, the thread that serves it and the peer
address both maps use as its key.

| variable | code |
|---|---|
| `clients` | key set of `Context.clients` |
| `names` | `Context.names`; the entry of the server's own address is the constant `ServerName` |
| `lock` | the write guard of `clients` held by `broadcast` |
| `sock`, `inbox` | what the kernel of the server knows of the peer, and what it has received |
| `pc`, `then`, `msg`, `todo` | the program counter of each thread, its return point, the message it is writing and the entries its loop has still to visit |
| `out`, `count`, `sent` | history: what each live peer was sent, how many broadcasts began, how many messages the clients sent |

One action is one piece of a handler between two points at which another thread
may act: a lock acquired, a lock released, a write, a read, a call of
`peer_addr()`. `clients.write()?.insert(..)` and `.remove(..)` are one action
each, guarded by the lock being free; `broadcast` is `broadcast_lock`, one
`broadcast_write` or `broadcast_fails` per entry (in any order, a `HashMap`
promises none) and `broadcast_unlock`. `rename` is one action: the check and the
insertion are one hold of the lock of `names`, and no other state is touched in
between. `handle_upper_bound_violation` removes, then broadcasts an `Interrupt`,
and then stops the thread, which removes again; `handle_client_leave` likewise.
`then` carries this through the shared code of removing and broadcasting.

The peer and the network are the environment. Peers send any of `Requests`,
close, and are reset. `sock` follows TCP: after the peer has closed, reads return
the rest and then 0, the first write still succeeds and provokes a RST
("poked"); after the RST, reads and writes fail and `peer_addr()` fails with
`ENOTCONN`. The RST of a poked peer may come at any moment, or late, in every run;
an open peer is reset only where `Faults` has "reset". A reset may lose any suffix of
what was in flight. Fatal write errors are only those of a reset stream.

The Interrupt that reports a closed peer is broadcast while that peer is still in
`clients`, so that it is written to the peer itself and pokes it. If the RST is
there before `remove_from_clients` asks `peer_addr()`, the thread ends with an error
and leaves its entries: `ClosedIsForgotten` promises that a closed peer is noticed
and its thread ends, and that it is forgotten as long as no RST has come
(`NobodyReset`).

`Room` is the abstract specification: a set of members, a speaker, the members
the open broadcast still owes, a count of broadcasts, and for each member the
numbers it was given. Members join and part only between broadcasts. The
refinement maps `owed` to the `todo` of the thread that holds the lock.

## ByteStream, Scanner, Reader

`ByteStream` is one direction of a connection as a reader sees it. Bytes are known
by their position; a document is the stretch of positions it occupies
(`written`), so that a byte lost, repeated or cut at the wrong place shows as a
stretch that was never written. `sent` is how far the bytes have arrived,
`received` how many the reader has taken, `offset` is the field of `CappedReader`.
The writing end may close, or be reset; a reset may lose what was not yet taken.
The length field of a document is read from the first `Header` bytes; read from
any other position it could hold anything (`SizeFields`), so that a reader that
loses its place is not saved by the model.

| module | code | one action |
|---|---|---|
| `Scanner` | `BsonScanner`, read by the client | `scan_message` (its `read_message`): one read of the non-blocking socket of any size the cap leaves, and `parse`, which takes at most one document out of the buffer and lifts the cap. The buffer is the stretch from `first` to `received` |
| `Reader` | `BsonReader`, read by the server | `read_message`: one read of what `Document::from_reader` asks for (the length, then the rest), cut to the cap; with the last piece `clear()` |

`read_refused` is the `InvalidData` of the capped reader, `read_end` and
`read_reset` the ends of the stream that become `NothingToRead`. A read of 0
bytes is no news to the scanner, so the client never notices an orderly close;
the reader does. Typed messages (`arson.rs`) are documents one to one.

`Fifo` is the abstract specification of both: what comes out is what went in, in
order.

## FileTransfer

The loop of the client (`client`: a command, a message, then one chunk of each
file being sent), the thread of the server that serves it, and the threads that
run `send_file` interleave; the two channels are sequences. `sharers` and
`offers` are the two `reading_sharers` maps, whose keys are names of files and
numbers alike, as in the code, where a number is formatted as a string: a number
among `Names` is a file with a name of digits. `queue` is `sending_sharers`,
`senders` the sharers owned by sending threads. A file is a sequence of pieces of
originals, one per chunk; a sharer has a mode, since a file opened to be read
cannot be written to, and a write at a position beyond the end leaves a hole.

A name of digits is a number among `Names`: `NamesAreNoNumbers` says there is none. With
one, an entry of a map can be read as a request and as a transfer, and some
properties are about the ordinary case only. `FetchedOnce` says that a place was named
by one of the commands given; a second download to it empties the first.

Commands go through `typed`, the channel between the console thread and the loop:
the check of a local path is made when the command is typed. `Sessions` bounds which
sequences of commands are typed. A file that cannot be opened or created after all
ends the program, as `/quit` does: `command_ends`.

The socket of the client takes `Window` messages. A request it does not take, or
takes a part of, is an error and ends the program. A chunk it does not take is tried
again: `send_chunk` winds the file back to `written`. `write_all` may have given the
socket a part by then (`Refused`), which stays in the stream as a `Part`, with the
whole chunk behind it at the next try, and further chunks and messages behind that.
`handle_client_part` is what the server makes of it: the reader takes what comes
next for the rest of the chunk, of which the length is known. The array of a chunk
has one element per byte of data, with a type, an index and a value, and the field
`id` behind it, so that a document that continues with the beginning of another is
an error of the parser (or waits for bytes that never come), and the error ends the
thread (`read_and_handle_client_message`, `?`); it is not the end of the stream, so
nobody is told and the entry stays in `clients`. One cut is different and is left
out: if only the last byte of the chunk is missing, which is 0, and the next message
has a length that is a multiple of 256, its first byte is that 0, the chunk is
whole, and the error is that of the next message. `server` is "ended" when no more
messages are handled, and threads that send files go on. In `Window` a part counts
as a message. Texts and renames are left out: here they would only take a place in
the socket, and one that is refused ends the program, which `command_ends` may do
instead.

An empty upload may end the program in `percentage()`, a division by zero.

`Archive` is the abstract specification of the directory as one client sees it: a file
is begun once, filled from the front with one original, announced in the step that
completes it, and stays. With several clients this is not so, as `shared` shows;
`ServerFiles` has what is left of it then.

Not in this module: a local write that is short (`accept_chunk` calls `file.write`,
which may write less than it is given, and counts the whole; here as in
`ServerFiles` it writes all), other clients (`ServerFiles`), the broadcast of
`NewFile` (`ChatServer` has broadcasts; here it is the set `announced`), a failure
of that broadcast, and `DeclineFileDownload` of a client, which no client sends
(`ServerFiles` and `RoomLocks` have its handler).

## ServerFiles

One directory, and the threads of many connections that fill and read it.

| variable | code |
|---|---|
| `files` | the directory; a file is a sequence of pieces of what clients upload, what was never written is a hole |
| `phase`, `sharer` | where the one transfer of each connection is, and its `FileSharer` with the position of its own file descriptor |
| `got` | the local file of a downloading client |
| `accepted`, `announced`, `late` | history: who was granted a name, which names were broadcast, which downloads asked after that |
| `gone` | connections that were interrupted |

`exists()` and `File::create()` are two actions, `Check_upload` and `Create`, since
another thread may run between them; a write, a read and the asking for the length
of a file are one each. A write is never short (see *FileTransfer*). The threads
that send read what others have written so far, in chunks of `CHUNK_SIZE` pieces.
`rest()` is unsigned: beyond the size there is always something left, and
`send_chunk` goes on for ever; that it never comes to this is `NoOvershoot`. An
interrupted upload leaves its file.

## RoomLocks

A thread is the path of guards it goes along. `path[t]` is a sequence of sets of
locks, of which the first are held and the second are those of the next step;
taking a step waits until every newly wanted lock is free. The path of each call
is written down from the code, guard by guard (`name`, `rename`, `broadcast`,
`remove_from_clients`, `write_message`...): a temporary guard (`self.inner.read()?`)
lives to the end of its expression, a named one to the end of its block. The
handlers are sequences of calls (`Handler`).

| variable | code |
|---|---|
| `status`, `agenda`, `path` | a thread, the calls it has still to make, the guards it holds and will hold |
| `owed`, `members` | the entries an open broadcast has still to visit, the keys of `clients` |
| `space`, `gone` | how many pieces the socket of a peer takes before a write blocks; peers that vanished |
| `partial` | history: the threads that are in the middle of a message to a peer |

The sessions of a connection are two contexts (`context` of the reading one,
`greeter` of the one made to write), each a `Shared` with a lock; the writing
one is in the map as `entry`. `Rank` orders the kinds of locks. A write of a message
is one to `Pieces` steps, each of which needs space in the socket of the peer; a
read waits for the peer. The peer drains its socket or does not, sends one of
`Requests`, closes. `Shared::broadcast` and `Shared::remove_from_clients` take the
maps out of the context before they lock them, with the comment "Prevents the
deadlock"; the module says of what, and the mutants put it back.

## Messages

The lengths of the fields of each message, the checks the console and the
server make of them, and the size of the BSON document each becomes. One
exchange (a request and what the server answers) is one action; the state is the
length of the user's name, which later messages carry, and the sizes on the wire.

## Console

Standard input is bytes with one wide character of two bytes, so that a read or the
buffer may end inside it; bytes that are no characters can be typed too. `buffer` is
the `BufReader`, `cache` the characters of `CharsReader` that point into it,
`peeked` what the `Peekable` keeps, also a `None`. `parse_words` and `parse_text`
are one action per character, `parse` one per decision, `handle_user_command` the
loop at the other end of the channel: it carries commands out one by one, and ends
at `End` or when connecting fails. What a command does to a connection is in
`FileTransfer`. `Lines`, `Words` and `Meaning` say what the input means without
reading it character by character; the properties compare the two. What the words of
a line ask for (`Asked`: which of them is the name and which the path, what is
assumed when one is missing, `FileName`) and what the console lets pass
(`Permitted`) are said there a second time, after the README and without the
functions of the parser. In one place the README could not be followed: it has
`/upload <name> [local_path]` (`README.md:48-53`), and the code takes the path first
(`client/src/commands.rs:80-95`). `Asked` has the order of the code; the mutant of
`CommandsAreOfLines` is the parser the README describes. `Filter` has what they are
made of: the places of a sequence that satisfy something, in order (`Ascending`:
where the lines end, where the words begin), and a sequence without some values
(`Without`: bytes without tails, a line without carriage returns).

## The runs

| run | instance | shows |
|---|---|---|
| `room` | 3 connections, 3 messages, no faults | `ImplementsRoom`, and `NoBroadcastMissed`: no gap between two holds of the lock loses a broadcast |
| `faults` | 2 connections, 2 messages of any kind, close and reset | `TypeOK`, `DeliveredInOrder`, `FarewellIsLast`, `StoppedLeavesNoTrace`, `DisplayNamesUnique` |
| `closing` | 2 connections, 2 texts or leaves, peers close and answer what is written to them with a RST, fair threads | `BroadcastIsServed`, `ClosedIsForgotten` |
| `scanner` | 3 documents of 3, 6, 7 or 8 bytes, cap 6, length field of 2; close and reset; fair polling | `TypeOK`, `NeverRefused`, `ImplementsFifo`, `ArrivedIsRead` |
| `reader` | the same, fair reading | `TypeOK`, `NeverRefused`, `NothingOversizedIsRead`, `ImplementsFifo`, `EndIsNoticed` |
| `transfers` | 3 commands: uploads of 3, 1 and 0 chunks, two for one name, downloads of 2 chunks to one place or two, of an empty file and of the file being uploaded; window 2, chunks refused wholly or in part; fair loop and threads | `TypeOK`, `AnnouncedIsComplete`, `SavedIsComplete`, `SentIsAccountedFor`, `ImplementsArchive`, `UploadCompletes`, `DownloadCompletes` |
| `locks` | 2 connections, 4 threads, one message of any of 4 kinds, messages of one or two pieces, windows of one; one peer may vanish; fair threads | `TypeOK`, `NoCircularWait`, `MessagesAreWhole`, `EveryoneGetsThrough`, `NamesAreNeverStalled` |
| `files` | uploads of 3 and 4 pieces and 2 downloads over 2 names, chunks of 2; an uploader and a downloader may be interrupted; fair senders | `TypeOK`, `AnnouncedIsComplete`, `DeliveredIsStored`, `NoOvershoot`, `SendingEnds` |
| `console` | all inputs of up to 4 of 6 keys, and 7 with every command; reads of any length up to 8 bytes | `TypeOK`, `CacheIsBuffered`, `CommandsAreOfLines`, `NothingIsSkipped`, `EndsAtLast` |

What a run's properties leave open is part of what they say. A download of a file
that is being uploaded is a copy of its beginning (`SavedIsComplete`), which is what
the code promises of it; `UploadCompletes` and `SentIsAccountedFor` are about
uploads no download crosses, `DownloadCompletes` about downloads no upload crosses,
because `crossing` below breaks both. `SentIsAccountedFor` and `UploadCompletes`
hold until the thread of the server reads a chunk written in part: then the upload
is neither announced nor declined and the client goes on. `DownloadCompletes` has
two more exceptions, both of which occur in the run: an empty file of the server, of
which no chunk is ever sent (`IsEmpty`), and a name that is also to be saved
elsewhere, since the two are one entry of the map until the server agrees
(`SoughtElsewhere`). `AnnouncedIsComplete`, `SavedIsComplete` and
`ImplementsArchive` have no such exception. `NoBroadcastMissed` is about a room in
which nobody was reset: the write to a reset peer ends the broadcast for the members
behind it. The properties of `files` are about names that were granted once, because
`shared` below grants one twice. `EveryoneGetsThrough` has a way out, a peer that
does not read: its socket fills, the write to it blocks under the lock of `clients`,
and everybody who broadcasts, enters or leaves waits for it. `NamesAreNeverStalled`
is what is left: names are not among what it can hold up. `NothingIsSkipped` is
about reads that bring whole characters; one that does not is taken for the end of
the input.

**Bounds.** `MaxSent` caps the messages of all clients together, and is the only
bound of `ChatServer`: broadcasts, entries and outputs are finite because a thread
broadcasts at most once per message, once for the greeting and once for the
farewell. Three connections are a writer, a member that is written to and a third
that waits for the lock or leaves; with two connections and two messages of any kind
a thread renames or talks and then leaves, is interrupted or is refused, while the
other is at any point of its life. Symmetry among connections is used by the runs
without liveness only.

`MaxMessages` caps the documents of a stream. A document of 3 bytes is one byte
beyond its length field, one of 6 fills the cap exactly, one of 7 is the smallest
illegal one and one of 8 is still incomplete when the cap is passed by a byte; three
documents are one that is taken out, one whose first bytes came with it, and one
that is behind both. `MaxCommands` caps what the user types. Three commands are two
transfers that meet in a map and one that comes later, or a command that is typed
twice with another in between; three chunks are more than the window of two, so that
the socket fills in the middle of a file, and a part of the third is behind two.
`Sessions` is all sequences of commands (`crossing`), or those with at most one
download of `b`, the long one, and those with two of it and nothing else
(`transfers`): two senders of two chunks each, to two places, take long to
interleave with a third transfer.

In `locks` one message is read by one of two threads while the other three are
anywhere in theirs: greeting, broadcasting to both, sending a file, removing. Two
pieces and a window of one make a write block in the middle of a message. A thread
of the server handles one message after another without keeping a guard in between
(`Return` drops all), so that a second message adds no nesting; the theorems hold
for any number. The kinds of messages left out of `Requests` (`Upload`, `Chunk`,
`Request`, `Decline`, `TooLong`) nest no locks that the four do not, and are in the
theorems. In `files`, chunks of 2 make a file of a whole number of them and one with
a short last one; two names and two uploads are a name that is contested and one
that is not. In `console`, four keys are two lines, a broken character in any place
and a command word; the longer inputs have every command, `MaxEnds` caps the `End`s
sent before the loop sees the first.

**Fairness.** `FairSpec` assumes weak fairness of each thread: the operating system
runs a thread that can run. It is not assumed that the lock is granted fairly. The
bound on messages makes the contention for it finite, which is why weak fairness is
enough; a room in which others broadcast for ever could starve a thread, and an
`RwLock` does not exclude that. Of peers, nothing is assumed as to their sending and
closing. As to their reading: in `ChatServer` writes end, and so they do in
`FileTransfer` and `ServerFiles`, where a weakly fair thread that sends a file
assumes that the client that downloads it reads, as the loop of this program does;
in `RoomLocks` nothing is assumed and writes may block for ever.

Of the readers it is assumed that they go on polling or reading, as the loops
that call them do. The loop of the client, the serving thread and the sending
threads of `FileTransfer` are each weakly fair; the user is not. In `ServerFiles` only
the threads that send are, since uploads depend on clients. In `Console` both
threads are: that the input comes at all is not assumed, a read may bring
nothing.

**Deadlock** is not checked: when nobody sends, every thread is blocked in a
read and the server rests. That threads wait for each other in a circle is not left
to this check: `NoCircularWait` says it of any set of threads.

### Where the code and its README part

Each of these runs checks one statement of the program's README and TLC finds
the behaviour of the code that violates it.

| run | property | what happens |
|---|---|---|
| `crossing` | `TransfersAreSeparate` | an upload and a download at once are both number 0 and take each other's place |
| `shared` | `GrantedOnce` | two uploads of one name pass `exists()` before either creates the file, and both write to it |
| `oversized` | `NoOversizedMessage` | the refusal of a download repeats the name: of a name of 948 bytes `DeclineFileDownload` takes 77 + 948 = 1025 bytes, and the client ends at it. The code allows 958 (1035 bytes); with the 479 of `README.md:73` it would fit. A `UserRenamed` with both names at their bound of 486 is beyond the maximum too, 53 + 486 + 486 = 1025 |

Also seen in the models, without a run of their own:

* Two users that arrive together are not told of each other: the greeting and the
  insertion are two holds of the lock (`greet_user`, `handle_client`).
* `UserRenamed` is written to its author alone (`handle_client_rename`), where the
  README has the server broadcast it.
* `parse` lifts the cap while the buffer holds the beginning of the next document,
  which is not counted: the client accepts a document longer than the cap.
* A thread that ends with an error (an unparsable message, a reset peer, a write to
  one that is gone) leaves its entry in the map and the stream open; only the `Stop`
  path removes. The README has the connection dropped (`read_unparsable`).
* The Interrupt of a closed peer is written to that peer too, the RST that answers
  it makes `peer_addr()` fail in `remove_from_clients`, and the entries stay
  (`broadcast_interupt`, `remove_from_clients`).
* `broadcast_interupt` calls `name()` first, which fails on a reset stream, so that
  a reset peer is never reported as interrupted.
* The first write of a broadcast that fails ends the loop and the thread of the
  sender; members behind it miss the message (`broadcast_fails`).
* A download typed twice before the first is carried out empties the file that is
  being filled (`type_command`, `perform_download_file`).
* A chunk of which the socket takes a part is sent again from its beginning: the
  server reads a broken document, its thread ends with an error, and the upload is
  neither announced nor declined, while the client goes on (`Refused`,
  `handle_client_part`).
* Two downloads of one name to two places, typed one after the other, are one entry
  of the map of the client: the first is never reported (`prepare_sharer`).
* `/upload` takes the path first and then the name (`client/src/commands.rs:80-95`),
  where `README.md:48-53` has the name first and then the path.
* The download of an empty file never completes, as the server sends no chunk of it
  and the client waits for one (`send_file`).
* `README.md` gives the limit of file names as 479, `messages.rs` as 958.
* A blank at the end of a line leaves an empty last word: `/rename ` asks for an
  empty name, `/connect host ` connects to no port, which ends the client.
* A read of standard input that ends inside a character, or bytes that are none, are
  taken for the end of the input: the line so far is carried out and the program
  ends.
* An upload that is cut off leaves its file, and the name stays refused.
* A file called `0` is filed under the same key as the transfer number 0; the
  request for it takes that transfer's place and is completed by its next chunk.
  What the server announces is complete all the same (`AnnouncedAreComplete`); what
  the client saves is not, nor is what it counts as sent, so that `SavedAreComplete`
  and `SentIsAccounted` have `NamesAreNoNumbers` as a hypothesis.

## The theorems

`ChatServerProofs` proves, for any set of connections, names, requests and faults
that satisfies `ConstantsAssumption` (TLC evaluates it on every run):

| theorem | states |
|---|---|
| `TypeCorrect` | `Spec => []TypeOK` |
| `LockIsDisciplined` | who writes holds the lock, and writes to members only |
| `BroadcastsAreOrdered` | `Spec => []DeliveredInOrder` |
| `NamesAreUnique` | `Spec => []DisplayNamesUnique` |
| `NoTraceIsLeft` | `Spec => []StoppedLeavesNoTrace` |
| `FarewellsAreLast` | `Spec => []FarewellIsLast` |
| `ServerIsARoom` | `Spec => ImplementsRoom` |
| `BroadcastsReachEveryone` | `Spec => []NoBroadcastMissed`, which is about rooms in which nobody was reset |

None of the properties is inductive. `LockDiscipline` says that the thread at
"writing" is the one that holds the lock and owes members only; it makes two
broadcasts exclude each other and freezes the membership. On it rests `Numbering`:
the broadcast under way has the highest number, and no peer it has still to visit
was sent it, so that appending it keeps the order. `Membership` says which stages of
a thread are outside the map; with it `StoppedLeavesNoTrace` follows, as a thread
that is done is in no `todo`. `Farewells` says that a thread that has sent its
farewell to a peer has nothing left to write to that peer: it is broadcasting the
farewell to others, is on the way of removal, or has ended; this needs `then` to be
"stop" during a farewell and "end" after it. `UpToDate` says that, as long as no
peer was reset, a member that is connected was sent nothing yet, or the last
broadcast, or the last but one while the thread that writes will come to it; and
that a thread that has not entered was sent none, so that the insertion into the
map, which happens between broadcasts, keeps it. `DisplayNamesUnique` is inductive
with the type invariant. The proofs go through the actions one by one. The
refinement is proved step by step: a broadcast write is `Give`, a reply or greeting
`Whisper`, the insertion and removal `Join` and `Part`, all else stutters.

`FramingProofs` proves of both readers, for every cap, length field, set of sizes, set of
faults and number of documents that satisfy `StreamAssumption` (`Spec` is `ScannerSpec` or
`ReaderSpec`):

| theorem | states |
|---|---|
| `ScannerTypeCorrect`, `ReaderTypeCorrect` | `Spec => []TypeOK`: no read goes past the cap |
| `ScannerRefusesOnlyOversized`, `ReaderRefusesOnlyOversized` | `Spec => []NeverRefused` |
| `ReaderEnforcesTheCap` | `Spec => []NothingOversizedIsRead`, of the server |
| `ScannerIsAFifo`, `ReaderIsAFifo` | `Spec => ImplementsFifo` |

They rest on one inductive invariant each, `ScannerInvariant` and `ReaderInvariant`,
which have `Framing` in common: the documents written lie one behind the other
(`Layout`); those handed out are the first ones written and the buffer begins where
the last of them ends (`Aligned`), so that the length field is always read from the
beginning of a document; and the bytes counted against the cap are in the buffer, at
whose head is a document that is not yet complete (`ScannerWithinCap`,
`ReaderWithinCap`). That the writing end, the network, a read that returns a
document and one that does not keep `Framing` is proved once. A document that is not
complete when the cap is used up is longer than the cap, which is what
`NeverRefused` asks. For the scanner the count may be less than what the buffer
holds, since `parse` lifts the cap with bytes of the next document in it; for the
reader it is exact.

`RoomLocksProofs` proves, for any number of connections, messages, pieces and any
window, of all kinds of messages:

| theorem | states |
|---|---|
| `InductiveInvariant` | `Spec => []IInv` |
| `TypeCorrect` | `Spec => []TypeOK` |
| `NoDeadlock` | `Spec => []NoCircularWait` |
| `WholeMessages` | `Spec => []MessagesAreWhole` |

`IInv` is the type, `Paths`, `Exclusive`, `Lasting` and `Midway`. `Paths` says of
what is left of each path that it climbs (what is newly taken ranks above all that
is held) and that the writer of a peer is kept from the first to the last write of a
message; it is checked of every call once, and a suffix of a path that has it has it
too. `Exclusive`: no lock has two holders. `Lasting`: a broadcast keeps the clients
to its end, so that each visit climbs from there. `Midway`: who is in the middle of
a message holds the writer of the peer. If each of some threads waited for another
of them, a wait for a lock would lead to a wait of its holder for one ranked higher,
and so on; there are six ranks, so one of the threads waits for none of the others.

`ServerFilesProofs` proves, for any number of connections and names, any lengths of
files and any length of a chunk:

| theorem | states |
|---|---|
| `TypeCorrect` | `Spec => []TypeOK` |
| `NewFileIsComplete` | `Spec => []AnnouncedIsComplete` |
| `DownloadsAreStored` | `Spec => []DeliveredIsStored` |
| `SendingStaysWithin` | `Spec => []NoOvershoot` |

`IInv` is the type and four parts. `Upload`: what is open is an upload of the client's
size, and it is among those the name was granted to. `Granted`: a file is there when an
upload created it, and announced when one of them is over. `Stored`: of a name
granted once, the file is the beginning of the client's, in whole chunks or all of
it. `Download` and `Delivered`: what was promised is no more than what is stored, and
what arrived is its beginning; promise and position are whole chunks or the end. The
last part is why `NoOvershoot` holds: a read that starts on the grid of chunks and
before the promise ends before it or on it, although the file behind it has grown
(`ChunkStaysBelow`). Each of the theorems on contents is about names granted once
(`Once`), which the run `shared` shows is not all of them. The constants are assumed
to be as `FilesAssumption` has them: connections of one kind each, lengths are numbers,
a chunk has at least one piece, and `None` is no content and no sharer.

`FileTransferProofs` proves, for any files, names and lengths, any uploads and
downloads the user may ask for, any window and number of commands that satisfy
`TransferAssumption`, with both directions at once:

| theorem | states |
|---|---|
| `TypeCorrect` | `Spec => []TypeOK` |
| `AnnouncedAreComplete` | `Spec => []AnnouncedIsComplete` |
| `ServerIsAnArchive` | `Spec => ImplementsArchive` |
| `SentIsAccounted` | `Spec => []SentIsAccountedFor`, if no name is a number |
| `SavedAreComplete` | `Spec => []SavedIsComplete`, if no name is a number |
| `BasicHolds`, `UploadsArrive` | the invariants the first three follow from |

The hard part is that one transfer is scattered over two maps, two channels, a queue
and a set of threads, and that a map may hold an upload and a download under the
keys of each other. The invariant is built in layers, each kept by every step where
the earlier ones hold. `Basic` is what can be filed where: what is at a number is
open with that number, what is at a name still waits for one, and the commands, the
requests and the numbers used are together no more than `MaxCommands`, which is what
keeps the numbers within `Ids`. `Uploading` says that an upload is in one place:
requested, granted, in turn to be sent, or under its number at the server, each at
most once, which is counted over the channels (`Count`, `Before`); and that of the
chunks on their way each begins where the one before it ends, so that what the
server has is the beginning of the user's file up to the position of its sharer.
This does not depend on the client's map, which is why an upload that a download
displaced there still never makes the server announce half a file. The refinement
follows step by step: a granted request is `Begin`, a chunk that finds an open
upload is `Fill` or, of an empty file, `FillNothing` (`StoredContent`), all else
stutters. `Alone` is about a session in which nothing was sought: the position the
client counts is what is at the server and what is on the way. A write refused in
part adds a `Part` to what is on the way, which is no chunk and changes no position;
the server that reads it handles nothing more, which is where the property ends.
`Fetches` is `Uploading` in the other direction: a download is requested, offered,
agreed, sent by one thread and received at most once each, and what comes continues
what the client has. It rests on `Grown`, which every step is: since what was read
of a file of the server stays its beginning, a thread that sends one still being
uploaded goes on where it was. `Saves` relates the files at `Places` to the
commands: they are carried out in the order typed, and what is at a place that was
typed once (`FetchedOnce`) is the beginning of the server's file, as much of it as
the sharer counts.

`MessagesProofs` proves, for any lengths typed, that names stay within their bound
(`NamesAreBounded`) and that only the answer to a rename and the refusal of a
download are ever beyond the maximum, by at most 11 bytes (`OnlyTwoAnswersExceed`):
every other message fits, which is what the constants "found empirically" have
to guarantee.

`ConsoleProofs` proves, for any inputs, any capacity of the buffer and any way the
input comes in pieces that satisfy `ConsoleAssumption`:

| theorem | states |
|---|---|
| `ConsoleTypeCorrect` | `Spec => []TypeOK` |
| `TheCacheIsBuffered` | `Spec => []CacheIsBuffered` |
| `NoInputIsSkipped` | `Spec => []NothingIsSkipped` |
| `CommandsFollowLines` | `Spec => []CommandsAreOfLines` |

The properties compare a parser that sees one character at a time with what the
whole input means, so most of the work is about how that meaning grows when a character
is appended. `FilterProofs` is the beginning of it: induction, stated for sets of
numbers (`Least`, `Induct`, from the well-foundedness of the numbers), shows that
the recursive function behind `Ascending` exists and satisfies its equation, and then that
what it returns is in order, depends only on the numbers up to `n`, and grows at its end
(`AscendingMore`); `Without` of an appended or concatenated sequence follows.
`DecodedConcat` is this of bytes; `LinesAppend` says that a character belongs to the open
line (`Open`) or ends it, and `WordsAppend` that the words of a line with one more
character are `push_blank` or `push` of its words, which is what `parse_words` makes
of them. It is about lines that are not empty (an empty one has no last word to add
to); the invariant has to know that a command begins with its "/".

The invariant has four parts. `TypeInv` has `Cached` for the cache, which names the
bytes it comes from: it is what some valid beginning of the buffer decodes to.
Taking its head consumes exactly the bytes of that character (`CachedCharacter`),
and what remains is a prefix of what the buffer decodes to (`CachedIsPrefix`).
`Consumed` says that as long as no read was cut the input is what was read, the
buffer and what has not come, and that what was read is decoded to what was parsed
and peeked at, or that nothing is left. `Carried` says that the commands sent are
those of the ended lines, with `End`s behind them only once the `Peekable` keeps a
`None`; `Underway` ties `mode` and `words` to the open line, whose first character
is peeked at before it is taken, so that the line that ends is carried out as what
it means (`MeaningOfOpen`). TLC checked `Consumed`, `Carried` and `Underway` on the
instance of `console` before they were proved.

Only model-checked are the liveness properties: `UploadCompletes`,
`DownloadCompletes`, `BroadcastIsServed`, `ClosedIsForgotten`, `ArrivedIsRead`,
`EndIsNoticed`, `EveryoneGetsThrough`, `NamesAreNeverStalled`, `SendingEnds` and
`EndsAtLast`. Liveness under fairness is out of the prover's reach. Every invariant
and every refinement of the passing runs is a theorem, two of them under the
hypothesis their rows above name.

## Not modelled

* Of chunks written in part, the one cut after which the chunk is made whole by the
  first byte of the next message (see *FileTransfer*).
* A local write that is short: `accept_chunk` counts what it gave to `file.write`.
* A connection that replaces another (`/connect` while connected): the loop drops
  the session with its transfers. `FileTransfer` has one connection from beginning
  to end.
* Documents that are not well-formed BSON (`read_unparsable` of `ChatServer` has
  them as a message that cannot be read).
* A poisoned lock (a panic while holding it); the program treats it as an error.
* The locks of the client: its loop is one thread, and shares only the channel of
  commands with the console.
* The JSON reader, which neither program uses; ARSON, typed messages as BSON
  documents one to one; conversions of errors, whose kinds appear where they are
  handled.
