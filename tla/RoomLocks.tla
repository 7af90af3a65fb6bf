------------------------------- MODULE RoomLocks -------------------------------
(***************************************************************************)
(* Every lock a thread of the server takes, in the order in which it takes *)
(* them.  All shared objects are a `Shared', an RwLock; its guard lives as  *)
(* long as the expression or the block that took it.  A thread is therefore *)
(* described by the sets of guards it holds one after another: `path' holds *)
(* the present one first, then those to come until the call under way ends. *)
(* It goes on to the next when the lock it newly needs is free.             *)
(*                                                                         *)
(* Each connection has the thread that serves it and one that sends it a    *)
(* file.  A read guard counts as a write guard: nothing is read-locked but  *)
(* the contexts and streams, and those by one thread each.                  *)
(***************************************************************************)
EXTENDS Naturals, Sequences

CONSTANTS
  Conns,     \* connections
  Hall,      \* in place of a connection, in the locks all of them share
  Requests,  \* the kinds of messages the clients of this instance send
  Faulty,    \* the connections whose peers may close or be reset
  Pieces,    \* most calls of write() that one write_all() makes
  Window,    \* pieces a peer's socket takes while the peer does not read
  MaxSent    \* bound: messages read by all threads together

(***************************************************************************)
(* context, greeter: the ServerContext of the reading and of the writing    *)
(* session; entry: the session in the clients map; reader, writer: the      *)
(* ArsonReader and ArsonWriter; in, out: the two halves of the stream;      *)
(* files: reading_sharers.  A rank for each: no thread holds one of them    *)
(* while it waits for one of the same or a lower rank.                      *)
(***************************************************************************)
Rank == [context |-> 1, greeter |-> 1, files |-> 2, names |-> 2, clients |-> 3,
         entry |-> 4, reader |-> 5, writer |-> 5, in |-> 6, out |-> 6]

Lock == [kind : DOMAIN Rank, of : Conns \union {Hall}]

Threads == {"serve", "send"} \X Conns

VARIABLES
  status,   \* of each thread: "new", "running", "ended"
  agenda,   \* the calls each thread is about to make, the one under way first
  path,     \* the guards each thread holds now, and in the steps to come
  owed,     \* the entries a broadcast has still to write to
  members,  \* keys of the clients map
  partial,  \* history: the threads in the middle of a message to each peer
  space,    \* what the socket of each peer still takes
  gone,     \* peers that closed or were reset
  sent      \* messages read so far

vars == <<status, agenda, path, owed, members, partial, space, gone, sent>>

held(t) == Head(path[t])

Free(l, t) == \A u \in Threads \ {t} : l \notin held(u)

-----------------------------------------------------------------------------
(* The guards of each call, for the connection c *)

context(c) == [kind |-> "context", of |-> c]
greeter(c) == [kind |-> "greeter", of |-> c]
entry(c)   == [kind |-> "entry", of |-> c]
reader(c)  == [kind |-> "reader", of |-> c]
writer(c)  == [kind |-> "writer", of |-> c]
in(c)      == [kind |-> "in", of |-> c]
out(c)     == [kind |-> "out", of |-> c]
files(c)   == [kind |-> "files", of |-> c]
names      == [kind |-> "names", of |-> Hall]
clients    == [kind |-> "clients", of |-> Hall]

\* remote_address() of the session whose context and stream these are.
remote_address(session, stream) ==
  <<{}, {session}, {session, stream}, {}>>

name(session, stream) ==
  <<{}, {session}, {session, stream}, {session}, {session, names}, {}>>

\* Mutant: the shared session the broadcast goes through stays locked.
broadcast_locked(session) ==
  <<{}, {entry(session.of)}, {entry(session.of), clients}>>

\* The context is no longer locked after taking the clients.
broadcast(session) == <<{}, {session}, {}, {clients}>>

\* Mutant: the names are locked for as long as the peer is written to.
rename_replying(c) ==
  <<{}, {context(c)}, {context(c), names}, {context(c), names, writer(c)},
    {context(c), names, writer(c), out(c)}, {}>>

\* The names are locked while the address is asked for; a name that is refused
\* stops short of that.
rename(c) ==
  <<{}, {context(c)}, {context(c), names}, {context(c), names, in(c)},
    {context(c), names}, {}>>

remove_from_clients(c) ==
  <<{}, {context(c)}, {context(c), in(c)}, {}, {context(c)}, {}, {clients}, {},
    {context(c)}, {}, {names}, {}>>

\* One call on the context that puts a sharer into the map or looks one up.
share(c) == <<{}, {context(c)}, {context(c), files(c)}, {}>>

\* The map is locked twice, the context all along.
promote_sharer(c) ==
  <<{}, {context(c)}, {context(c), files(c)}, {context(c)}, {context(c), files(c)}, {}>>

free_id(c) == <<{}, {context(c)}, {}>>

\* Blocks at the last step but one until there is a message.
read_message(c) == <<{}, {reader(c)}, {reader(c), in(c)}, {}>>

\* Mutant: the writer is locked for every write on its own.
write_message_racing(guards, d, n) ==
  [k \in 1..2 * n + 1 |->
     guards \union (IF k % 2 = 0 THEN {writer(d), out(d)} ELSE {})]

\* Under these guards, a message in n pieces: the writer is locked for all of
\* it, the stream for every piece.
write_message(guards, d, n) ==
  [k \in 1..2 * n + 2 |->
     guards \union (IF k \in 2..2 * n + 1 THEN {writer(d)} ELSE {})
            \union (IF k > 1 /\ k % 2 = 1 THEN {out(d)} ELSE {})]

\* The entry of d in a broadcast, which keeps the clients locked.
visit(d, n) ==
  <<{clients}>> \o write_message({clients, entry(d)}, d, n) \o <<{clients}>>

\* The path of a call; the visits of a broadcast come later.
PathOf(call, c, n) ==
  CASE call = "hello"     -> name(greeter(c), out(c))
    [] call = "greet"     -> broadcast(greeter(c))
    [] call = "address"   -> remote_address(greeter(c), out(c))
    [] call = "insert"    -> <<{}, {clients}, {}>>
    [] call = "name"      -> name(context(c), in(c))
    [] call = "read"      -> read_message(c)
    [] call = "broadcast" -> broadcast(context(c))
    [] call = "rename"    -> rename(c)
    [] call = "remove"    -> remove_from_clients(c)
    [] call = "share"     -> share(c)
    [] call = "promote"   -> promote_sharer(c)
    [] call = "number"    -> free_id(c)
    [] call = "spawn"     -> <<{}>>
    [] OTHER              -> write_message({}, c, n)

Broadcasts == {"greet", "broadcast"}

Calls == Broadcasts \union
  {"hello", "address", "insert", "name", "read", "rename", "remove", "share",
   "promote", "number", "reply", "spawn", "end"}

-----------------------------------------------------------------------------
(* The calls of each part of a thread *)

greet_user == <<"hello", "greet", "reply", "address", "insert">>

handle_client_messages == <<"name", "read">>

handle_client_text == <<"name", "broadcast">>

handle_upper_bound_violation ==
  <<"name", "name", "remove", "name", "broadcast", "remove", "end">>

handle_client_leave == <<"name", "remove", "broadcast", "remove", "end">>

handle_client_rename == <<"rename", "reply">>

\* The last chunk of an upload: accept_chunk, remove_sharer, NewFile.
handle_client_chunk == <<"share", "share", "broadcast">>

\* An agreement; a refusal is the reply alone.
handle_client_request_file_upload == <<"share", "promote", "reply">>

handle_client_request_file_download == <<"number", "share", "promote", "reply">>

\* remove_sharer, send_file_non_blocking.
handle_client_agree_file_download == <<"share", "spawn">>

\* Also what a chunk in the middle of an upload comes to.
handle_client_decline_file_download == <<"share">>

\* The end of the stream.
broadcast_interupt == <<"name", "broadcast", "remove", "end">>

\* A file of one chunk; for more, the same again, with no guard in between.
send_file == <<"reply", "end">>

Handler ==
  [Text |-> handle_client_text, TooLong |-> handle_upper_bound_violation,
   Leave |-> handle_client_leave, Rename |-> handle_client_rename,
   Chunk |-> handle_client_chunk, Upload |-> handle_client_request_file_upload,
   Request |-> handle_client_request_file_download,
   Download |-> handle_client_agree_file_download,
   Decline |-> handle_client_decline_file_download]

ASSUME LocksAssumption ==
  /\ Hall \notin Conns
  /\ Requests \subseteq DOMAIN Handler
  /\ Faulty \subseteq Conns
  /\ Pieces \in Nat \ {0}
  /\ Window \in Nat \ {0}
  /\ MaxSent \in Nat

Init ==
  /\ status = [t \in Threads |-> "new"]
  /\ agenda = [t \in Threads |-> <<"end">>]
  /\ path = [t \in Threads |-> <<{}>>]
  /\ owed = [t \in Threads |-> {}]
  /\ members = {}
  /\ partial = [d \in Conns |-> {}]
  /\ space = [d \in Conns |-> Window]
  /\ gone = {}
  /\ sent = 0

-----------------------------------------------------------------------------
(* A thread goes along its path *)

Running(t) == status[t] = "running"

\* The thread waits in read() for its peer.
Reading(t) == Running(t) /\ {reader(t[2]), in(t[2])} \subseteq held(t)

\* The thread is in a write() to d.
Writing(t, d) == Running(t) /\ {writer(d), out(d)} \subseteq held(t)

InSocket(t) == Reading(t) \/ \E d \in Conns : Writing(t, d)

\* The guards the thread takes next.
Wanted(t) == IF Len(path[t]) > 1 THEN path[t][2] \ held(t) ELSE {}

Step(t) == path' = [path EXCEPT ![t] = Tail(@)]

\* What the call under way does with the clients map, once it is locked.
Visit(t) ==
  LET call == Head(agenda[t])
  IN  IF clients \in Wanted(t)
        THEN /\ members' = CASE call = "insert" -> members \union {t[2]}
                             [] call = "remove" -> members \ {t[2]}
                             [] OTHER -> members
             /\ owed' = [owed EXCEPT ![t] =
                           IF call \in Broadcasts THEN members ELSE {}]
        ELSE UNCHANGED <<members, owed>>

\* Guards are dropped, and the next one is waited for.
Lock_or_unlock(t) ==
  /\ Running(t) /\ ~InSocket(t)
  /\ Len(path[t]) > 1
  /\ \A l \in Wanted(t) : Free(l, t)
  /\ Step(t)
  /\ Visit(t)
  /\ UNCHANGED <<status, agenda, partial, space, gone, sent>>

\* Mutant: a socket takes more than it has space for.
Write_always(t, d) ==
  /\ Writing(t, d)
  /\ space' = [space EXCEPT ![d] = @ - 1]
  /\ Step(t)
  /\ partial' = [partial EXCEPT ![d] =
       IF \E k \in 2..Len(path[t]) : out(d) \in path[t][k]
         THEN @ \union {t} ELSE @ \ {t}]
  /\ UNCHANGED <<status, agenda, owed, members, gone, sent>>

\* The peer's socket takes a piece of the message.
Write(t, d) ==
  /\ Writing(t, d)
  /\ space[d] > 0
  /\ space' = [space EXCEPT ![d] = @ - 1]
  /\ Step(t)
  /\ partial' = [partial EXCEPT ![d] =
       IF \E k \in 2..Len(path[t]) : out(d) \in path[t][k]
         THEN @ \union {t} ELSE @ \ {t}]
  /\ UNCHANGED <<status, agenda, owed, members, gone, sent>>

\* The broadcast comes to the entry of d.
Visit_entry(t, d) ==
  /\ Running(t) /\ Head(agenda[t]) \in Broadcasts
  /\ Len(path[t]) = 1
  /\ d \in owed[t]
  /\ owed' = [owed EXCEPT ![t] = @ \ {d}]
  /\ \E n \in 1..Pieces :
       path' = [path EXCEPT ![t] = visit(d, n)]
  /\ UNCHANGED <<status, agenda, members, partial, space, gone, sent>>

\* The thread drops all guards and goes on with these calls, or ends.
Proceed(t, calls) ==
  /\ agenda' = [agenda EXCEPT ![t] = calls]
  /\ owed' = [owed EXCEPT ![t] = {}]
  /\ IF calls = <<"end">>
       THEN /\ path' = [path EXCEPT ![t] = <<{}>>]
            /\ status' = [status EXCEPT ![t] = "ended"]
       ELSE /\ \E n \in 1..Pieces :
                 path' = [path EXCEPT ![t] = PathOf(Head(calls), t[2], n)]
            /\ status' = [status EXCEPT ![t] = "running"]

\* The call is over.
Return(t) ==
  /\ Running(t)
  /\ Len(path[t]) = 1 /\ owed[t] = {}
  /\ Head(agenda[t]) # "spawn"
  /\ Proceed(t, IF Tail(agenda[t]) = <<>> THEN handle_client_messages
                                           ELSE Tail(agenda[t]))
  /\ UNCHANGED <<members, partial, space, gone, sent>>

\* One sending thread for each connection is enough to contend with the others.
send_file_non_blocking(c) ==
  LET t == <<"serve", c>>
      u == <<"send", c>>
  IN  /\ Running(t) /\ Head(agenda[t]) = "spawn" /\ Len(path[t]) = 1
      /\ \/ /\ status[u] = "new"
            /\ Proceed(u, send_file)
         \/ /\ status[u] # "new"
            /\ Proceed(t, handle_client_messages)
      /\ UNCHANGED <<members, partial, space, gone, sent>>

\* A call on the stream of a peer that is gone may fail: the thread ends, and
\* with it its guards.
Fail(t) ==
  /\ Running(t)
  /\ \E d \in gone : {in(d), out(d)} \intersect held(t) # {}
  /\ Proceed(t, <<"end">>)
  /\ partial' = [d \in Conns |-> partial[d] \ {t}]
  /\ UNCHANGED <<members, space, gone, sent>>

\* The end of the stream is read.
Receive_end(c) ==
  /\ Reading(<<"serve", c>>)
  /\ c \in gone
  /\ Proceed(<<"serve", c>>, broadcast_interupt)
  /\ UNCHANGED <<members, partial, space, gone, sent>>

Thread(t) ==
  \/ Lock_or_unlock(t)
  \/ \E d \in Conns : Write(t, d) \/ Visit_entry(t, d)
  \/ Return(t)
  \/ Fail(t)
  \/ t[1] = "serve" /\ (send_file_non_blocking(t[2]) \/ Receive_end(t[2]))

-----------------------------------------------------------------------------
(* Peers *)

handle_connection(c) ==
  /\ status[<<"serve", c>>] = "new"
  /\ Proceed(<<"serve", c>>, greet_user)
  /\ UNCHANGED <<members, partial, space, gone, sent>>

\* A message of the peer is read.
Receive(c) ==
  /\ Reading(<<"serve", c>>)
  /\ sent < MaxSent
  /\ sent' = sent + 1
  /\ \E kind \in Requests : Proceed(<<"serve", c>>, Handler[kind])
  /\ UNCHANGED <<members, partial, space, gone>>

\* The peer reads.
Drain(d) ==
  /\ d \notin gone
  /\ space[d] < Window
  /\ space' = [space EXCEPT ![d] = @ + 1]
  /\ UNCHANGED <<status, agenda, path, owed, members, partial, gone, sent>>

Close(d) ==
  /\ status[<<"serve", d>>] # "new"
  /\ d \in Faulty \ gone
  /\ gone' = gone \union {d}
  /\ UNCHANGED <<status, agenda, path, owed, members, partial, space, sent>>

Peer(c) == handle_connection(c) \/ Receive(c) \/ Drain(c) \/ Close(c)

Next == (\E t \in Threads : Thread(t)) \/ (\E c \in Conns : Peer(c))

Spec == Init /\ [][Next]_vars

\* Threads run when they can; a lock need not be granted in turn, and peers need
\* not read.
FairSpec == Spec /\ \A t \in Threads : WF_vars(Thread(t))

-----------------------------------------------------------------------------
(* Properties *)

\* Every variable has its type.
TypeOK ==
  /\ status \in [Threads -> {"new", "running", "ended"}]
  /\ agenda \in [Threads -> Seq(Calls) \ {<<>>}]
  /\ path \in [Threads -> Seq(SUBSET Lock) \ {<<>>}]
  /\ owed \in [Threads -> SUBSET Conns]
  /\ members \in SUBSET Conns
  /\ partial \in [Conns -> SUBSET Threads]
  /\ space \in [Conns -> 0..Window]
  /\ gone \in SUBSET Conns
  /\ sent \in 0..MaxSent

\* The thread waits for a lock that u holds.
WaitsFor(t, u) == t # u /\ Wanted(t) \intersect held(u) # {}

\* "Prevents the deadlock" (Shared::broadcast, Shared::remove_from_clients): of
\* any threads that are waiting for locks, one waits for none of the others.
NoCircularWait ==
  \A S \in (SUBSET Threads) \ {{}} :
    \E t \in S : \A u \in S : ~WaitsFor(t, u)

\* What is written to a peer by several threads, broadcasts of others, replies
\* and chunks of files, is whole messages: none begins before another is
\* finished (write_message, which locks the writer for all its writes).
MessagesAreWhole ==
  \A d \in Conns : \A t, u \in partial[d] : t = u

\* A write waits for a peer that does not read.
Stalled(d) == d \notin gone /\ space[d] = 0 /\ \E t \in Threads : Writing(t, d)

\* Nothing but a peer that does not read keeps a thread from reading its next
\* message, or ending: with the clients lock held over writes to all members,
\* one peer is enough.
EveryoneGetsThrough ==
  \A t \in Threads :
    Running(t) ~> \/ status[t] = "ended" \/ Reading(t)
                  \/ \E d \in Conns : Stalled(d)

\* Whoever waits for the names gets them, no matter which peers do not read: the
\* names are not locked over a write (name, rename, remove_from_clients).
NamesAreNeverStalled ==
  \A t \in Threads :
    (Running(t) /\ names \in Wanted(t))
      ~> (names \in held(t) \/ status[t] = "ended")

-----------------------------------------------------------------------------
(* What makes the safety properties inductive *)

\* Along a path, what is newly taken ranks above all that is held.
Climbing(p) ==
  \A i \in 1..Len(p) - 1 : \A l \in p[i + 1] \ p[i], k \in p[i] :
    Rank[k.kind] < Rank[l.kind]

\* Along a path, the writer of d is kept until the last write to d; one peer is
\* written to at a time, not while reading, and not at the end of the path.
Whole(p) ==
  \A d \in Conns :
    /\ \A i, j, k \in 1..Len(p) :
         i <= j /\ j <= k /\ writer(d) \in p[i] /\ out(d) \in p[k]
         => writer(d) \in p[j]
    /\ \A i \in 1..Len(p), e \in Conns :
         writer(d) \in p[i] => (writer(e) \in p[i] => e = d) /\ reader(e) \notin p[i]
    /\ out(d) \notin p[Len(p)]

Paths == \A t \in Threads : Climbing(path[t]) /\ Whole(path[t])

\* No lock has two holders; a thread that does not run has none.
Exclusive ==
  /\ \A t, u \in Threads : t # u => held(t) \intersect held(u) = {}
  /\ \A t \in Threads : status[t] # "running" => path[t] = <<{}>>

\* A broadcast keeps the clients lock to its end.
Lasting ==
  \A t \in Threads :
    /\ Head(agenda[t]) \in Broadcasts =>
         \A i, j \in 1..Len(path[t]) :
           i <= j /\ clients \in path[t][i] => clients \in path[t][j]
    /\ owed[t] # {} => clients \in held(t) /\ Head(agenda[t]) \in Broadcasts

\* In the middle of a message to d, a thread holds the writer of d and has
\* still to write to d.
Midway ==
  \A d \in Conns : \A t \in partial[d] :
    /\ writer(d) \in held(t)
    /\ \E k \in 1..Len(path[t]) : out(d) \in path[t][k]

===============================================================================
