------------------------------ MODULE ChatServer ------------------------------
(***************************************************************************)
(* The chat room kept by the server: one thread per connection, the two    *)
(* maps the threads share (`clients' and `names', each behind an RwLock)   *)
(* and the broadcast that walks `clients' under its write lock.            *)
(*                                                                         *)
(* A connection stands for its socket, its handler thread and its peer     *)
(* address, the key under which both maps file it.  File transfers are     *)
(* left to another module: a thread here handles text, names and leaving.  *)
(***************************************************************************)
EXTENDS Naturals, Sequences

CONSTANTS
  Conns,       \* connections, and at the same time their peer addresses
  Names,       \* names a user may ask for that hold no '.' and no ':'
  ServerName,  \* "Server", the name filed for the server's own address
  NoName,      \* the address has no entry in the names map
  NoConn,      \* nobody holds the clients lock
  Requests,    \* the client messages the users of this instance send
  Faults,      \* what may go wrong with a peer, out of {"close", "reset"}
  MaxSent      \* bound: messages sent by all the clients together

(***************************************************************************)
(* What a read can hand to a thread.  "TooLong" is a Text or a Rename whose *)
(* field is beyond its limit, "Unparsable" bytes in which the reader finds  *)
(* no message within MAXIMUM_MESSAGE_SIZE bytes.                            *)
(***************************************************************************)
ClientMessage ==
  [kind : {"Text", "TooLong", "Leave", "Unparsable"}, name : {NoName}]
    \union [kind : {"Rename"}, name : Names \union Conns \union {ServerName}]

(***************************************************************************)
(* What a thread writes to a peer.  `from' is the connection whose thread   *)
(* wrote it and `id' the number of the broadcast it belongs to (0 for a     *)
(* message to one peer); neither is in the program, the properties use them.*)
(***************************************************************************)
ServerMessage ==
  [kind : {"NewUser", "Text", "Interrupt", "UserLeaves", "UserRenamed",
           "Support"},
   from : Conns, name : Names \union Conns, id : Nat]

ASSUME ConstantsAssumption ==
  /\ NoConn \notin Conns
  /\ ServerName \in Names
  /\ NoName \notin Names \union Conns
  /\ Names \intersect Conns = {}
  /\ Requests \subseteq ClientMessage
  /\ Faults \subseteq {"close", "reset"}
  /\ MaxSent \in Nat

VARIABLES
  clients,  \* keys of the clients map: the connections a broadcast reaches
  names,    \* the names map, NoName where an address has no entry
  lock,     \* the thread that holds the write lock of clients, or NoConn
  sock,     \* what the server's TCP stack knows of each peer
  inbox,    \* messages on their way to each thread
  sent,     \* number of messages sent by the clients
  pc,       \* where each thread is
  then,     \* what its thread does after the broadcast or removal under way
  msg,      \* the message its thread is about to write
  todo,     \* the peers the broadcast under way has still to write to
  out,      \* what each live peer was sent
  count     \* number of broadcasts begun

room == <<clients, names, lock>>
net  == <<sock, inbox, sent>>
log  == <<out, count>>
vars == <<clients, names, lock, sock, inbox, sent, pc, then, msg, todo, out,
          count>>

(***************************************************************************)
(* "eof": the peer has closed, the next read past the inbox reports it and  *)
(* a write still succeeds.  "poked": such a write was done, so a RST is on  *)
(* its way.  "reset": it has arrived; reads, writes and peer_addr fail.     *)
(***************************************************************************)
Sock == {"none", "open", "eof", "poked", "reset"}

PC == {"idle", "greet", "broadcast", "writing", "welcome", "address", "enter",
       "loop", "reading", "reply", "interrupt", "stop", "unlist", "unname",
       "done", "died"}

Then == {"enter", "proceed", "farewell", "violation", "stop", "end"}

\* peer_addr() of the stream, which name() and remote_address() begin with.
Connected(c) == sock[c] # "reset"

name(c) == IF names[c] = NoName THEN c ELSE names[c]

Message(kind, c, who) == [kind |-> kind, from |-> c, name |-> who, id |-> 0]

\* The message m as part of the broadcast number n.
Numbered(m, n) ==
  [kind |-> m.kind, from |-> m.from, name |-> m.name, id |-> n]

Goto(c, label) == pc' = [pc EXCEPT ![c] = label]

\* What write_message does to the peer d of a stream that is not reset.
Deliver(d, m) ==
  /\ out' = IF sock[d] = "open" THEN [out EXCEPT ![d] = Append(@, m)] ELSE out
  /\ sock' = IF sock[d] = "eof" THEN [sock EXCEPT ![d] = "poked"] ELSE sock

Init ==
  /\ clients = {}
  /\ names = [c \in Conns |-> NoName]
  /\ lock = NoConn
  /\ sock = [c \in Conns |-> "none"]
  /\ inbox = [c \in Conns |-> <<>>]
  /\ sent = 0
  /\ pc = [c \in Conns |-> "idle"]
  /\ then = [c \in Conns |-> "enter"]
  /\ msg = [c \in Conns |-> Message("NewUser", c, c)]
  /\ todo = [c \in Conns |-> {}]
  /\ out = [c \in Conns |-> <<>>]
  /\ count = 0

-----------------------------------------------------------------------------
(* Peers and the network *)

\* The listener accepts a connection and spawns its thread.
handle_connection(c) ==
  /\ pc[c] = "idle" /\ sock[c] = "none"
  /\ sock' = [sock EXCEPT ![c] = "open"]
  /\ Goto(c, "greet")
  /\ UNCHANGED <<room, inbox, sent, then, msg, todo, log>>

\* The server still owns an end of the stream.
Held(c) == c \in clients \/ pc[c] \notin {"idle", "done", "died"}

Send(c) ==
  /\ sock[c] = "open" /\ Held(c)
  /\ sent < MaxSent
  /\ \E m \in Requests : inbox' = [inbox EXCEPT ![c] = Append(@, m)]
  /\ sent' = sent + 1
  /\ UNCHANGED <<room, sock, pc, then, msg, todo, log>>

Close(c) ==
  /\ "close" \in Faults
  /\ sock[c] = "open" /\ Held(c)
  /\ sock' = [sock EXCEPT ![c] = "eof"]
  /\ UNCHANGED <<room, inbox, sent, pc, then, msg, todo, log>>

\* A RST: the peer goes away with data unread, or its TCP answers what the server
\* wrote after it had closed.  What was sent but not yet delivered is lost.
Reset(c) ==
  /\ \/ "reset" \in Faults /\ sock[c] = "open"
     \/ sock[c] = "poked"
  /\ Held(c)
  /\ sock' = [sock EXCEPT ![c] = "reset"]
  /\ \E n \in 0..Len(inbox[c]) :
       inbox' = [inbox EXCEPT ![c] = SubSeq(@, 1, n)]
  /\ UNCHANGED <<room, sent, pc, then, msg, todo, log>>

-----------------------------------------------------------------------------
(* broadcast: the clients lock is taken, every entry written to, and the     *)
(* first write that fails ends the broadcast, and its thread, with an error. *)

\* The thread is about to broadcast m and goes on with `next'.
Broadcast(c, m, next) ==
  /\ msg' = [msg EXCEPT ![c] = m]
  /\ then' = [then EXCEPT ![c] = next]
  /\ Goto(c, "broadcast")

\* Mutant: the broadcast does not wait for the clients lock.
broadcast_lock_racing(c) ==
  /\ pc[c] = "broadcast"
  /\ lock' = c
  /\ todo' = [todo EXCEPT ![c] = clients]
  /\ count' = count + 1
  /\ msg' = [msg EXCEPT ![c] = Numbered(@, count + 1)]
  /\ Goto(c, "writing")
  /\ UNCHANGED <<clients, names, net, then, out>>

broadcast_lock(c) ==
  /\ pc[c] = "broadcast"
  /\ lock = NoConn
  /\ lock' = c
  /\ todo' = [todo EXCEPT ![c] = clients]
  /\ count' = count + 1
  /\ msg' = [msg EXCEPT ![c] = Numbered(@, count + 1)]
  /\ Goto(c, "writing")
  /\ UNCHANGED <<clients, names, net, then, out>>

broadcast_write(c, d) ==
  /\ pc[c] = "writing"
  /\ d \in todo[c]
  /\ Connected(d)
  /\ Deliver(d, msg[c])
  /\ todo' = [todo EXCEPT ![c] = @ \ {d}]
  /\ UNCHANGED <<room, inbox, sent, pc, then, msg, count>>

broadcast_fails(c, d) ==
  /\ pc[c] = "writing"
  /\ d \in todo[c]
  /\ ~Connected(d)
  /\ lock' = NoConn
  /\ todo' = [todo EXCEPT ![c] = {}]
  /\ Goto(c, "died")
  /\ UNCHANGED <<clients, names, net, then, msg, log>>

\* Where the caller of broadcast goes on.
Continue(c) ==
  /\ then' = [then EXCEPT ![c] = IF @ = "stop" THEN "end" ELSE @]
  /\ Goto(c, CASE then[c] = "enter"   -> "welcome"
               [] then[c] = "proceed" -> "loop"
               [] OTHER               -> "stop")

\* Mutant: the loop is left before every entry was written to.
broadcast_unlock_early(c) ==
  /\ pc[c] = "writing"
  /\ lock' = NoConn
  /\ todo' = [todo EXCEPT ![c] = {}]
  /\ Continue(c)
  /\ UNCHANGED <<clients, names, net, msg, log>>

\* Mutant: the guard of the lock outlives the broadcast.
broadcast_unlock_leaking(c) ==
  /\ pc[c] = "writing"
  /\ todo[c] = {}
  /\ Continue(c)
  /\ UNCHANGED <<room, net, msg, todo, log>>

broadcast_unlock(c) ==
  /\ pc[c] = "writing"
  /\ todo[c] = {}
  /\ lock' = NoConn
  /\ Continue(c)
  /\ UNCHANGED <<clients, names, net, msg, todo, log>>

-----------------------------------------------------------------------------
(* A thread enters the room: greet_user, then the insertion into clients *)

greet_user(c) ==
  /\ pc[c] = "greet"
  /\ IF Connected(c)
       THEN Broadcast(c, Message("NewUser", c, name(c)), "enter")
       ELSE Goto(c, "died") /\ UNCHANGED <<then, msg>>
  /\ UNCHANGED <<room, net, todo, log>>

greet_personally(c) ==
  /\ pc[c] = "welcome"
  /\ IF Connected(c)
       THEN Deliver(c, Message("Support", c, name(c))) /\ Goto(c, "address")
       ELSE Goto(c, "died") /\ UNCHANGED <<out, sock>>
  /\ UNCHANGED <<room, inbox, sent, then, msg, todo, count>>

\* The address under which to be inserted.
remote_address(c) ==
  /\ pc[c] = "address"
  /\ Goto(c, IF Connected(c) THEN "enter" ELSE "died")
  /\ UNCHANGED <<room, net, then, msg, todo, log>>

handle_client(c) ==
  /\ pc[c] = "enter"
  /\ lock = NoConn
  /\ clients' = clients \union {c}
  /\ Goto(c, "loop")
  /\ UNCHANGED <<names, lock, net, then, msg, todo, log>>

-----------------------------------------------------------------------------
(* A thread reads and handles the messages of its peer *)

read_and_handle_client_message(c) ==
  /\ pc[c] = "loop"
  /\ Goto(c, IF Connected(c) THEN "reading" ELSE "died")
  /\ UNCHANGED <<room, net, then, msg, todo, log>>

\* The read returns a message of this kind.
Reads(c, kind) ==
  /\ pc[c] = "reading"
  /\ inbox[c] # <<>>
  /\ Head(inbox[c]).kind = kind
  /\ inbox' = [inbox EXCEPT ![c] = Tail(@)]

\* Mutant: the end of the stream is an error like any other.
read_fails_silently(c) ==
  /\ pc[c] = "reading"
  /\ inbox[c] = <<>>
  /\ sock[c] \in {"eof", "poked", "reset"}
  /\ Goto(c, "died")
  /\ UNCHANGED <<room, net, then, msg, todo, log>>

\* Nothing is left to read and the peer has closed or was reset.
read_fails(c) ==
  /\ pc[c] = "reading"
  /\ inbox[c] = <<>>
  /\ sock[c] \in {"eof", "poked", "reset"}
  /\ Goto(c, "interrupt")
  /\ UNCHANGED <<room, net, then, msg, todo, log>>

\* Any other read error is returned as it is, and ends the thread.
read_unparsable(c) ==
  /\ Reads(c, "Unparsable")
  /\ Goto(c, "died")
  /\ UNCHANGED <<room, sock, sent, then, msg, todo, log>>

broadcast_interupt(c) ==
  /\ pc[c] = "interrupt"
  /\ IF Connected(c)
       THEN Broadcast(c, Message("Interrupt", c, name(c)), "stop")
       ELSE Goto(c, "died") /\ UNCHANGED <<then, msg>>
  /\ UNCHANGED <<room, net, todo, log>>

handle_client_text(c) ==
  /\ Reads(c, "Text")
  /\ IF Connected(c)
       THEN Broadcast(c, Message("Text", c, name(c)), "proceed")
       ELSE Goto(c, "died") /\ UNCHANGED <<then, msg>>
  /\ UNCHANGED <<room, sock, sent, todo, log>>

\* The sender is removed, then reported as interrupted and stopped.
handle_upper_bound_violation(c) ==
  /\ Reads(c, "TooLong")
  /\ Goto(c, IF Connected(c) THEN "stop" ELSE "died")
  /\ then' = [then EXCEPT ![c] = "violation"]
  /\ UNCHANGED <<room, sock, sent, msg, todo, log>>

\* Mutant: the sender is neither removed nor stopped.
handle_client_leave_staying(c) ==
  /\ Reads(c, "Leave")
  /\ IF Connected(c)
       THEN Broadcast(c, Message("UserLeaves", c, name(c)), "proceed")
       ELSE Goto(c, "died") /\ UNCHANGED <<then, msg>>
  /\ UNCHANGED <<room, sock, sent, todo, log>>

handle_client_leave(c) ==
  /\ Reads(c, "Leave")
  /\ IF Connected(c)
       THEN /\ msg' = [msg EXCEPT ![c] = Message("UserLeaves", c, name(c))]
            /\ then' = [then EXCEPT ![c] = "farewell"]
            /\ Goto(c, "stop")
       ELSE Goto(c, "died") /\ UNCHANGED <<then, msg>>
  /\ UNCHANGED <<room, sock, sent, todo, log>>

\* Mutant: a name that looks like an address is let through.
ForbiddenNever(n) == FALSE

\* An address holds a ':', so a name that looks like one is refused.
Forbidden(n) == n \in Conns

\* Mutant: only the names of current members count.
TakenByMember(n) == n = ServerName \/ \E d \in clients : names[d] = n

Taken(n) == n = ServerName \/ \E d \in Conns : names[d] = n

Reply(c, m) ==
  /\ msg' = [msg EXCEPT ![c] = m]
  /\ Goto(c, "reply")

\* rename() checks and inserts under one hold of the names lock.
handle_client_rename(c) ==
  LET new_name == Head(inbox[c]).name
  IN  /\ Reads(c, "Rename")
      /\ \/ /\ Forbidden(new_name) \/ Taken(new_name)
            /\ Reply(c, Message("Support", c, name(c)))
            /\ UNCHANGED names
         \/ /\ ~Forbidden(new_name) /\ ~Taken(new_name)
            /\ Connected(c)
            /\ names' = [names EXCEPT ![c] = new_name]
            /\ Reply(c, Message("UserRenamed", c, new_name))
         \/ /\ ~Forbidden(new_name) /\ ~Taken(new_name)
            /\ ~Connected(c)
            /\ Goto(c, "died")
            /\ UNCHANGED <<names, msg>>
      /\ UNCHANGED <<clients, lock, sock, sent, then, todo, log>>

write_reply(c) ==
  /\ pc[c] = "reply"
  /\ IF Connected(c)
       THEN Deliver(c, msg[c]) /\ Goto(c, "loop")
       ELSE Goto(c, "died") /\ UNCHANGED <<out, sock>>
  /\ UNCHANGED <<room, inbox, sent, then, msg, todo, count>>

-----------------------------------------------------------------------------
(* remove_from_clients: the address, then one map after the other *)

remove_from_clients(c) ==
  /\ pc[c] = "stop"
  /\ Goto(c, IF Connected(c) THEN "unlist" ELSE "died")
  /\ UNCHANGED <<room, net, then, msg, todo, log>>

\* Mutant: the entry is removed without waiting for the lock.
remove_client_racing(c) ==
  /\ pc[c] = "unlist"
  /\ clients' = clients \ {c}
  /\ Goto(c, "unname")
  /\ UNCHANGED <<names, lock, net, then, msg, todo, log>>

remove_client(c) ==
  /\ pc[c] = "unlist"
  /\ lock = NoConn
  /\ clients' = clients \ {c}
  /\ Goto(c, "unname")
  /\ UNCHANGED <<names, lock, net, then, msg, todo, log>>

\* Mutant: the name is kept.
remove_name_keeping(c) ==
  /\ pc[c] = "unname"
  /\ then' = [then EXCEPT ![c] = IF @ = "farewell" THEN "stop" ELSE @]
  /\ Goto(c, CASE then[c] = "farewell"  -> "broadcast"
               [] then[c] = "violation" -> "interrupt"
               [] OTHER                 -> "done")
  /\ UNCHANGED <<room, net, msg, todo, log>>

remove_name(c) ==
  /\ pc[c] = "unname"
  /\ names' = [names EXCEPT ![c] = NoName]
  /\ then' = [then EXCEPT ![c] = IF @ = "farewell" THEN "stop" ELSE @]
  /\ Goto(c, CASE then[c] = "farewell"  -> "broadcast"
               [] then[c] = "violation" -> "interrupt"
               [] OTHER                 -> "done")
  /\ UNCHANGED <<clients, lock, net, msg, todo, log>>

-----------------------------------------------------------------------------

Thread(c) ==
  \/ greet_user(c)
  \/ greet_personally(c)
  \/ remote_address(c)
  \/ handle_client(c)
  \/ broadcast_lock(c)
  \/ \E d \in Conns : broadcast_write(c, d) \/ broadcast_fails(c, d)
  \/ broadcast_unlock(c)
  \/ read_and_handle_client_message(c)
  \/ read_fails(c)
  \/ read_unparsable(c)
  \/ broadcast_interupt(c)
  \/ handle_client_text(c)
  \/ handle_upper_bound_violation(c)
  \/ handle_client_leave(c)
  \/ handle_client_rename(c)
  \/ write_reply(c)
  \/ remove_from_clients(c)
  \/ remove_client(c)
  \/ remove_name(c)

Environment(c) == handle_connection(c) \/ Send(c) \/ Close(c) \/ Reset(c)

Next == \E c \in Conns : Thread(c) \/ Environment(c)

Spec == Init /\ [][Next]_vars

(***************************************************************************)
(* A thread that can take a step takes one: the operating system schedules  *)
(* it.  Peers promise nothing.                                              *)
(***************************************************************************)
FairSpec == Spec /\ \A c \in Conns : WF_vars(Thread(c))

-----------------------------------------------------------------------------
(* Properties *)

TypeOK ==
  /\ clients \subseteq Conns
  /\ names \in [Conns -> Names \union {NoName}]
  /\ lock \in Conns \union {NoConn}
  /\ sock \in [Conns -> Sock]
  /\ inbox \in [Conns -> Seq(Requests)]
  /\ sent \in 0..MaxSent
  /\ pc \in [Conns -> PC]
  /\ then \in [Conns -> Then]
  /\ msg \in [Conns -> ServerMessage]
  /\ todo \in [Conns -> SUBSET Conns]
  /\ out \in [Conns -> Seq(ServerMessage)]
  /\ count \in Nat

\* The broadcasts a peer was sent came to it in the order in which the clients
\* lock was taken for them, each at most once, so that any two peers saw those
\* they both saw in the same order (broadcast holds the write lock throughout).
DeliveredInOrder ==
  \A d \in Conns : \A i, j \in 1..Len(out[d]) :
    /\ i < j
    /\ out[d][i].id # 0
    /\ out[d][j].id # 0
    => out[d][i].id < out[d][j].id

\* The number of the last broadcast a peer was sent, 0 before the first.
LastSeen(d) ==
  LET ids == {out[d][i].id : i \in 1..Len(out[d])}
  IN  IF ids \ {0} = {} THEN 0 ELSE CHOOSE n \in ids : \A k \in ids : k <= n

NobodyReset == \A d \in Conns : Connected(d)

\* As long as no peer was reset, a connected member that was sent one broadcast was
\* sent every later one, but for the one still being written to it: nothing falls
\* into the gaps between two holds of the clients lock.  The write to a peer that
\* was reset ends a broadcast early (broadcast_fails).
NoBroadcastMissed ==
  NobodyReset =>
    \A d \in clients :
      \/ sock[d] # "open"
      \/ LastSeen(d) = 0
      \/ LastSeen(d) = count
      \/ lock # NoConn /\ d \in todo[lock] /\ LastSeen(d) = count - 1

Farewell == {"UserLeaves", "Interrupt"}

\* After the UserLeaves or the Interrupt that tells a peer someone is gone, it
\* is sent nothing more on behalf of that connection.
FarewellIsLast ==
  \A d \in Conns : \A i, j \in 1..Len(out[d]) :
    i < j /\ out[d][i].kind \in Farewell
    => out[d][j].from # out[d][i].from

\* A thread that ended without an error left nothing behind in the shared maps,
\* and no broadcast under way still counts on its peer.
StoppedLeavesNoTrace ==
  \A c \in Conns : pc[c] = "done" =>
    /\ c \notin clients
    /\ names[c] = NoName
    /\ \A d \in Conns : c \notin todo[d]

\* What a peer is shown as the author of a message identifies one connection:
\* two peers never have the same name, and nobody is called "Server" or by the
\* address of another (rename checks and inserts under one hold of the lock).
DisplayNamesUnique ==
  \A c, d \in Conns :
    /\ c # d => name(c) # name(d)
    /\ name(c) # ServerName

\* The numbers of the broadcasts messages belong to.
Numbers(messages) == [i \in 1..Len(messages) |-> messages[i].id]

\* Room, the abstract specification: a member is given what the server wrote to
\* its peer, a broadcast by its number.
Room == INSTANCE Room WITH
  Members   <- Conns,
  Nobody    <- NoConn,
  members   <- clients,
  speaker   <- lock,
  owed      <- IF lock = NoConn THEN {} ELSE todo[lock],
  published <- count,
  seen      <- [d \in Conns |-> Numbers(out[d])]

\* The server implements the room: membership is frozen while a broadcast is
\* under way, broadcasts exclude each other and reach members only.
ImplementsRoom == Room!Spec

\* A thread that wants to broadcast comes to hold the clients lock, however the
\* other threads contend for it.
BroadcastIsServed ==
  \A c \in Conns : pc[c] = "broadcast" ~> pc[c] = "writing"

\* The thread of c has ended and c is in neither map.
Forgotten(c) == pc[c] = "done" /\ c \notin clients /\ names[c] = NoName

\* A peer that closes is noticed, and forgotten as long as no RST has come: its
\* thread ends (read_fails), having taken it out of both maps.  Otherwise it may end
\* with an error and leave it there: the Interrupt that reports a closed peer is
\* written to that peer as well, the RST that answers it makes peer_addr() fail, and
\* remove_from_clients begins with that; or a broadcast to others fails.
ClosedIsForgotten ==
  \A c \in Conns : sock[c] \in {"eof", "poked", "reset"}
    ~> \/ Forgotten(c)
       \/ pc[c] = "died" /\ ~NobodyReset

-----------------------------------------------------------------------------
(* What makes the safety properties inductive *)

\* The thread that writes holds the lock, and writes to members only.
LockDiscipline ==
  \A c \in Conns :
    /\ pc[c] = "writing" <=> lock = c
    /\ pc[c] = "writing" => todo[c] \subseteq clients
    /\ pc[c] # "writing" => todo[c] = {}

\* The broadcast under way has the last number, which no peer it has still to
\* reach has been sent; a reply to one peer has none.
Numbering ==
  /\ \A d \in Conns : \A i \in 1..Len(out[d]) : out[d][i].id <= count
  /\ \A c \in Conns : pc[c] = "writing" =>
       /\ msg[c].id = count
       /\ count > 0
       /\ \A d \in todo[c] : \A i \in 1..Len(out[d]) : out[d][i].id < count
  /\ \A c \in Conns : pc[c] = "reply" => msg[c].id = 0

\* The thread has not entered the room yet.
Entering(c) ==
  \/ pc[c] \in {"idle", "greet", "welcome", "address", "enter"}
  \/ pc[c] \in {"broadcast", "writing"} /\ then[c] = "enter"

\* Who is not in the room: the thread has not entered yet, or has left.
Outside(c) == Entering(c) \/ pc[c] \in {"unname", "done"}

Membership ==
  \A c \in Conns :
    /\ Outside(c) => c \notin clients
    /\ pc[c] = "done" => names[c] = NoName

\* The thread has nothing left to write.
Silent(c) ==
  \/ pc[c] = "died"
  \/ pc[c] \in {"stop", "unlist", "unname", "done"} /\ then[c] = "end"

\* The thread writes nothing more to d.
Spent(c, d) ==
  \/ Silent(c)
  \/ pc[c] = "writing" /\ then[c] = "stop" /\ d \notin todo[c]

\* A thread speaks only for its peer, and stops after the broadcast of its
\* farewell; who has been sent a farewell is sent nothing more.
Farewells ==
  /\ \A c \in Conns :
       /\ msg[c].from = c
       /\ then[c] = "end" => Silent(c)
       /\ pc[c] \in {"broadcast", "writing"} /\ msg[c].kind \in Farewell
          => then[c] = "stop"
       /\ pc[c] = "reply" => msg[c].kind \notin Farewell
  /\ \A d \in Conns : \A i \in 1..Len(out[d]) :
       out[d][i].kind \in Farewell => Spent(out[d][i].from, d)

\* The peer was sent no broadcast; it was sent the broadcast of this number.
Unheard(d)  == \A i \in 1..Len(out[d]) : out[d][i].id = 0
Heard(d, n) == \E i \in 1..Len(out[d]) : out[d][i].id = n

\* Nobody is sent a broadcast before it has entered, and no member that is
\* connected lacks the last one, unless the thread that writes it will come to it.
UpToDate ==
  NobodyReset =>
    /\ \A d \in Conns : Entering(d) => Unheard(d)
    /\ \A d \in clients : sock[d] = "open" =>
         \/ Unheard(d)
         \/ Heard(d, count)
         \/ lock # NoConn /\ d \in todo[lock] /\ Heard(d, count - 1)

===============================================================================
