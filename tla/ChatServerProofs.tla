--------------------------- MODULE ChatServerProofs ---------------------------
(***************************************************************************)
(* Theorems about ChatServer for every set of connections, names, requests *)
(* and faults, and every bound on the messages sent.                       *)
(***************************************************************************)
EXTENDS ChatServer, TLAPS

-----------------------------------------------------------------------------
(* Types *)

LEMMA MessageType ==
  ASSUME NEW kind \in {"NewUser", "Text", "Interrupt", "UserLeaves",
                       "UserRenamed", "Support"},
         NEW c \in Conns, NEW who \in Names \union Conns
  PROVE  Message(kind, c, who) \in ServerMessage
BY DEF Message, ServerMessage

LEMMA GotoType ==
  ASSUME TypeOK, NEW c \in Conns, NEW label \in PC, Goto(c, label)
  PROVE  pc' \in [Conns -> PC]
BY DEF TypeOK, Goto

LEMMA BroadcastType ==
  ASSUME TypeOK, NEW c \in Conns, NEW m \in ServerMessage, NEW next \in Then,
         Broadcast(c, m, next)
  PROVE  /\ msg' \in [Conns -> ServerMessage]
         /\ then' \in [Conns -> Then]
         /\ pc' \in [Conns -> PC]
<1>1. msg \in [Conns -> ServerMessage] /\ then \in [Conns -> Then]
  BY DEF TypeOK
<1>2. pc' \in [Conns -> PC]
  BY GotoType DEF Broadcast, PC
<1> QED
  BY <1>1, <1>2 DEF Broadcast

LEMMA NameType ==
  ASSUME TypeOK, NEW c \in Conns
  PROVE  name(c) \in Names \union Conns
BY DEF TypeOK, name

LEMMA DeliverType ==
  ASSUME TypeOK, NEW d \in Conns, NEW m \in ServerMessage, Deliver(d, m)
  PROVE  /\ out' \in [Conns -> Seq(ServerMessage)]
         /\ sock' \in [Conns -> Sock]
<1>1. Append(out[d], m) \in Seq(ServerMessage)
  BY DEF TypeOK
<1>2. "poked" \in Sock
  BY DEF Sock
<1> QED
  BY <1>1, <1>2 DEF TypeOK, Deliver

\* The variables are in their types in every state of ChatServer.
LEMMA TypeStep ==
  ASSUME TypeOK, [Next]_vars
  PROVE  TypeOK'
<1> USE ConstantsAssumption
<1>1. CASE UNCHANGED vars
  BY <1>1 DEF vars, TypeOK
<1>2. ASSUME NEW c \in Conns, Thread(c)
      PROVE  TypeOK'
  <2>1. CASE greet_user(c)
    <3>1. Message("NewUser", c, name(c)) \in ServerMessage
      BY MessageType, NameType
    <3>2. /\ msg' \in [Conns -> ServerMessage]
          /\ then' \in [Conns -> Then]
          /\ pc' \in [Conns -> PC]
      BY <2>1, <3>1, BroadcastType, GotoType DEF greet_user, TypeOK, PC, Then
    <3> QED
      BY <2>1, <3>2 DEF TypeOK, greet_user, room, net, log
  <2>2. CASE greet_personally(c)
    BY <2>2, MessageType, NameType, DeliverType
       DEF TypeOK, greet_personally, Goto, room, PC
  <2>3. CASE remote_address(c)
    BY <2>3 DEF TypeOK, remote_address, Goto, room, net, log, PC
  <2>4. CASE handle_client(c)
    BY <2>4 DEF TypeOK, handle_client, Goto, net, log, PC
  <2>5. CASE broadcast_lock(c)
    <3>1. count + 1 \in Nat
      BY DEF TypeOK
    <3>2. Numbered(msg[c], count + 1) \in ServerMessage
      BY <3>1 DEF TypeOK, ServerMessage, Numbered
    <3>3. msg \in [Conns -> ServerMessage]
      BY DEF TypeOK
    <3>4. msg' \in [Conns -> ServerMessage]
      BY <2>5, <3>2, <3>3 DEF broadcast_lock
    <3>5. pc' \in [Conns -> PC]
      BY <2>5, GotoType DEF broadcast_lock, PC
    <3> QED
      BY <2>5, <3>1, <3>4, <3>5 DEF TypeOK, broadcast_lock, net
  <2>6. ASSUME NEW d \in Conns, broadcast_write(c, d)
        PROVE  TypeOK'
    <3>1. msg[c] \in ServerMessage
      BY DEF TypeOK
    <3> QED
      BY <2>6, <3>1, DeliverType DEF TypeOK, broadcast_write, room
  <2>7. ASSUME NEW d \in Conns, broadcast_fails(c, d)
        PROVE  TypeOK'
    BY <2>7 DEF TypeOK, broadcast_fails, Goto, net, log, PC
  <2>8. CASE broadcast_unlock(c)
    BY <2>8 DEF TypeOK, broadcast_unlock, Continue, Goto, net, log, PC, Then
  <2>9. CASE read_and_handle_client_message(c)
    BY <2>9 DEF TypeOK, read_and_handle_client_message, Goto, room, net, log, PC
  <2>10. CASE read_fails(c)
    BY <2>10 DEF TypeOK, read_fails, Goto, room, net, log, PC
  <2>11. ASSUME NEW kind, Reads(c, kind)
         PROVE  inbox' \in [Conns -> Seq(Requests)]
    BY <2>11 DEF TypeOK, Reads
  <2>12. CASE read_unparsable(c)
    BY <2>11, <2>12 DEF TypeOK, read_unparsable, Goto, room, log, PC
  <2>13. CASE broadcast_interupt(c)
    <3>1. Message("Interrupt", c, name(c)) \in ServerMessage
      BY MessageType, NameType
    <3>2. /\ msg' \in [Conns -> ServerMessage]
          /\ then' \in [Conns -> Then]
          /\ pc' \in [Conns -> PC]
      BY <2>13, <3>1, BroadcastType, GotoType DEF broadcast_interupt, TypeOK, PC, Then
    <3> QED
      BY <2>13, <3>2 DEF TypeOK, broadcast_interupt, room, net, log
  <2>14. CASE handle_client_text(c)
    <3>1. Message("Text", c, name(c)) \in ServerMessage
      BY MessageType, NameType
    <3>2. /\ msg' \in [Conns -> ServerMessage]
          /\ then' \in [Conns -> Then]
          /\ pc' \in [Conns -> PC]
      BY <2>14, <3>1, BroadcastType, GotoType DEF handle_client_text, TypeOK, PC, Then
    <3> QED
      BY <2>11, <2>14, <3>2 DEF TypeOK, handle_client_text, room, log
  <2>15. CASE handle_upper_bound_violation(c)
    BY <2>11, <2>15
       DEF TypeOK, handle_upper_bound_violation, Goto, room, log, PC, Then
  <2>16. CASE handle_client_leave(c)
    <3>1. Message("UserLeaves", c, name(c)) \in ServerMessage
      BY MessageType, NameType
    <3>2. msg \in [Conns -> ServerMessage] /\ then \in [Conns -> Then]
      BY DEF TypeOK
    <3>3. pc' \in [Conns -> PC]
      BY <2>16, GotoType DEF handle_client_leave, PC
    <3>4. msg' \in [Conns -> ServerMessage] /\ then' \in [Conns -> Then]
      BY <2>16, <3>1, <3>2 DEF handle_client_leave, Then
    <3> QED
      BY <2>11, <2>16, <3>3, <3>4 DEF TypeOK, handle_client_leave, room, log
  <2>17. CASE handle_client_rename(c)
    <3> DEFINE n == Head(inbox[c]).name
    <3>1. Reads(c, "Rename")
      BY <2>17 DEF handle_client_rename
    <3>2. Head(inbox[c]) \in Requests
      BY <3>1 DEF Reads, TypeOK
    <3>3. n \in Names \union Conns
      BY <3>1, <3>2 DEF Reads, ClientMessage
    <3>4. ~Forbidden(n) => n \in Names
      BY <3>3 DEF Forbidden
    <3>5. Message("Support", c, name(c)) \in ServerMessage
      BY MessageType, NameType
    <3>6. Message("UserRenamed", c, n) \in ServerMessage
      BY <3>3, MessageType
    <3>7. /\ names' = names \/ (~Forbidden(n) /\ names' = [names EXCEPT ![c] = n])
          /\ \/ msg' = msg
             \/ msg' = [msg EXCEPT ![c] = Message("Support", c, name(c))]
             \/ msg' = [msg EXCEPT ![c] = Message("UserRenamed", c, n)]
          /\ \/ pc' = [pc EXCEPT ![c] = "reply"]
             \/ pc' = [pc EXCEPT ![c] = "died"]
          /\ UNCHANGED <<clients, lock, sock, sent, then, todo, out, count>>
      BY <2>17 DEF handle_client_rename, Reply, Goto, log
    <3> HIDE DEF n
    <3>8. names' \in [Conns -> Names \union {NoName}]
      <4>1. names \in [Conns -> Names \union {NoName}]
        BY DEF TypeOK
      <4> QED
        BY <3>4, <3>7, <4>1
    <3>9. msg' \in [Conns -> ServerMessage]
      <4>1. msg \in [Conns -> ServerMessage]
        BY DEF TypeOK
      <4> QED
        BY <3>5, <3>6, <3>7, <4>1
    <3>10. pc' \in [Conns -> PC]
      BY <3>7 DEF TypeOK, PC
    <3> QED
      BY <2>11, <3>1, <3>7, <3>8, <3>9, <3>10 DEF TypeOK
  <2>18. CASE write_reply(c)
    <3>1. msg[c] \in ServerMessage
      BY DEF TypeOK
    <3> QED
      BY <2>18, <3>1, DeliverType DEF TypeOK, write_reply, Goto, room, PC
  <2>19. CASE remove_from_clients(c)
    BY <2>19 DEF TypeOK, remove_from_clients, Goto, room, net, log, PC
  <2>20. CASE remove_client(c)
    BY <2>20 DEF TypeOK, remove_client, Goto, net, log, PC
  <2>21. CASE remove_name(c)
    BY <2>21 DEF TypeOK, remove_name, Goto, net, log, PC, Then
  <2> QED
    BY <1>2, <2>1, <2>2, <2>3, <2>4, <2>5, <2>6, <2>7, <2>8, <2>9, <2>10,
       <2>12, <2>13, <2>14, <2>15, <2>16, <2>17, <2>18, <2>19, <2>20, <2>21
       DEF Thread
<1>3. ASSUME NEW c \in Conns, Environment(c)
      PROVE  TypeOK'
  <2>1. CASE handle_connection(c)
    BY <2>1 DEF TypeOK, handle_connection, Goto, room, log, PC, Sock
  <2>2. CASE Send(c)
    BY <2>2 DEF TypeOK, Send, room, log
  <2>3. CASE Close(c)
    BY <2>3 DEF TypeOK, Close, room, log, Sock
  <2>4. CASE Reset(c)
    <3>1. \A n \in 0..Len(inbox[c]) : SubSeq(inbox[c], 1, n) \in Seq(Requests)
      BY DEF TypeOK
    <3> QED
      BY <2>4, <3>1 DEF TypeOK, Reset, room, log, Sock
  <2> QED
    BY <1>3, <2>1, <2>2, <2>3, <2>4 DEF Environment
<1> QED
  BY <1>1, <1>2, <1>3 DEF Next

\* Type correctness: no handler leaves a variable outside its type.
THEOREM TypeCorrect == Spec => []TypeOK
<1>1. Init => TypeOK
  BY ConstantsAssumption
     DEF Init, TypeOK, Message, ServerMessage, Sock, PC, Then
<1> QED
  BY <1>1, TypeStep, PTL DEF Spec

-----------------------------------------------------------------------------
(* The shape of a step *)

\* The step is of the connection c alone.
Local(c) ==
  \A e \in Conns \ {c} :
    /\ pc'[e] = pc[e]
    /\ then'[e] = then[e]
    /\ msg'[e] = msg[e]
    /\ todo'[e] = todo[e]
    /\ names'[e] = names[e]

\* Neither the room nor a broadcast is concerned.
Quiet(c) ==
  /\ UNCHANGED <<clients, lock, todo, count>>
  /\ pc[c] # "writing"
  /\ pc'[c] # "writing"
  /\ pc'[c] = "reply" => msg'[c].id = 0

\* No thread and no broadcast is concerned.
Outer == UNCHANGED <<clients, names, lock, pc, then, msg, todo, out, count>>

LEMMA Shape ==
  ASSUME TypeOK, NEW c \in Conns, Thread(c) \/ Environment(c)
  PROVE  /\ Local(c)
         /\ \/ Outer
            \/ Quiet(c) /\ UNCHANGED out
            \/ Quiet(c) /\ (greet_personally(c) \/ write_reply(c))
            \/ broadcast_lock(c)
            \/ \E d \in Conns : broadcast_write(c, d)
            \/ \E d \in Conns : broadcast_fails(c, d)
            \/ broadcast_unlock(c)
            \/ handle_client(c)
            \/ remove_client(c)
<1> DEFINE Typed ==
      /\ pc \in [Conns -> PC]
      /\ then \in [Conns -> Then]
      /\ msg \in [Conns -> ServerMessage]
      /\ todo \in [Conns -> SUBSET Conns]
      /\ names \in [Conns -> Names \union {NoName}]
<1>0. Typed
  BY DEF TypeOK
<1>1. CASE handle_connection(c)
  BY <1>0, <1>1 DEF handle_connection, Local, Quiet, Goto, room, net, log
<1>2. CASE greet_user(c)
  BY <1>0, <1>2 DEF greet_user, Local, Quiet, Goto, Broadcast, Message, room, net, log
<1>3. CASE remote_address(c)
  BY <1>0, <1>3 DEF remote_address, Local, Quiet, Goto, room, net, log
<1>4. CASE read_and_handle_client_message(c)
  BY <1>0, <1>4 DEF read_and_handle_client_message, Local, Quiet, Goto, room, net, log
<1>5. CASE read_fails(c)
  BY <1>0, <1>5 DEF read_fails, Local, Quiet, Goto, room, net, log
<1>6. CASE read_unparsable(c)
  BY <1>0, <1>6 DEF read_unparsable, Local, Quiet, Goto, Reads, room, net, log
<1>7. CASE broadcast_interupt(c)
  BY <1>0, <1>7 DEF broadcast_interupt, Local, Quiet, Goto, Broadcast, Message, room, net, log
<1>8. CASE handle_client_text(c)
  BY <1>0, <1>8 DEF handle_client_text, Local, Quiet, Goto, Reads, Broadcast, Message, room, net, log
<1>9. CASE handle_upper_bound_violation(c)
  BY <1>0, <1>9 DEF handle_upper_bound_violation, Local, Quiet, Goto, Reads, room, net, log
<1>10. CASE handle_client_leave(c)
  BY <1>0, <1>10 DEF handle_client_leave, Local, Quiet, Goto, Reads, Message, room, net, log
<1>11. CASE handle_client_rename(c)
  BY <1>0, <1>11 DEF handle_client_rename, Local, Quiet, Goto, Reads, Reply, Message, room, net, log
<1>12. CASE remove_from_clients(c)
  BY <1>0, <1>12 DEF remove_from_clients, Local, Quiet, Goto, room, net, log
<1>13. CASE remove_name(c)
  BY <1>0, <1>13 DEF remove_name, Local, Quiet, Goto, room, net, log
<1>14. CASE Send(c)
  BY <1>0, <1>14 DEF Send, Local, Outer, room, log
<1>15. CASE Close(c)
  BY <1>0, <1>15 DEF Close, Local, Outer, room, log
<1>16. CASE Reset(c)
  BY <1>0, <1>16 DEF Reset, Local, Outer, room, log
<1>17. CASE broadcast_lock(c)
  BY <1>0, <1>17 DEF broadcast_lock, Local, Goto, room, net, log
<1>18. CASE broadcast_unlock(c)
  BY <1>0, <1>18 DEF broadcast_unlock, Local, Goto, Continue, room, net, log
<1>19. CASE handle_client(c)
  BY <1>0, <1>19 DEF handle_client, Local, Goto, room, net, log
<1>20. CASE remove_client(c)
  BY <1>0, <1>20 DEF remove_client, Local, Goto, room, net, log
<1>21. CASE greet_personally(c)
  BY <1>0, <1>21 DEF greet_personally, Local, Quiet, Goto, room, net, log
<1>22. CASE write_reply(c)
  BY <1>0, <1>22 DEF write_reply, Local, Quiet, Goto, room, net, log
<1>23. ASSUME NEW d \in Conns, broadcast_write(c, d)
       PROVE  Local(c)
  BY <1>0, <1>23 DEF broadcast_write, Local, Goto, room, net, log
<1>24. ASSUME NEW d \in Conns, broadcast_fails(c, d)
       PROVE  Local(c)
  BY <1>0, <1>24 DEF broadcast_fails, Local, Goto, room, net, log
<1> QED
  BY <1>1, <1>2, <1>3, <1>4, <1>5, <1>6, <1>7, <1>8, <1>9, <1>10, <1>11, <1>12,
     <1>13, <1>14, <1>15, <1>16, <1>17, <1>18, <1>19, <1>20, <1>21, <1>22,
     <1>23, <1>24 DEF Thread, Environment

-----------------------------------------------------------------------------
(* The clients lock *)

LEMMA LockStep ==
  ASSUME TypeOK, LockDiscipline, [Next]_vars
  PROVE  LockDiscipline'
<1> USE ConstantsAssumption
<1>0. /\ clients \subseteq Conns
      /\ lock \in Conns \union {NoConn}
      /\ pc \in [Conns -> PC]
      /\ todo \in [Conns -> SUBSET Conns]
  BY DEF TypeOK
<1>1. CASE UNCHANGED vars
  BY <1>1 DEF vars, LockDiscipline
<1>2. ASSUME NEW c \in Conns, Thread(c) \/ Environment(c)
      PROVE  LockDiscipline'
  <2>1. Local(c)
    BY <1>2, Shape
  <2>2. CASE Outer
    BY <2>2 DEF Outer, LockDiscipline
  <2>3. CASE Quiet(c)
    BY <1>0, <2>1, <2>3 DEF Quiet, Local, LockDiscipline
  <2>4. CASE broadcast_lock(c)
    BY <1>0, <2>1, <2>4 DEF broadcast_lock, Goto, Local, LockDiscipline
  <2>5. ASSUME NEW d \in Conns, broadcast_write(c, d)
        PROVE  LockDiscipline'
    BY <1>0, <2>1, <2>5 DEF broadcast_write, room, Local, LockDiscipline
  <2>6. ASSUME NEW d \in Conns, broadcast_fails(c, d)
        PROVE  LockDiscipline'
    BY <1>0, <2>1, <2>6 DEF broadcast_fails, Goto, Local, LockDiscipline
  <2>7. CASE broadcast_unlock(c)
    <3>1. /\ pc[c] = "writing" /\ pc'[c] # "writing"
          /\ lock' = NoConn /\ todo[c] = {} /\ UNCHANGED <<clients, todo>>
      BY <1>0, <2>7 DEF broadcast_unlock, Continue, Goto
    <3> QED
      BY <1>0, <2>1, <3>1 DEF Local, LockDiscipline
  <2>8. CASE handle_client(c)
    BY <1>0, <2>1, <2>8 DEF handle_client, Goto, Local, LockDiscipline
  <2>9. CASE remove_client(c)
    BY <1>0, <2>1, <2>9 DEF remove_client, Goto, Local, LockDiscipline
  <2> QED
    BY <1>2, <2>2, <2>3, <2>4, <2>5, <2>6, <2>7, <2>8, <2>9, Shape
<1> QED
  BY <1>1, <1>2 DEF Next

\* A broadcast is never interrupted: one thread at a time writes to the peers
\* of the map, it holds the lock, and the entries it has still to visit exist.
THEOREM LockIsDisciplined == Spec => []LockDiscipline
<1>1. Init => LockDiscipline
  <2>1. Init => /\ pc = [c \in Conns |-> "idle"]
                /\ lock = NoConn
                /\ todo = [c \in Conns |-> {}]
    BY DEF Init
  <2> QED
    BY <2>1, ConstantsAssumption DEF LockDiscipline
<1>2. TypeOK /\ LockDiscipline /\ [Next]_vars => LockDiscipline'
  BY LockStep
<1> QED
  BY <1>1, <1>2, TypeCorrect, PTL DEF Spec

-----------------------------------------------------------------------------
(* The order of broadcasts *)

LEMMA AppendFacts ==
  ASSUME NEW s \in Seq(ServerMessage), NEW m \in ServerMessage
  PROVE  /\ Len(s) \in Nat
         /\ Len(Append(s, m)) = Len(s) + 1
         /\ \A i \in 1..Len(s) : Append(s, m)[i] = s[i]
         /\ Append(s, m)[Len(s) + 1] = m
OBVIOUS

LEMMA LastOrEarlier ==
  ASSUME NEW s \in Seq(ServerMessage), NEW m \in ServerMessage,
         NEW i \in 1..Len(Append(s, m))
  PROVE  \/ i = Len(s) + 1 /\ Append(s, m)[i] = m
         \/ i \in 1..Len(s) /\ Append(s, m)[i] = s[i]
<1>1. i \in 1..Len(s) \/ i = Len(s) + 1
  BY AppendFacts
<1> QED
  BY <1>1, AppendFacts

LEMMA Delivery ==
  ASSUME TypeOK, NEW d \in Conns, NEW m, Deliver(d, m)
  PROVE  \A e \in Conns : \/ out'[e] = out[e]
                          \/ e = d /\ out'[e] = Append(out[e], m)
<1>1. out \in [Conns -> Seq(ServerMessage)]
  BY DEF TypeOK
<1> QED
  BY <1>1 DEF Deliver

\* What a thread writes to its own peer belongs to no broadcast.
LEMMA Whisper ==
  ASSUME TypeOK, Numbering, NEW c \in Conns,
         greet_personally(c) \/ write_reply(c)
  PROVE  \E m \in ServerMessage :
           /\ m.id = 0
           /\ \A e \in Conns : \/ out'[e] = out[e]
                               \/ e = c /\ out'[e] = Append(out[e], m)
<1>1. CASE greet_personally(c)
  <2> DEFINE m == Message("Support", c, name(c))
  <2>1. m \in ServerMessage /\ m.id = 0
    BY MessageType, NameType DEF Message
  <2>2. Deliver(c, m) \/ UNCHANGED out
    BY <1>1 DEF greet_personally
  <2>3. \A e \in Conns : out'[e] = out[e] \/ (e = c /\ out'[e] = Append(out[e], m))
    BY <2>2, Delivery
  <2> QED
    BY <2>1, <2>3
<1>2. CASE write_reply(c)
  <2>1. msg[c] \in ServerMessage /\ msg[c].id = 0
    BY <1>2 DEF write_reply, TypeOK, Numbering
  <2>2. Deliver(c, msg[c]) \/ UNCHANGED out
    BY <1>2 DEF write_reply
  <2>3. \A e \in Conns : \/ out'[e] = out[e]
                         \/ e = c /\ out'[e] = Append(out[e], msg[c])
    BY <2>2, Delivery
  <2> QED
    BY <2>1, <2>3
<1> QED
  BY <1>1, <1>2

LEMMA NumberingStep ==
  ASSUME TypeOK, LockDiscipline, Numbering, [Next]_vars
  PROVE  Numbering'
<1> USE ConstantsAssumption
<1>0. /\ out \in [Conns -> Seq(ServerMessage)]
      /\ pc \in [Conns -> PC]
      /\ msg \in [Conns -> ServerMessage]
      /\ todo \in [Conns -> SUBSET Conns]
      /\ count \in Nat
  BY DEF TypeOK
<1>a. \A e \in Conns : \A i \in 1..Len(out[e]) :
        out[e][i].id \in Nat /\ out[e][i].id <= count
  <2>1. ASSUME NEW e \in Conns, NEW i \in 1..Len(out[e])
        PROVE  out[e][i] \in ServerMessage
    <3>1. out[e] \in Seq(ServerMessage)
      BY <1>0
    <3> QED
      BY <3>1
  <2> QED
    BY <2>1 DEF Numbering, ServerMessage
<1>1. CASE UNCHANGED vars
  BY <1>1 DEF vars, Numbering
<1>2. ASSUME NEW c \in Conns, Thread(c) \/ Environment(c)
      PROVE  Numbering'
  <2>1. Local(c)
    BY <1>2, Shape
  <2>2. CASE Outer
    BY <2>2 DEF Outer, Numbering
  <2>3. CASE Quiet(c) /\ UNCHANGED out
    BY <1>0, <2>1, <2>3 DEF Quiet, Local, Numbering
  <2>4. CASE Quiet(c) /\ (greet_personally(c) \/ write_reply(c))
    <3>1. PICK m \in ServerMessage :
            /\ m.id = 0
            /\ \A e \in Conns : \/ out'[e] = out[e]
                                \/ e = c /\ out'[e] = Append(out[e], m)
      BY <2>4, Whisper
    <3>2. ASSUME NEW e \in Conns, NEW i \in 1..Len(out'[e])
          PROVE  \/ out'[e][i].id = 0
                 \/ i \in 1..Len(out[e]) /\ out'[e][i] = out[e][i]
      <4>1. out[e] \in Seq(ServerMessage)
        BY <1>0
      <4>2. CASE out'[e] = Append(out[e], m)
        BY <3>1, <4>1, <4>2, LastOrEarlier
      <4> QED
        BY <3>1, <4>2
    <3>3. \A e \in Conns : \A i \in 1..Len(out'[e]) : out'[e][i].id <= count'
      <4>1. count' = count /\ count \in Nat
        BY <1>0, <2>4 DEF Quiet
      <4> QED
        BY <1>a, <3>2, <4>1
    <3>4. ASSUME NEW e \in Conns, pc'[e] = "writing"
          PROVE  /\ msg'[e].id = count'
                 /\ count' > 0
                 /\ \A d \in todo'[e] :
                      \A i \in 1..Len(out'[d]) : out'[d][i].id < count'
      <4>1. e # c /\ pc[e] = "writing" /\ msg'[e] = msg[e] /\ todo'[e] = todo[e]
        BY <2>1, <2>4, <3>4 DEF Quiet, Local
      <4>2. \A d \in todo'[e] : \A i \in 1..Len(out'[d]) : out'[d][i].id < count
        BY <1>0, <3>2, <4>1 DEF Numbering
      <4> QED
        BY <2>4, <4>1, <4>2 DEF Quiet, Numbering
    <3>5. \A e \in Conns : pc'[e] = "reply" => msg'[e].id = 0
      BY <2>1, <2>4 DEF Quiet, Local, Numbering
    <3> QED
      BY <3>3, <3>4, <3>5 DEF Numbering
  <2>5. CASE broadcast_lock(c)
    <3>1. \A e \in Conns : pc[e] # "writing"
      BY <2>5 DEF broadcast_lock, LockDiscipline
    <3>2. /\ count' = count + 1
          /\ UNCHANGED out
          /\ pc' = [pc EXCEPT ![c] = "writing"]
          /\ msg' = [msg EXCEPT ![c] = Numbered(msg[c], count + 1)]
      BY <2>5 DEF broadcast_lock, Goto
    <3>3. msg'[c].id = count'
      BY <1>0, <3>2 DEF Numbered
    <3>4. todo'[c] \subseteq Conns
      BY <1>0, <2>5 DEF broadcast_lock, TypeOK
    <3>5. \A d \in Conns : \A i \in 1..Len(out'[d]) : out'[d][i].id < count'
      BY <1>0, <1>a, <3>2
    <3>6. /\ \A e \in Conns : pc'[e] = "writing" => e = c
          /\ \A e \in Conns : pc'[e] = "reply" => pc[e] = "reply" /\ msg'[e] = msg[e]
      BY <1>0, <2>1, <3>1, <3>2 DEF Local
    <3>7. \A d \in Conns : \A i \in 1..Len(out'[d]) : out'[d][i].id <= count'
      BY <1>0, <1>a, <3>2
    <3> QED
      BY <1>0, <3>2, <3>3, <3>4, <3>5, <3>6, <3>7 DEF Numbering
  <2>6. ASSUME NEW d \in Conns, broadcast_write(c, d)
        PROVE  Numbering'
    <3>1. /\ pc[c] = "writing" /\ d \in todo[c]
          /\ todo' = [todo EXCEPT ![c] = @ \ {d}]
          /\ UNCHANGED <<pc, msg, count>>
          /\ Deliver(d, msg[c])
      BY <2>6 DEF broadcast_write
    <3>2. /\ msg[c].id = count /\ count > 0
          /\ \A e \in Conns : pc[e] = "writing" => e = c
      BY <3>1 DEF LockDiscipline, Numbering
    <3>3. \A e \in Conns : \/ out'[e] = out[e]
                           \/ e = d /\ out'[e] = Append(out[e], msg[c])
      BY <3>1, Delivery
    <3>4. \A e \in Conns : \A i \in 1..Len(out'[e]) :
            \/ out'[e][i] = msg[c]
            \/ i \in 1..Len(out[e]) /\ out'[e][i] = out[e][i]
      <4>1. msg[c] \in ServerMessage /\ \A e \in Conns : out[e] \in Seq(ServerMessage)
        BY <1>0
      <4> QED
        BY <3>3, <4>1, LastOrEarlier
    <3>5. \A e \in Conns : \A i \in 1..Len(out'[e]) : out'[e][i].id <= count'
      <4>1. count' = count /\ msg[c].id = count /\ count \in Nat
        BY <1>0, <3>1, <3>2
      <4> QED
        BY <1>a, <3>4, <4>1
    <3>6. \A e \in todo'[c] : e \in todo[c] /\ e # d
      BY <1>0, <3>1
    <3>7. \A e \in todo'[c] : \A i \in 1..Len(out'[e]) : out'[e][i].id < count'
      BY <1>0, <3>1, <3>3, <3>6 DEF Numbering
    <3> QED
      BY <3>1, <3>2, <3>5, <3>7 DEF Numbering
  <2>7. ASSUME UNCHANGED <<out, count>>, pc'[c] \notin {"writing", "reply"}
        PROVE  Numbering'
    BY <1>0, <2>1, <2>7 DEF Local, Numbering
  <2>8. ASSUME NEW d \in Conns, broadcast_fails(c, d)
        PROVE  Numbering'
    BY <1>0, <2>7, <2>8 DEF broadcast_fails, Goto, log
  <2>9. CASE broadcast_unlock(c)
    <3>1. UNCHANGED <<out, count>> /\ pc'[c] \notin {"writing", "reply"}
      BY <1>0, <2>9 DEF broadcast_unlock, Continue, Goto, log
    <3> QED
      BY <2>7, <3>1
  <2>10. CASE handle_client(c)
    BY <1>0, <2>7, <2>10 DEF handle_client, Goto, log
  <2>11. CASE remove_client(c)
    BY <1>0, <2>7, <2>11 DEF remove_client, Goto, log
  <2> QED
    BY <1>2, <2>2, <2>3, <2>4, <2>5, <2>6, <2>8, <2>9, <2>10, <2>11, Shape
<1> QED
  BY <1>1, <1>2 DEF Next

InOrder(s) ==
  \A i, j \in 1..Len(s) :
    i < j /\ s[i].id # 0 /\ s[j].id # 0 => s[i].id < s[j].id

LEMMA OrderKept ==
  ASSUME NEW s \in Seq(ServerMessage), InOrder(s), NEW m \in ServerMessage,
         m.id = 0 \/ \A i \in 1..Len(s) : s[i].id < m.id
  PROVE  InOrder(Append(s, m))
<1> DEFINE t == Append(s, m)
<1> SUFFICES ASSUME NEW i \in 1..Len(t), NEW j \in 1..Len(t),
                    i < j, t[i].id # 0, t[j].id # 0
             PROVE  t[i].id < t[j].id
  BY DEF InOrder
<1>1. i \in 1..Len(s) /\ t[i] = s[i]
  BY LastOrEarlier, AppendFacts
<1>2. CASE j \in 1..Len(s) /\ t[j] = s[j]
  BY <1>1, <1>2 DEF InOrder
<1>3. CASE t[j] = m
  BY <1>1, <1>3
<1> QED
  BY <1>2, <1>3, LastOrEarlier

LEMMA OrderStep ==
  ASSUME TypeOK, Numbering, DeliveredInOrder, [Next]_vars
  PROVE  DeliveredInOrder'
<1>0. \A e \in Conns : out[e] \in Seq(ServerMessage) /\ InOrder(out[e])
  BY DEF TypeOK, DeliveredInOrder, InOrder
<1>1. CASE UNCHANGED out
  BY <1>1 DEF DeliveredInOrder
<1>2. ASSUME NEW c \in Conns, greet_personally(c) \/ write_reply(c)
      PROVE  DeliveredInOrder'
  <2>1. PICK m \in ServerMessage :
          /\ m.id = 0
          /\ \A e \in Conns : \/ out'[e] = out[e]
                              \/ e = c /\ out'[e] = Append(out[e], m)
    BY <1>2, Whisper
  <2>2. \A e \in Conns : InOrder(out'[e])
    BY <1>0, <2>1, OrderKept
  <2> QED
    BY <2>2 DEF DeliveredInOrder, InOrder
<1>3. ASSUME NEW c \in Conns, NEW d \in Conns, broadcast_write(c, d)
      PROVE  DeliveredInOrder'
  <2>1. msg[c] \in ServerMessage
    BY DEF TypeOK
  <2>2. \A i \in 1..Len(out[d]) : out[d][i].id < msg[c].id
    BY <1>3 DEF broadcast_write, Numbering
  <2>3. \A e \in Conns : \/ out'[e] = out[e]
                         \/ e = d /\ out'[e] = Append(out[e], msg[c])
    BY <1>3, Delivery DEF broadcast_write
  <2>4. \A e \in Conns : InOrder(out'[e])
    BY <1>0, <2>1, <2>2, <2>3, OrderKept
  <2> QED
    BY <2>4 DEF DeliveredInOrder, InOrder
<1>4. ASSUME NEW c \in Conns, Thread(c) \/ Environment(c)
      PROVE  DeliveredInOrder'
  <2>1. CASE Outer
    BY <1>1, <2>1 DEF Outer
  <2>2. CASE Quiet(c) /\ UNCHANGED out
    BY <1>1, <2>2
  <2>3. CASE greet_personally(c) \/ write_reply(c)
    BY <1>2, <2>3
  <2>4. CASE broadcast_lock(c)
    BY <1>1, <2>4 DEF broadcast_lock
  <2>5. ASSUME NEW d \in Conns, broadcast_write(c, d)
        PROVE  DeliveredInOrder'
    BY <1>3, <2>5
  <2>6. ASSUME NEW d \in Conns, broadcast_fails(c, d)
        PROVE  DeliveredInOrder'
    BY <1>1, <2>6 DEF broadcast_fails, log
  <2>7. CASE broadcast_unlock(c)
    BY <1>1, <2>7 DEF broadcast_unlock, log
  <2>8. CASE handle_client(c)
    BY <1>1, <2>8 DEF handle_client, log
  <2>9. CASE remove_client(c)
    BY <1>1, <2>9 DEF remove_client, log
  <2> QED
    BY <1>4, <2>1, <2>2, <2>3, <2>4, <2>5, <2>6, <2>7, <2>8, <2>9, Shape
<1> QED
  BY <1>1, <1>4 DEF Next, vars

\* Every peer is sent the broadcasts in the order in which they took the lock,
\* for any number of connections, renames, interruptions and failures.
THEOREM BroadcastsAreOrdered == Spec => []DeliveredInOrder
<1>1. Init => Numbering /\ DeliveredInOrder
  <2>1. Init => /\ pc = [c \in Conns |-> "idle"]
                /\ out = [c \in Conns |-> <<>>]
    BY DEF Init
  <2> QED
    BY <2>1 DEF Numbering, DeliveredInOrder
<1>2. TypeOK /\ LockDiscipline /\ Numbering /\ DeliveredInOrder /\ [Next]_vars
      => Numbering' /\ DeliveredInOrder'
  BY NumberingStep, OrderStep
<1> QED
  BY <1>1, <1>2, TypeCorrect, LockIsDisciplined, PTL DEF Spec

-----------------------------------------------------------------------------
(* Names *)

\* What a rename accepts.
Acceptable(n) == n \in Names /\ n # ServerName /\ \A d \in Conns : names[d] # n

LEMMA NamesChange ==
  ASSUME TypeOK, NEW c \in Conns, Thread(c) \/ Environment(c)
  PROVE  \/ names' = names
         \/ names' = [names EXCEPT ![c] = NoName]
         \/ \E n : Acceptable(n) /\ names' = [names EXCEPT ![c] = n]
<1>1. CASE handle_client_rename(c)
  <2> DEFINE n == Head(inbox[c]).name
  <2>1. Reads(c, "Rename")
    BY <1>1 DEF handle_client_rename
  <2>2. Head(inbox[c]) \in Requests
    BY <2>1 DEF Reads, TypeOK
  <2>3. n \in Names \union Conns
    BY <2>1, <2>2, ConstantsAssumption DEF Reads, ClientMessage
  <2>4. \/ names' = names
        \/ ~Forbidden(n) /\ ~Taken(n) /\ names' = [names EXCEPT ![c] = n]
    BY <1>1 DEF handle_client_rename
  <2> QED
    BY <2>3, <2>4 DEF Forbidden, Taken, Acceptable
<1>2. CASE remove_name(c)
  BY <1>2 DEF remove_name
<1>3. CASE greet_user(c) \/ greet_personally(c) \/ remote_address(c)
           \/ handle_client(c) \/ broadcast_lock(c) \/ broadcast_unlock(c)
  BY <1>3 DEF greet_user, greet_personally, remote_address, handle_client,
              broadcast_lock, broadcast_unlock, room
<1>4. ASSUME NEW d \in Conns, broadcast_write(c, d) \/ broadcast_fails(c, d)
      PROVE  names' = names
  BY <1>4 DEF broadcast_write, broadcast_fails, room
<1>5. CASE read_and_handle_client_message(c) \/ read_fails(c)
           \/ read_unparsable(c) \/ broadcast_interupt(c)
           \/ handle_client_text(c) \/ handle_upper_bound_violation(c)
           \/ handle_client_leave(c)
  BY <1>5 DEF read_and_handle_client_message, read_fails, read_unparsable,
              broadcast_interupt, handle_client_text,
              handle_upper_bound_violation, handle_client_leave, room
<1>6. CASE write_reply(c) \/ remove_from_clients(c) \/ remove_client(c)
  BY <1>6 DEF write_reply, remove_from_clients, remove_client, room
<1>7. CASE Environment(c)
  BY <1>7 DEF Environment, handle_connection, Send, Close, Reset, room
<1> QED
  BY <1>1, <1>2, <1>3, <1>4, <1>5, <1>6, <1>7 DEF Thread

LEMMA NamesStep ==
  ASSUME TypeOK, DisplayNamesUnique, [Next]_vars
  PROVE  DisplayNamesUnique'
<1> USE ConstantsAssumption
<1>0. names \in [Conns -> Names \union {NoName}]
  BY DEF TypeOK
<1>1. CASE names' = names
  BY <1>1 DEF DisplayNamesUnique, name
<1>2. ASSUME NEW c \in Conns, names' = [names EXCEPT ![c] = NoName]
      PROVE  DisplayNamesUnique'
  <2>1. \A d \in Conns : name(d)' = IF d = c THEN c ELSE name(d)
    BY <1>0, <1>2 DEF name
  <2>2. \A d \in Conns : d # c => name(d) # c
    BY <1>0 DEF name
  <2> QED
    BY <2>1, <2>2 DEF DisplayNamesUnique
<1>3. ASSUME NEW c \in Conns, NEW n, Acceptable(n),
             names' = [names EXCEPT ![c] = n]
      PROVE  DisplayNamesUnique'
  <2>1. \A d \in Conns : name(d)' = IF d = c THEN n ELSE name(d)
    BY <1>0, <1>3 DEF name, Acceptable
  <2>2. \A d \in Conns : name(d) # n
    BY <1>0, <1>3 DEF name, Acceptable
  <2> QED
    BY <1>3, <2>1, <2>2 DEF DisplayNamesUnique, Acceptable
<1> QED
  BY <1>1, <1>2, <1>3, NamesChange DEF Next, vars

\* No two peers are ever shown under the same name, none is shown as "Server"
\* or as the address of another, whatever renames and departures interleave.
THEOREM NamesAreUnique == Spec => []DisplayNamesUnique
<1>1. Init => DisplayNamesUnique
  BY ConstantsAssumption DEF Init, DisplayNamesUnique, name
<1>2. TypeOK /\ DisplayNamesUnique /\ [Next]_vars => DisplayNamesUnique'
  BY NamesStep
<1> QED
  BY <1>1, <1>2, TypeCorrect, PTL DEF Spec

-----------------------------------------------------------------------------
(* Entries of the maps *)

\* A thread that is outside after its step was outside before, or has just
\* removed its entry; one that is done has removed its name.
LEMMA MembershipShape ==
  ASSUME TypeOK, Membership, NEW c \in Conns, Thread(c) \/ Environment(c)
  PROVE  /\ clients' \subseteq clients \union {c}
         /\ Outside(c)' => c \notin clients'
         /\ pc'[c] = "done" => names'[c] = NoName
<1>0. /\ pc \in [Conns -> PC]
      /\ then \in [Conns -> Then]
      /\ names \in [Conns -> Names \union {NoName}]
  BY DEF TypeOK
<1> DEFINE Goal ==
      /\ clients' \subseteq clients \union {c}
      /\ Outside(c)' => c \notin clients'
      /\ pc'[c] = "done" => names'[c] = NoName
<1>1. CASE greet_user(c)
    BY <1>0, <1>1 DEF greet_user, Goto, Broadcast, Message, Membership, Outside, Entering,
     room, net, log
<1>2. CASE greet_personally(c)
  BY <1>0, <1>2 DEF greet_personally, Goto, Membership, Outside, Entering, room, net, log
<1>3. CASE remote_address(c)
  BY <1>0, <1>3 DEF remote_address, Goto, Membership, Outside, Entering, room, net, log
<1>4. CASE handle_client(c)
  BY <1>0, <1>4 DEF handle_client, Goto, Membership, Outside, Entering, room, net, log
<1>5. CASE broadcast_lock(c)
  BY <1>0, <1>5 DEF broadcast_lock, Goto, Membership, Outside, Entering, room, net, log
<1>6. CASE broadcast_unlock(c)
    BY <1>0, <1>6 DEF broadcast_unlock, Goto, Continue, Membership, Outside, Entering,
     room, net, log
<1>7. CASE read_and_handle_client_message(c)
    BY <1>0, <1>7 DEF read_and_handle_client_message, Goto, Membership, Outside, Entering,
     room, net, log
<1>8. CASE read_fails(c)
  BY <1>0, <1>8 DEF read_fails, Goto, Membership, Outside, Entering, room, net, log
<1>9. CASE read_unparsable(c)
    BY <1>0, <1>9 DEF read_unparsable, Goto, Reads, Membership, Outside, Entering, room,
     net, log
<1>10. CASE broadcast_interupt(c)
    BY <1>0, <1>10 DEF broadcast_interupt, Goto, Broadcast, Membership, Outside, Entering,
     room, net, log
<1>11. CASE handle_client_text(c)
    BY <1>0, <1>11 DEF handle_client_text, Goto, Reads, Broadcast, Membership,
     Outside, Entering, room, net, log
<1>12. CASE handle_upper_bound_violation(c)
    BY <1>0, <1>12 DEF handle_upper_bound_violation, Goto, Reads, Membership,
     Outside, Entering, room, net, log
<1>13. CASE handle_client_leave(c)
    BY <1>0, <1>13 DEF handle_client_leave, Goto, Reads, Membership, Outside, Entering,
     room, net, log
<1>14. CASE handle_client_rename(c)
    BY <1>0, <1>14 DEF handle_client_rename, Goto, Reads, Reply, Membership,
     Outside, Entering, room, net, log
<1>15. CASE write_reply(c)
  BY <1>0, <1>15 DEF write_reply, Goto, Membership, Outside, Entering, room, net, log
<1>16. CASE remove_from_clients(c)
    BY <1>0, <1>16 DEF remove_from_clients, Goto, Membership, Outside, Entering, room,
     net, log
<1>17. CASE remove_client(c)
  BY <1>0, <1>17 DEF remove_client, Goto, Membership, Outside, Entering, room, net, log
<1>18. CASE remove_name(c)
  BY <1>0, <1>18 DEF remove_name, Goto, Membership, Outside, Entering, room, net, log
<1>19. ASSUME NEW d \in Conns, broadcast_write(c, d)
       PROVE  Goal
  BY <1>0, <1>19 DEF broadcast_write, Membership, Outside, Entering, room
<1>20. ASSUME NEW d \in Conns, broadcast_fails(c, d)
       PROVE  Goal
  BY <1>0, <1>20 DEF broadcast_fails, Goto, Membership, Outside, Entering
<1>21. CASE handle_connection(c)
  BY <1>0, <1>21 DEF handle_connection, Goto, Membership, Outside, Entering, room
<1>22. CASE Send(c) \/ Close(c) \/ Reset(c)
  <2>1. UNCHANGED <<clients, names, pc, then>>
    BY <1>22 DEF Send, Close, Reset, room
  <2> QED
    BY <2>1 DEF Membership, Outside, Entering
<1>23. ASSUME Thread(c)
       PROVE  Goal
  BY <1>1, <1>2, <1>3, <1>4, <1>5, <1>6, <1>7, <1>8, <1>9, <1>10, <1>11, <1>12,
     <1>13, <1>14, <1>15, <1>16, <1>17, <1>18, <1>19, <1>20, <1>23, Zenon
     DEF Thread
<1>24. ASSUME Environment(c)
       PROVE  Goal
  BY <1>21, <1>22, <1>24 DEF Environment
<1> QED
  BY <1>23, <1>24

LEMMA MembershipStep ==
  ASSUME TypeOK, Membership, [Next]_vars
  PROVE  Membership'
<1>1. CASE UNCHANGED vars
  BY <1>1 DEF vars, Membership, Outside, Entering
<1>2. ASSUME NEW c \in Conns, Thread(c) \/ Environment(c)
      PROVE  Membership'
  <2>1. Local(c)
    BY <1>2, Shape
  <2>2. /\ clients' \subseteq clients \union {c}
        /\ Outside(c)' => c \notin clients'
        /\ pc'[c] = "done" => names'[c] = NoName
    BY <1>2, MembershipShape
  <2> QED
    BY <2>1, <2>2 DEF Local, Membership, Outside, Entering
<1> QED
  BY <1>1, <1>2 DEF Next

\* The thread that stops without an error leaves no entry in either map, and
\* nobody still writes to its peer.
THEOREM NoTraceIsLeft == Spec => []StoppedLeavesNoTrace
<1>1. Init => Membership
  BY DEF Init, Membership
<1>2. TypeOK /\ Membership /\ [Next]_vars => Membership'
  BY MembershipStep
<1>3. TypeOK /\ LockDiscipline /\ Membership => StoppedLeavesNoTrace
  BY DEF LockDiscipline, Membership, Outside, Entering, StoppedLeavesNoTrace
<1> QED
  BY <1>1, <1>2, <1>3, TypeCorrect, LockIsDisciplined, PTL DEF Spec

-----------------------------------------------------------------------------
(* No broadcast is missed *)

LEMMA EntersOnce ==
  ASSUME TypeOK, NEW c \in Conns, Thread(c) \/ Environment(c), Entering(c)'
  PROVE  Entering(c)
<1>0. /\ pc \in [Conns -> PC]
      /\ then \in [Conns -> Then]
  BY DEF TypeOK
<1>1. CASE greet_user(c) \/ greet_personally(c) \/ remote_address(c)
  BY <1>1 DEF greet_user, greet_personally, remote_address, Entering
<1>2. CASE handle_client(c)
  BY <1>0, <1>2 DEF handle_client, Goto, Entering
<1>3. CASE broadcast_lock(c)
  BY <1>0, <1>3 DEF broadcast_lock, Goto, Entering, net
<1>4. CASE broadcast_unlock(c)
  BY <1>0, <1>4 DEF broadcast_unlock, Continue, Goto, Entering
<1>5. CASE read_and_handle_client_message(c) \/ read_fails(c) \/ read_unparsable(c)
  BY <1>0, <1>5 DEF read_and_handle_client_message, read_fails, read_unparsable,
     Goto, Entering
<1>6. CASE broadcast_interupt(c) \/ handle_client_text(c)
  BY <1>0, <1>6 DEF broadcast_interupt, handle_client_text, Broadcast, Goto, Entering
<1>7. CASE handle_upper_bound_violation(c) \/ handle_client_leave(c)
  BY <1>0, <1>7 DEF handle_upper_bound_violation, handle_client_leave, Goto, Entering
<1>8. CASE handle_client_rename(c)
  BY <1>0, <1>8 DEF handle_client_rename, Reply, Goto, Entering
<1>9. CASE write_reply(c) \/ remove_from_clients(c) \/ remove_client(c)
  BY <1>0, <1>9 DEF write_reply, remove_from_clients, remove_client, Goto, Entering
<1>10. CASE remove_name(c)
  BY <1>0, <1>10 DEF remove_name, Goto, Entering
<1>11. ASSUME NEW d \in Conns, broadcast_write(c, d) \/ broadcast_fails(c, d)
       PROVE  Entering(c)
  BY <1>0, <1>11 DEF broadcast_write, broadcast_fails, Goto, Entering
<1>12. CASE Environment(c)
  BY <1>0, <1>12 DEF Environment, handle_connection, Send, Close, Reset, Goto,
     Entering
<1>13. CASE Thread(c)
  BY <1>1, <1>2, <1>3, <1>4, <1>5, <1>6, <1>7, <1>8, <1>9, <1>10, <1>11, <1>13,
     Zenon DEF Thread
<1> QED
  BY <1>12, <1>13

\* A peer that was reset stays so, and only an accepted connection is new.
LEMMA SockStep ==
  ASSUME TypeOK, NEW c \in Conns, Thread(c) \/ Environment(c), NEW e \in Conns
  PROVE  /\ Connected(e)' => Connected(e)
         /\ sock'[e] = "open" => sock[e] = "open" \/ (e = c /\ handle_connection(c))
<1>0. sock \in [Conns -> Sock]
  BY DEF TypeOK
<1> DEFINE Goal ==
      /\ sock'[e] # "reset" => sock[e] # "reset"
      /\ sock'[e] = "open" => sock[e] = "open" \/ (e = c /\ handle_connection(c))
<1> SUFFICES Goal
  BY DEF Connected
<1>2. CASE UNCHANGED sock
  BY <1>2
<1>3. ASSUME NEW d \in Conns, NEW m, Deliver(d, m)
      PROVE  Goal
  BY <1>0, <1>3 DEF Deliver
<1>4. CASE greet_personally(c) \/ write_reply(c)
  BY <1>2, <1>3, <1>4 DEF greet_personally, write_reply
<1>5. ASSUME NEW d \in Conns, broadcast_write(c, d)
      PROVE  Goal
  BY <1>3, <1>5 DEF broadcast_write
<1>6. ASSUME NEW d \in Conns, broadcast_fails(c, d)
      PROVE  Goal
  BY <1>2, <1>6 DEF broadcast_fails, net
<1>7. CASE greet_user(c) \/ remote_address(c) \/ handle_client(c)
           \/ broadcast_lock(c) \/ broadcast_unlock(c)
  BY <1>2, <1>7 DEF greet_user, remote_address, handle_client, broadcast_lock,
     broadcast_unlock, net
<1>8. CASE read_and_handle_client_message(c) \/ read_fails(c) \/ read_unparsable(c)
           \/ broadcast_interupt(c) \/ handle_client_text(c)
  BY <1>2, <1>8 DEF read_and_handle_client_message, read_fails, read_unparsable,
     broadcast_interupt, handle_client_text, net
<1>9. CASE handle_upper_bound_violation(c) \/ handle_client_leave(c)
           \/ handle_client_rename(c)
  BY <1>2, <1>9 DEF handle_upper_bound_violation, handle_client_leave,
     handle_client_rename
<1>10. CASE remove_from_clients(c) \/ remove_client(c) \/ remove_name(c)
  BY <1>2, <1>10 DEF remove_from_clients, remove_client, remove_name, net
<1>11. CASE Environment(c)
  <2>1. CASE handle_connection(c)
    BY <1>0, <2>1 DEF handle_connection
  <2>2. CASE Send(c) \/ Close(c) \/ Reset(c)
    BY <1>0, <2>2 DEF Send, Close, Reset
  <2> QED
    BY <1>11, <2>1, <2>2 DEF Environment
<1>12. CASE Thread(c)
  BY <1>4, <1>5, <1>6, <1>7, <1>8, <1>9, <1>10, <1>12, Zenon DEF Thread
<1> QED
  BY <1>11, <1>12

LEMMA UpToDateStep ==
  ASSUME TypeOK, LockDiscipline, Numbering, Membership, UpToDate, [Next]_vars
  PROVE  UpToDate'
<1> USE ConstantsAssumption
<1> SUFFICES ASSUME NobodyReset'
             PROVE  /\ (\A d \in Conns : Entering(d) => Unheard(d))'
                    /\ (\A d \in clients : sock[d] = "open" =>
                          \/ Unheard(d)
                          \/ Heard(d, count)
                          \/ lock # NoConn /\ d \in todo[lock] /\ Heard(d, count - 1))'
  BY DEF UpToDate
<1> DEFINE Heeded(d) ==
      \/ Unheard(d)
      \/ Heard(d, count)
      \/ lock # NoConn /\ d \in todo[lock] /\ Heard(d, count - 1)
<1>0. /\ out \in [Conns -> Seq(ServerMessage)]
      /\ todo \in [Conns -> SUBSET Conns]
      /\ msg \in [Conns -> ServerMessage]
      /\ clients \subseteq Conns
      /\ count \in Nat
  BY DEF TypeOK
<1>1. CASE UNCHANGED vars
  BY <1>1 DEF vars, UpToDate, NobodyReset, Connected, Entering, Unheard, Heard
<1>2. ASSUME NEW c \in Conns, Thread(c) \/ Environment(c)
      PROVE  /\ (\A d \in Conns : Entering(d) => Unheard(d))'
             /\ (\A d \in clients : sock[d] = "open" => Heeded(d))'
  <2>1. Local(c)
    BY <1>2, Shape
  <2>2. NobodyReset
    BY <1>2, SockStep DEF NobodyReset
  <2>3. ASSUME NEW d \in Conns, NEW m \in ServerMessage,
               out'[d] = Append(out[d], m)
        PROVE  /\ \A n : Heard(d, n) => Heard(d, n)'
               /\ Heard(d, m.id)'
               /\ m.id = 0 /\ Unheard(d) => Unheard(d)'
    <3>1. out[d] \in Seq(ServerMessage)
      BY <1>0
    <3>2. /\ Len(out[d]) \in Nat
          /\ Len(out'[d]) = Len(out[d]) + 1
          /\ \A i \in 1..Len(out[d]) : out'[d][i] = out[d][i]
          /\ out'[d][Len(out[d]) + 1] = m
      BY <2>3, <3>1, AppendFacts
    <3>3. \A n : Heard(d, n) => Heard(d, n)'
      BY <3>2 DEF Heard
    <3>4. Heard(d, m.id)'
      BY <3>2 DEF Heard
    <3>5. m.id = 0 /\ Unheard(d) => Unheard(d)'
      <4>1. \A i \in 1..Len(out'[d]) : i \in 1..Len(out[d]) \/ i = Len(out[d]) + 1
        BY <3>2
      <4> QED
        BY <3>2, <4>1 DEF Unheard
    <3> QED
      BY <3>3, <3>4, <3>5
  <2>4. ASSUME NEW d \in Conns, out'[d] = out[d]
        PROVE  (\A n : Heard(d, n)' <=> Heard(d, n)) /\ (Unheard(d)' <=> Unheard(d))
    BY <2>4 DEF Heard, Unheard
  \* Who has entered keeps what it was sent, and nobody else is sent a broadcast.
  <2>5. ASSUME NEW d \in Conns
        PROVE  /\ \A n : Heard(d, n) => Heard(d, n)'
               /\ Unheard(d) => \/ Unheard(d)'
                                \/ broadcast_write(c, d)
    <3>1. CASE out'[d] = out[d]
      BY <2>4, <3>1
    <3>2. ASSUME NEW e \in Conns, broadcast_write(c, e)
          PROVE  \/ out'[d] = out[d]
                 \/ d = e /\ \E m \in ServerMessage : out'[d] = Append(out[d], m)
      BY <1>0, <3>2, Delivery DEF broadcast_write
    <3>3. CASE greet_personally(c) \/ write_reply(c)
      <4>1. PICK m \in ServerMessage :
              /\ m.id = 0
              /\ \A e \in Conns : \/ out'[e] = out[e]
                                  \/ e = c /\ out'[e] = Append(out[e], m)
        BY <3>3, Whisper
      <4> QED
        BY <2>3, <3>1, <4>1
    <3>4. CASE Outer \/ UNCHANGED out
      BY <3>1, <3>4 DEF Outer
    <3>5. ASSUME NEW e \in Conns, broadcast_write(c, e)
          PROVE  /\ \A n : Heard(d, n) => Heard(d, n)'
                 /\ Unheard(d) => \/ Unheard(d)'
                                  \/ broadcast_write(c, d)
      BY <2>3, <3>1, <3>2, <3>5
    <3>6. ASSUME NEW e \in Conns, broadcast_fails(c, e)
          PROVE  UNCHANGED out
      BY <3>6 DEF broadcast_fails, log
    <3>7. broadcast_lock(c) \/ broadcast_unlock(c) \/ handle_client(c)
          \/ remove_client(c) => UNCHANGED out
      BY DEF broadcast_lock, broadcast_unlock, handle_client, remove_client, log
    <3> QED
      BY <1>2, <3>3, <3>4, <3>5, <3>6, <3>7, Shape
  <2>6. ASSUME NEW d \in Conns, Entering(d)'
        PROVE  Unheard(d)'
    <3>1. Entering(d)
      <4>1. CASE d = c
        BY <1>2, <2>6, <4>1, EntersOnce
      <4>2. CASE d # c
        BY <2>1, <2>6, <4>2 DEF Local, Entering
      <4> QED
        BY <4>1, <4>2
    <3>2. Unheard(d) /\ d \notin clients
      BY <2>2, <3>1 DEF UpToDate, Membership, Outside
    <3>3. ~broadcast_write(c, d)
      BY <3>2 DEF broadcast_write, LockDiscipline
    <3> QED
      BY <2>5, <3>2, <3>3
  <2>7. ASSUME NEW d \in clients', sock'[d] = "open"
        PROVE  \/ Unheard(d)'
               \/ Heard(d, count)'
               \/ lock' # NoConn /\ d \in todo'[lock'] /\ Heard(d, count - 1)'
    <3>0. d \in Conns /\ clients' \subseteq clients \union {c}
      BY <1>0, <1>2, <2>7, MembershipShape
    <3>1. CASE d \notin clients
      <4>1. d = c /\ ~Quiet(c) /\ ~Outer
        BY <2>7, <3>0, <3>1 DEF Quiet, Outer
      <4>2. handle_client(c) \/ UNCHANGED clients \/ remove_client(c)
        BY <1>2, <4>1, Shape DEF broadcast_lock, broadcast_write, broadcast_fails,
           broadcast_unlock, room
      <4>3. handle_client(c)
        BY <2>7, <3>1, <4>2 DEF remove_client
      <4>4. Unheard(d) /\ UNCHANGED out
        BY <2>2, <3>0, <4>1, <4>3 DEF handle_client, UpToDate, Entering, log
      <4> QED
        BY <2>4, <3>0, <4>4
    <3>2. CASE d \in clients
      <4>1. sock[d] = "open"
        <5>1. ~(d = c /\ handle_connection(c))
          BY <3>2 DEF handle_connection, Membership, Outside, Entering
        <5> QED
          BY <1>2, <2>7, <3>0, <5>1, SockStep
      <4>2. \/ Unheard(d)
            \/ Heard(d, count)
            \/ lock # NoConn /\ d \in todo[lock] /\ Heard(d, count - 1)
        BY <2>2, <3>2, <4>1 DEF UpToDate
      <4>3. CASE UNCHANGED <<lock, todo, count>> /\ ~broadcast_write(c, d)
        BY <2>5, <3>0, <4>2, <4>3 DEF Heard
      <4>4. CASE broadcast_lock(c)
        <5>1. lock = NoConn /\ lock' = c /\ count' = count + 1 /\ d \in todo'[c]
          BY <1>0, <3>2, <4>4 DEF broadcast_lock
        <5>2. Unheard(d)' \/ Heard(d, count)
          BY <2>5, <3>0, <4>2, <4>4, <5>1 DEF broadcast_lock, broadcast_write
        <5>3. UNCHANGED out /\ count' - 1 = count
          BY <1>0, <4>4, <5>1 DEF broadcast_lock
        <5> QED
          BY <5>1, <5>2, <5>3 DEF Heard
      <4>5. ASSUME NEW e \in Conns, broadcast_write(c, e)
            PROVE  \/ Unheard(d)'
                   \/ Heard(d, count)'
                   \/ lock' # NoConn /\ d \in todo'[lock'] /\ Heard(d, count - 1)'
        <5>1. /\ lock = c /\ UNCHANGED <<lock, count>>
              /\ todo' = [todo EXCEPT ![c] = @ \ {e}]
              /\ msg[c].id = count
          BY <4>5 DEF broadcast_write, room, LockDiscipline, Numbering
        <5>2. CASE d = e
          <6>1. out'[d] = Append(out[d], msg[c])
            BY <1>0, <3>0, <4>1, <4>5, <5>2 DEF broadcast_write, Deliver
          <6>2. \E i \in 1..Len(out'[d]) : out'[d][i].id = msg[c].id
            BY <1>0, <2>3, <3>0, <6>1 DEF Heard
          <6> QED
            BY <5>1, <6>2 DEF Heard
        <5>3. CASE d # e
          <6>1. out'[d] = out[d]
            BY <3>0, <4>5, <5>3, Delivery DEF broadcast_write
          <6>2. /\ Unheard(d)' <=> Unheard(d)
                /\ \A n : Heard(d, n)' <=> Heard(d, n)
            BY <6>1 DEF Heard, Unheard
          <6>3. d \in todo[c] => d \in todo'[c]
            BY <1>0, <5>1, <5>3
          <6> QED
            BY <4>2, <5>1, <6>2, <6>3 DEF Heard
        <5> QED
          BY <5>2, <5>3
      <4>6. ASSUME NEW e \in Conns
            PROVE  ~broadcast_fails(c, e)
        BY <2>2, <4>6 DEF broadcast_fails, NobodyReset
      <4>7. CASE broadcast_unlock(c)
        <5>1. lock = c /\ todo[c] = {} /\ UNCHANGED <<out, count>>
          BY <4>7 DEF broadcast_unlock, LockDiscipline, log
        <5>2. Unheard(d) \/ Heard(d, count)
          BY <4>2, <5>1
        <5>3. Unheard(d)' \/ Heard(d, count)'
          BY <5>1, <5>2 DEF Heard, Unheard
        <5> QED
          BY <5>3
      <4>8. CASE Outer \/ Quiet(c)
        <5>1. ~broadcast_write(c, d)
          <6>1. UNCHANGED todo
            BY <4>8 DEF Outer, Quiet
          <6>2. ASSUME broadcast_write(c, d)
                PROVE  todo'[c] # todo[c]
            BY <1>0, <6>2 DEF broadcast_write
          <6> QED
            BY <6>1, <6>2
        <5> QED
          BY <4>3, <4>8, <5>1 DEF Outer, Quiet
      <4>9. CASE handle_client(c) \/ remove_client(c)
        <5>1. UNCHANGED <<lock, todo, count>> /\ ~broadcast_write(c, d)
          BY <4>9 DEF handle_client, remove_client, broadcast_write, log
        <5> QED
          BY <4>3, <5>1
      <4> QED
        BY <1>2, <4>4, <4>5, <4>6, <4>7, <4>8, <4>9, Shape
    <3> QED
      BY <3>1, <3>2
  <2> QED
    BY <2>6, <2>7
<1> QED
  BY <1>1, <1>2 DEF Next

\* What LastSeen chooses.
LEMMA LastSeenIs ==
  ASSUME NEW d \in Conns, NEW n \in Nat, out[d] \in Seq(ServerMessage),
         Heard(d, n), \A i \in 1..Len(out[d]) : out[d][i].id <= n
  PROVE  LastSeen(d) = n
<1> DEFINE ids == {out[d][i].id : i \in 1..Len(out[d])}
<1>0. \A i \in 1..Len(out[d]) : out[d][i].id \in Nat
  <2>1. \A i \in 1..Len(out[d]) : out[d][i] \in ServerMessage
    OBVIOUS
  <2> QED
    BY <2>1 DEF ServerMessage
<1>1. n \in ids /\ \A k \in ids : k \in Nat /\ k <= n
  BY <1>0 DEF Heard
<1>2. CASE n = 0
  BY <1>1, <1>2 DEF LastSeen
<1>3. CASE n # 0
  <2>1. LastSeen(d) = CHOOSE m \in ids : \A k \in ids : k <= m
    BY <1>1, <1>3 DEF LastSeen
  <2>2. \A m \in ids : (\A k \in ids : k <= m) => m = n
    <3> HIDE DEF ids
    <3> QED
      BY <1>1
  <2>3. \E m \in ids : \A k \in ids : k <= m
    BY <1>1
  <2> QED
    BY <2>1, <2>2, <2>3
<1> QED
  BY <1>2, <1>3

\* As long as no peer was reset, a connected member that was sent one broadcast was
\* sent every later one, however the threads take the clients lock.
THEOREM BroadcastsReachEveryone == Spec => []NoBroadcastMissed
<1>1. Init => Numbering /\ Membership /\ UpToDate
  <2>1. Init => /\ pc = [c \in Conns |-> "idle"]
                /\ out = [c \in Conns |-> <<>>]
                /\ sock = [c \in Conns |-> "none"]
                /\ clients = {}
    BY DEF Init
  <2> QED
    BY <2>1 DEF Numbering, Membership, Outside, UpToDate, Connected, Unheard
<1>2. TypeOK /\ LockDiscipline /\ Numbering /\ Membership /\ UpToDate /\ [Next]_vars
      => Numbering' /\ Membership' /\ UpToDate'
  BY NumberingStep, MembershipStep, UpToDateStep
<1>3. ASSUME TypeOK, LockDiscipline, Numbering, UpToDate
      PROVE  NoBroadcastMissed
  <2> SUFFICES ASSUME NobodyReset, NEW d \in clients, sock[d] = "open"
               PROVE  \/ LastSeen(d) = 0
                      \/ LastSeen(d) = count
                      \/ lock # NoConn /\ d \in todo[lock] /\ LastSeen(d) = count - 1
    BY DEF NoBroadcastMissed
  <2>1. d \in Conns /\ out[d] \in Seq(ServerMessage) /\ count \in Nat
    BY <1>3 DEF TypeOK
  <2>2. CASE Unheard(d)
    <3>1. {out[d][i].id : i \in 1..Len(out[d])} \ {0} = {}
      BY <2>2 DEF Unheard
    <3> QED
      BY <3>1 DEF LastSeen
  <2>3. CASE Heard(d, count)
    <3>1. \A i \in 1..Len(out[d]) : out[d][i].id <= count
      BY <1>3, <2>1 DEF Numbering
    <3> QED
      BY <2>1, <2>3, <3>1, LastSeenIs
  <2>4. CASE lock # NoConn /\ d \in todo[lock] /\ Heard(d, count - 1)
    <3>1. lock \in Conns /\ pc[lock] = "writing"
      BY <1>3, <2>4 DEF TypeOK, LockDiscipline
    <3>2. count > 0 /\ \A i \in 1..Len(out[d]) : out[d][i].id < count
      BY <1>3, <2>4, <3>1 DEF Numbering
    <3>0. \A i \in 1..Len(out[d]) : out[d][i] \in ServerMessage
      BY <2>1
    <3>3. /\ count - 1 \in Nat
          /\ \A i \in 1..Len(out[d]) : out[d][i].id \in Nat
      BY <2>1, <3>0, <3>2 DEF ServerMessage
    <3>4. \A i \in 1..Len(out[d]) : out[d][i].id <= count - 1
      BY <2>1, <3>2, <3>3
    <3> QED
      BY <2>1, <2>4, <3>3, <3>4, LastSeenIs
  <2> QED
    BY <1>3, <2>2, <2>3, <2>4 DEF UpToDate
<1> QED
  BY <1>1, <1>2, <1>3, TypeCorrect, LockIsDisciplined, PTL DEF Spec

-----------------------------------------------------------------------------
(* Farewells *)

\* What the thread c keeps true of its own message, and that it goes on to
\* write nothing to a peer to which it has written its farewell.
Bids(c) ==
  /\ msg'[c].from = c
  /\ then'[c] = "end" => Silent(c)'
  /\ pc'[c] \in {"broadcast", "writing"} /\ msg'[c].kind \in Farewell
     => then'[c] = "stop"
  /\ pc'[c] = "reply" => msg'[c].kind \notin Farewell
  /\ \A d \in Conns : Spent(c, d) => Spent(c, d)'

LEMMA FarewellShape ==
  ASSUME TypeOK, Farewells, NEW c \in Conns, Thread(c) \/ Environment(c)
  PROVE  Bids(c)
<1>0. /\ pc \in [Conns -> PC]
      /\ then \in [Conns -> Then]
      /\ msg \in [Conns -> ServerMessage]
      /\ todo \in [Conns -> SUBSET Conns]
  BY DEF TypeOK
<1>a. /\ msg[c].from = c
      /\ then[c] = "end" => Silent(c)
      /\ pc[c] \in {"broadcast", "writing"} /\ msg[c].kind \in Farewell
         => then[c] = "stop"
      /\ pc[c] = "reply" => msg[c].kind \notin Farewell
  BY DEF Farewells
<1>1. CASE greet_user(c)
  BY <1>0, <1>a, <1>1 DEF greet_user, Goto, Broadcast, Message, Farewell,
     Bids, Spent, Silent, room, net, log
<1>2. CASE greet_personally(c)
  BY <1>0, <1>a, <1>2 DEF greet_personally, Goto, Bids, Spent, Silent, room,
     net, log
<1>3. CASE remote_address(c)
  BY <1>0, <1>a, <1>3 DEF remote_address, Goto, Bids, Spent, Silent, room,
     net, log
<1>4. CASE handle_client(c)
  BY <1>0, <1>a, <1>4 DEF handle_client, Goto, Bids, Spent, Silent, room, net,
     log
<1>5. CASE broadcast_lock(c)
  BY <1>0, <1>a, <1>5 DEF broadcast_lock, Goto, Numbered, Bids, Spent, Silent,
     room, net, log
<1>6. CASE broadcast_unlock(c)
  BY <1>0, <1>a, <1>6 DEF broadcast_unlock, Goto, Continue, Bids, Spent,
     Silent, room, net, log
<1>7. CASE read_and_handle_client_message(c)
  BY <1>0, <1>a, <1>7 DEF read_and_handle_client_message, Goto, Bids, Spent,
     Silent, room, net, log
<1>8. CASE read_fails(c)
  BY <1>0, <1>a, <1>8 DEF read_fails, Goto, Bids, Spent, Silent, room, net,
     log
<1>9. CASE read_unparsable(c)
  BY <1>0, <1>a, <1>9 DEF read_unparsable, Goto, Reads, Bids, Spent, Silent,
     room, net, log
<1>10. CASE broadcast_interupt(c)
  BY <1>0, <1>a, <1>10 DEF broadcast_interupt, Goto, Broadcast, Message,
     Farewell, Bids, Spent, Silent, room, net, log
<1>11. CASE handle_client_text(c)
  BY <1>0, <1>a, <1>11 DEF handle_client_text, Goto, Reads, Broadcast,
     Message, Farewell, Bids, Spent, Silent, room, net, log
<1>12. CASE handle_upper_bound_violation(c)
  BY <1>0, <1>a, <1>12 DEF handle_upper_bound_violation, Goto, Reads, Bids,
     Spent, Silent, room, net, log
<1>13. CASE handle_client_leave(c)
  BY <1>0, <1>a, <1>13 DEF handle_client_leave, Goto, Reads, Message,
     Farewell, Bids, Spent, Silent, room, net, log
<1>14. CASE handle_client_rename(c)
  BY <1>0, <1>a, <1>14 DEF handle_client_rename, Goto, Reads, Reply, Message,
     Farewell, Bids, Spent, Silent, room, net, log
<1>15. CASE write_reply(c)
  BY <1>0, <1>a, <1>15 DEF write_reply, Goto, Bids, Spent, Silent, room, net,
     log
<1>16. CASE remove_from_clients(c)
  BY <1>0, <1>a, <1>16 DEF remove_from_clients, Goto, Bids, Spent, Silent,
     room, net, log
<1>17. CASE remove_client(c)
  BY <1>0, <1>a, <1>17 DEF remove_client, Goto, Bids, Spent, Silent, room,
     net, log
<1>18. CASE remove_name(c)
  BY <1>0, <1>a, <1>18 DEF remove_name, Goto, Bids, Spent, Silent, room, net,
     log
<1>19. CASE handle_connection(c)
  BY <1>0, <1>a, <1>19 DEF handle_connection, Goto, Bids, Spent, Silent, room,
     net, log
<1>20. ASSUME NEW d \in Conns, broadcast_write(c, d)
       PROVE  Bids(c)
  BY <1>0, <1>a, <1>20 DEF broadcast_write, Bids, Spent, Silent, room
<1>21. ASSUME NEW d \in Conns, broadcast_fails(c, d)
       PROVE  Bids(c)
  BY <1>0, <1>a, <1>21 DEF broadcast_fails, Goto, Bids, Spent, Silent, net, log
<1>22. CASE Send(c) \/ Close(c) \/ Reset(c)
  <2>1. UNCHANGED <<pc, then, msg, todo>>
    BY <1>22 DEF Send, Close, Reset
  <2> QED
    BY <1>a, <2>1 DEF Bids, Spent, Silent
<1> QED
  BY <1>1, <1>2, <1>3, <1>4, <1>5, <1>6, <1>7, <1>8, <1>9, <1>10, <1>11, <1>12,
     <1>13, <1>14, <1>15, <1>16, <1>17, <1>18, <1>19, <1>20, <1>21, <1>22
     DEF Thread, Environment

\* What a step adds to what a peer was sent.
LEMMA Speech ==
  ASSUME TypeOK, Farewells, NEW c \in Conns, Thread(c) \/ Environment(c),
         NEW e \in Conns
  PROVE  \/ out'[e] = out[e]
         \/ \E m \in ServerMessage :
              /\ out'[e] = Append(out[e], m)
              /\ m.from = c
              /\ ~Spent(c, e)
              /\ m.kind \in Farewell => Spent(c, e)'
<1>1. CASE greet_personally(c)
  <2> DEFINE m == Message("Support", c, name(c))
  <2>1. /\ m \in ServerMessage
        /\ m.from = c
        /\ m.kind \notin Farewell
    BY MessageType, NameType DEF Message, Farewell
  <2>2. ~Spent(c, e)
    BY <1>1 DEF greet_personally, Spent, Silent
  <2>3. Deliver(c, m) \/ UNCHANGED out
    BY <1>1 DEF greet_personally
  <2>4. out'[e] = out[e] \/ out'[e] = Append(out[e], m)
    BY <2>3, Delivery
  <2> QED
    BY <2>1, <2>2, <2>4
<1>2. CASE write_reply(c)
  <2>1. /\ msg[c] \in ServerMessage
        /\ msg[c].from = c
        /\ msg[c].kind \notin Farewell
    BY <1>2 DEF write_reply, TypeOK, Farewells
  <2>2. ~Spent(c, e)
    BY <1>2 DEF write_reply, Spent, Silent
  <2>3. Deliver(c, msg[c]) \/ UNCHANGED out
    BY <1>2 DEF write_reply
  <2>4. out'[e] = out[e] \/ out'[e] = Append(out[e], msg[c])
    BY <2>3, Delivery
  <2> QED
    BY <2>1, <2>2, <2>4
<1>3. ASSUME NEW d \in Conns, broadcast_write(c, d), out'[e] # out[e]
      PROVE  \E m \in ServerMessage :
               /\ out'[e] = Append(out[e], m)
               /\ m.from = c
               /\ ~Spent(c, e)
               /\ m.kind \in Farewell => Spent(c, e)'
  <2>1. /\ pc[c] = "writing" /\ d \in todo[c]
        /\ Deliver(d, msg[c])
        /\ todo' = [todo EXCEPT ![c] = @ \ {d}]
        /\ UNCHANGED <<pc, then>>
    BY <1>3 DEF broadcast_write
  <2>2. e = d /\ out'[e] = Append(out[e], msg[c])
    BY <1>3, <2>1, Delivery
  <2>3. msg[c] \in ServerMessage /\ msg[c].from = c
    BY DEF TypeOK, Farewells
  <2>4. ~Spent(c, e)
    BY <2>1, <2>2 DEF Spent, Silent
  <2>5. msg[c].kind \in Farewell => Spent(c, e)'
    <3>1. todo'[c] = todo[c] \ {d}
      BY <2>1 DEF TypeOK
    <3>2. msg[c].kind \in Farewell => then[c] = "stop"
      BY <2>1 DEF Farewells
    <3> QED
      BY <2>1, <2>2, <3>1, <3>2 DEF Spent
  <2> QED
    BY <2>2, <2>3, <2>4, <2>5
<1>4. CASE UNCHANGED out
  BY <1>4
<1>5. CASE Outer
  BY <1>5 DEF Outer
<1>6. CASE broadcast_lock(c) \/ broadcast_unlock(c) \/ handle_client(c)
           \/ remove_client(c)
  BY <1>6 DEF broadcast_lock, broadcast_unlock, handle_client, remove_client, log
<1>7. ASSUME NEW d \in Conns, broadcast_fails(c, d)
      PROVE  UNCHANGED out
  BY <1>7 DEF broadcast_fails, log
<1> QED
  BY <1>1, <1>2, <1>3, <1>4, <1>5, <1>6, <1>7, Shape

LEMMA FarewellStep ==
  ASSUME TypeOK, Farewells, FarewellIsLast, [Next]_vars
  PROVE  Farewells' /\ FarewellIsLast'
<1>0. /\ \A e \in Conns : out[e] \in Seq(ServerMessage)
      /\ \A e \in Conns : \A i \in 1..Len(out[e]) : out[e][i].from \in Conns
  <2>1. ASSUME NEW e \in Conns
        PROVE  out[e] \in Seq(ServerMessage)
    BY DEF TypeOK
  <2>2. ASSUME NEW e \in Conns, NEW i \in 1..Len(out[e])
        PROVE  out[e][i] \in ServerMessage
    BY <2>1
  <2> QED
    BY <2>1, <2>2 DEF ServerMessage
<1>1. CASE UNCHANGED vars
  BY <1>1 DEF vars, Farewells, FarewellIsLast, Spent, Silent
<1>2. ASSUME NEW c \in Conns, Thread(c) \/ Environment(c)
      PROVE  Farewells' /\ FarewellIsLast'
  <2>1. Local(c) /\ Bids(c)
    BY <1>2, Shape, FarewellShape
  <2>2. ASSUME NEW f \in Conns, NEW d \in Conns, Spent(f, d)
        PROVE  Spent(f, d)'
    BY <2>1, <2>2 DEF Local, Bids, Spent, Silent
  <2>3. ASSUME NEW e \in Conns, NEW i \in 1..Len(out'[e]), NEW f \in Conns,
               out'[e][i].kind \in Farewell, out'[e][i].from = f
        PROVE  /\ Spent(f, e)'
               /\ \A j \in 1..Len(out'[e]) : i < j => out'[e][j].from # f
    <3>1. ASSUME i \in 1..Len(out[e]), out'[e][i] = out[e][i]
          PROVE  Spent(f, e) /\ Spent(f, e)'
      BY <2>2, <2>3, <3>1 DEF Farewells
    <3>2. CASE out'[e] = out[e]
      BY <2>3, <3>1, <3>2 DEF FarewellIsLast
    <3>3. ASSUME NEW m \in ServerMessage, out'[e] = Append(out[e], m),
                 m.from = c, ~Spent(c, e), m.kind \in Farewell => Spent(c, e)'
          PROVE  /\ Spent(f, e)'
                 /\ \A j \in 1..Len(out'[e]) : i < j => out'[e][j].from # f
      <4>1. CASE i = Len(out[e]) + 1 /\ out'[e][i] = m
        <5>1. \A j \in 1..Len(out'[e]) : ~(i < j)
          BY <1>0, <3>3, <4>1, AppendFacts
        <5> QED
          BY <2>3, <3>3, <4>1, <5>1
      <4>2. CASE i \in 1..Len(out[e]) /\ out'[e][i] = out[e][i]
        <5>1. Spent(f, e) /\ Spent(f, e)'
          BY <3>1, <4>2
        <5>2. ASSUME NEW j \in 1..Len(out'[e]), i < j
              PROVE  out'[e][j].from # f
          <6>1. CASE out'[e][j] = m
            BY <3>3, <5>1, <6>1
          <6>2. CASE j \in 1..Len(out[e]) /\ out'[e][j] = out[e][j]
            BY <2>3, <4>2, <5>2, <6>2 DEF FarewellIsLast
          <6> QED
            BY <1>0, <3>3, <6>1, <6>2, LastOrEarlier
        <5> QED
          BY <5>1, <5>2
      <4> QED
        BY <1>0, <3>3, <4>1, <4>2, LastOrEarlier
    <3> QED
      BY <1>2, <3>2, <3>3, Speech
  <2>4. ASSUME NEW e \in Conns, NEW i \in 1..Len(out'[e])
        PROVE  out'[e][i].from \in Conns
    <3>1. out'[e] \in Seq(ServerMessage)
      BY TypeStep DEF TypeOK
    <3>2. out'[e][i] \in ServerMessage
      BY <3>1
    <3> QED
      BY <3>2 DEF ServerMessage
  <2>5. FarewellIsLast' /\ \A d \in Conns : \A i \in 1..Len(out'[d]) :
          out'[d][i].kind \in Farewell => Spent(out[d][i].from, d)'
    BY <2>3, <2>4 DEF FarewellIsLast
  <2>6. ASSUME NEW f \in Conns
        PROVE  /\ msg'[f].from = f
               /\ then'[f] = "end" => Silent(f)'
               /\ pc'[f] \in {"broadcast", "writing"} /\ msg'[f].kind \in Farewell
                  => then'[f] = "stop"
               /\ pc'[f] = "reply" => msg'[f].kind \notin Farewell
    <3>1. CASE f = c
      BY <2>1, <3>1 DEF Bids
    <3>2. CASE f # c
      BY <2>1, <3>2 DEF Local, Farewells, Silent
    <3> QED
      BY <3>1, <3>2
  <2> QED
    BY <2>5, <2>6 DEF Farewells
<1> QED
  BY <1>1, <1>2 DEF Next

\* A peer told that someone left or was cut off hears nothing more of them,
\* although their entries and their farewell go separate ways.
THEOREM FarewellsAreLast == Spec => []FarewellIsLast
<1>1. Init => Farewells /\ FarewellIsLast
  <2>1. Init => /\ pc = [c \in Conns |-> "idle"]
                /\ then = [c \in Conns |-> "enter"]
                /\ msg = [c \in Conns |-> Message("NewUser", c, c)]
                /\ out = [c \in Conns |-> <<>>]
    BY DEF Init
  <2> QED
    BY <2>1 DEF Farewells, FarewellIsLast, Message
<1>2. TypeOK /\ Farewells /\ FarewellIsLast /\ [Next]_vars
      => Farewells' /\ FarewellIsLast'
  BY FarewellStep
<1> QED
  BY <1>1, <1>2, TypeCorrect, PTL DEF Spec

-----------------------------------------------------------------------------
(* The server implements the room *)

LEMMA NumbersAppend ==
  ASSUME NEW s \in Seq(ServerMessage), NEW m \in ServerMessage
  PROVE  Numbers(Append(s, m)) = Append(Numbers(s), m.id)
<1>1. Numbers(s) \in Seq(Nat) /\ Len(Numbers(s)) = Len(s)
  <2>1. \A i \in 1..Len(s) : s[i] \in ServerMessage
    OBVIOUS
  <2>2. \A i \in 1..Len(s) : s[i].id \in Nat
    BY <2>1 DEF ServerMessage
  <2> QED
    BY <2>2 DEF Numbers
<1>2. m.id \in Nat
  BY DEF ServerMessage
<1>3. /\ Append(Numbers(s), m.id) \in Seq(Nat)
      /\ Len(Append(Numbers(s), m.id)) = Len(s) + 1
  BY <1>1, <1>2
<1>4. Numbers(Append(s, m)) = [i \in 1..(Len(s) + 1) |-> Append(s, m)[i].id]
  BY AppendFacts DEF Numbers
<1>5. \A i \in 1..(Len(s) + 1) :
        Append(Numbers(s), m.id)[i] = Append(s, m)[i].id
  BY <1>1, <1>2, AppendFacts DEF Numbers
<1>6. Append(Numbers(s), m.id) =
        [i \in 1..(Len(s) + 1) |-> Append(Numbers(s), m.id)[i]]
  BY <1>3
<1> QED
  BY <1>4, <1>5, <1>6

Owed == IF lock = NoConn THEN {} ELSE todo[lock]
Seen == [d \in Conns |-> Numbers(out[d])]

\* One more message m for c, or none.
LEMMA SeenAppend ==
  ASSUME TypeOK, NEW c \in Conns, NEW m \in ServerMessage,
         out' = out \/ out' = [out EXCEPT ![c] = Append(out[c], m)]
  PROVE  Seen' \in {Seen, [Seen EXCEPT ![c] = Append(@, m.id)]}
<1>0. out \in [Conns -> Seq(ServerMessage)]
  BY DEF TypeOK
<1>1. CASE out' = out
  BY <1>1 DEF Seen
<1>2. CASE out' = [out EXCEPT ![c] = Append(out[c], m)]
  <2>1. Numbers(Append(out[c], m)) = Append(Numbers(out[c]), m.id)
    BY <1>0, NumbersAppend
  <2>2. \A d \in Conns :
          Numbers(out'[d]) = IF d = c THEN Append(Numbers(out[c]), m.id)
                                      ELSE Numbers(out[d])
    BY <1>0, <1>2, <2>1
  <2> QED
    BY <2>2 DEF Seen
<1> QED
  BY <1>1, <1>2

LEMMA RoomStep ==
  ASSUME TypeOK, LockDiscipline, Numbering, [Next]_vars
  PROVE  [Room!Next]_(Room!vars)
<1> USE ConstantsAssumption
<1>0. /\ todo \in [Conns -> SUBSET Conns]
      /\ pc \in [Conns -> PC]
      /\ msg \in [Conns -> ServerMessage]
  BY DEF TypeOK
<1>1. ASSUME UNCHANGED <<clients, lock, todo, count, out>>
      PROVE  UNCHANGED Room!vars
  BY <1>1 DEF Room!vars, Numbers
<1>2. CASE UNCHANGED vars
  BY <1>1, <1>2 DEF vars
<1>3. ASSUME NEW c \in Conns, Thread(c) \/ Environment(c)
      PROVE  [Room!Next]_(Room!vars)
  <2>1. Local(c)
    BY <1>3, Shape
  <2>2. CASE Outer
    BY <1>1, <2>2 DEF Outer
  <2>3. CASE Quiet(c) /\ UNCHANGED out
    BY <1>1, <2>3 DEF Quiet
  <2>4. ASSUME NEW m \in ServerMessage, m.id = 0, Quiet(c),
               out' = out \/ out' = [out EXCEPT ![c] = Append(out[c], m)]
        PROVE  [Room!Next]_(Room!vars)
    <3>1. Seen' = Seen \/ Seen' = [Seen EXCEPT ![c] = Append(@, 0)]
      BY <2>4, SeenAppend
    <3>2. UNCHANGED <<clients, lock, Owed, count>>
      BY <2>4 DEF Quiet, Owed
    <3>3. CASE Seen' = Seen
      BY <3>2, <3>3 DEF Room!vars, Owed, Seen
    <3>4. CASE Seen' = [Seen EXCEPT ![c] = Append(@, 0)]
      <4>1. Room!Whisper(c)
        BY <3>2, <3>4 DEF Room!Whisper, Owed, Seen
      <4> QED
        BY <4>1 DEF Room!Next
    <3> QED
      BY <3>1, <3>3, <3>4
  <2>5. CASE Quiet(c) /\ greet_personally(c)
    <3> DEFINE m == Message("Support", c, name(c))
    <3>1. m \in ServerMessage /\ m.id = 0
      BY MessageType, NameType DEF Message
    <3>2. out' = out \/ out' = [out EXCEPT ![c] = Append(out[c], m)]
      BY <2>5 DEF greet_personally, Deliver
    <3> QED
      BY <2>4, <2>5, <3>1, <3>2
  <2>6. CASE Quiet(c) /\ write_reply(c)
    <3>1. msg[c] \in ServerMessage /\ msg[c].id = 0
      BY <1>0, <2>6 DEF write_reply, Numbering
    <3>2. out' = out \/ out' = [out EXCEPT ![c] = Append(out[c], msg[c])]
      BY <2>6 DEF write_reply, Deliver
    <3> QED
      BY <2>4, <2>6, <3>1, <3>2
  <2>7. CASE broadcast_lock(c)
    <3>1. /\ lock = NoConn /\ lock' = c /\ count' = count + 1
          /\ UNCHANGED <<clients, out>>
          /\ Owed' = clients
      BY <1>0, <2>7 DEF broadcast_lock, Owed
    <3>2. Room!Open(c)
      BY <3>1 DEF Room!Open, Owed, Numbers
    <3> QED
      BY <3>2 DEF Room!Next
  <2>8. ASSUME NEW d \in Conns, broadcast_write(c, d)
        PROVE  [Room!Next]_(Room!vars)
    <3>1. /\ pc[c] = "writing" /\ d \in todo[c]
          /\ todo' = [todo EXCEPT ![c] = @ \ {d}]
          /\ UNCHANGED <<clients, lock, count>>
          /\ out' = out \/ out' = [out EXCEPT ![d] = Append(out[d], msg[c])]
      BY <2>8 DEF broadcast_write, Deliver, room
    <3>2. lock = c /\ msg[c].id = count
      BY <3>1 DEF LockDiscipline, Numbering
    <3>3. d \in Owed /\ Owed' = Owed \ {d}
      BY <1>0, <3>1, <3>2 DEF Owed
    <3>4. Seen' \in {Seen, [Seen EXCEPT ![d] = Append(@, count)]}
      BY <1>0, <3>1, <3>2, SeenAppend
    <3>5. Room!Give(d)
      BY <3>1, <3>3, <3>4 DEF Room!Give, Owed, Seen
    <3> QED
      BY <3>5 DEF Room!Next
  <2>9. ASSUME pc[c] = "writing", lock' = NoConn, UNCHANGED <<clients, out, count>>
        PROVE  [Room!Next]_(Room!vars)
    <3>1. lock = c /\ Owed' = {}
      BY <2>9 DEF LockDiscipline, Owed
    <3>2. Room!Close
      BY <2>9, <3>1 DEF Room!Close, Owed, Numbers
    <3> QED
      BY <3>2 DEF Room!Next
  <2>10. ASSUME NEW d \in Conns, broadcast_fails(c, d)
         PROVE  [Room!Next]_(Room!vars)
    BY <2>9, <2>10 DEF broadcast_fails, log
  <2>11. CASE broadcast_unlock(c)
    BY <2>9, <2>11 DEF broadcast_unlock, log
  <2>12. ASSUME lock = NoConn, UNCHANGED <<lock, todo, count, out>>
         PROVE  UNCHANGED <<lock, Owed, count, Seen>>
    BY <2>12 DEF Owed, Seen
  <2>13. CASE handle_client(c)
    <3>1. /\ lock = NoConn /\ clients' = clients \union {c}
          /\ UNCHANGED <<lock, Owed, count, Seen>>
      BY <2>12, <2>13 DEF handle_client, log
    <3>2. Room!Join(c)
      BY <3>1 DEF Room!Join, Owed, Seen
    <3> QED
      BY <3>2 DEF Room!Next
  <2>14. CASE remove_client(c)
    <3>1. /\ lock = NoConn /\ clients' = clients \ {c}
          /\ UNCHANGED <<lock, Owed, count, Seen>>
      BY <2>12, <2>14 DEF remove_client, log
    <3>2. Room!Part(c)
      BY <3>1 DEF Room!Part, Owed, Seen
    <3> QED
      BY <3>2 DEF Room!Next
  <2> QED
    BY <1>3, <2>2, <2>3, <2>5, <2>6, <2>7, <2>8, <2>10, <2>11, <2>13, <2>14, Shape
<1> QED
  BY <1>2, <1>3 DEF Next

\* The detailed server implements the abstract room: while a broadcast is under
\* way nobody joins, parts or opens another, and it reaches members only, each
\* at most once.
THEOREM ServerIsARoom == Spec => ImplementsRoom
<1>1. Init => Room!Init /\ Numbering
  <2>1. Init => /\ clients = {} /\ lock = NoConn /\ count = 0
                /\ pc = [c \in Conns |-> "idle"]
                /\ out = [c \in Conns |-> <<>>]
    BY DEF Init
  <2>2. Numbers(<<>>) = <<>>
    BY DEF Numbers
  <2> QED
    BY <2>1, <2>2 DEF Room!Init, Numbering
<1>2. TypeOK /\ LockDiscipline /\ Numbering /\ [Next]_vars => Numbering'
  BY NumberingStep
<1>3. TypeOK /\ LockDiscipline /\ Numbering /\ [Next]_vars
      => [Room!Next]_(Room!vars)
  BY RoomStep
<1> QED
  BY <1>1, <1>2, <1>3, TypeCorrect, LockIsDisciplined, PTL
     DEF Spec, ImplementsRoom, Room!Spec
===============================================================================
