---------------------------- MODULE RoomLocksProofs ----------------------------
(***************************************************************************)
(* Proofs about RoomLocks: no circular wait, and whole messages.            *)
(***************************************************************************)
EXTENDS RoomLocks, TLAPS

Path == Seq(SUBSET Lock) \ {<<>>}

Good(p) == p \in Path /\ Climbing(p) /\ Whole(p)

\* The locks by name are locks.
LEMMA LocksByName ==
  ASSUME NEW c \in Conns
  PROVE  /\ {context(c), greeter(c), entry(c), reader(c), writer(c), in(c),
             out(c), files(c)} \subseteq Lock
         /\ {names, clients} \subseteq Lock
BY DEF Lock, Rank, context, greeter, entry, reader, writer, in, out, files,
       names, clients

\* The ranks are the numbers from 1 to 6.
LEMMA Ranks == \A l \in Lock : Rank[l.kind] \in 1..6
BY DEF Lock, Rank

\* A path without its first step is as good.
LEMMA GoodTail ==
  ASSUME NEW p, Good(p), Len(p) > 1
  PROVE  /\ Good(Tail(p))
         /\ Head(Tail(p)) = p[2]
         /\ Len(Tail(p)) = Len(p) - 1
         /\ \A i \in 1..Len(p) - 1 : Tail(p)[i] = p[i + 1]
<1>1. p \in Seq(SUBSET Lock) /\ Len(p) \in Nat
  BY DEF Good, Path
<1>2. /\ Tail(p) \in Seq(SUBSET Lock)
      /\ Len(Tail(p)) = Len(p) - 1
      /\ \A i \in 1..Len(p) - 1 : Tail(p)[i] = p[i + 1]
  BY <1>1
<1>3. Tail(p) # <<>> /\ Head(Tail(p)) = p[2]
  <2>1. Len(Tail(p)) # 0 /\ 1 \in 1..Len(p) - 1
    BY <1>1, <1>2
  <2>2. Tail(p) # <<>>
    BY <2>1
  <2>3. Head(Tail(p)) = Tail(p)[1]
    BY <1>2, <2>2
  <2> QED BY <1>2, <2>1, <2>2, <2>3
<1>4. Climbing(Tail(p))
  <2> SUFFICES ASSUME NEW i \in 1..Len(Tail(p)) - 1,
                      NEW l \in Tail(p)[i + 1] \ Tail(p)[i], NEW k \in Tail(p)[i]
               PROVE  Rank[k.kind] < Rank[l.kind]
    BY DEF Climbing
  <2>1. i + 1 \in 1..Len(p) - 1 /\ i \in 1..Len(p) - 1
    BY <1>1, <1>2
  <2>2. Tail(p)[i] = p[i + 1] /\ Tail(p)[i + 1] = p[(i + 1) + 1]
    BY <1>2, <2>1
  <2> QED BY <2>1, <2>2 DEF Good, Climbing
<1>5. Whole(Tail(p))
  <2> SUFFICES ASSUME NEW d \in Conns
               PROVE  /\ \A i, j, k \in 1..Len(Tail(p)) :
                           i <= j /\ j <= k /\ writer(d) \in Tail(p)[i]
                             /\ out(d) \in Tail(p)[k]
                           => writer(d) \in Tail(p)[j]
                      /\ \A i \in 1..Len(Tail(p)), e \in Conns :
                           writer(d) \in Tail(p)[i]
                           => (writer(e) \in Tail(p)[i] => e = d)
                              /\ reader(e) \notin Tail(p)[i]
                      /\ out(d) \notin Tail(p)[Len(Tail(p))]
    BY DEF Whole
  <2>1. \A i \in 1..Len(Tail(p)) : i + 1 \in 1..Len(p) /\ Tail(p)[i] = p[i + 1]
    BY <1>1, <1>2
  <2>2. ASSUME NEW i \in 1..Len(Tail(p)), NEW j \in 1..Len(Tail(p)),
               NEW k \in 1..Len(Tail(p)), i <= j, j <= k,
               writer(d) \in Tail(p)[i], out(d) \in Tail(p)[k]
        PROVE  writer(d) \in Tail(p)[j]
    <3>1. i + 1 <= j + 1 /\ j + 1 <= k + 1
      BY <1>1, <1>2, <2>2
    <3> QED BY <2>1, <2>2, <3>1 DEF Good, Whole
  <2>3. ASSUME NEW i \in 1..Len(Tail(p)), NEW e \in Conns,
               writer(d) \in Tail(p)[i]
        PROVE  (writer(e) \in Tail(p)[i] => e = d) /\ reader(e) \notin Tail(p)[i]
    BY <2>1, <2>3 DEF Good, Whole
  <2>4. out(d) \notin Tail(p)[Len(Tail(p))]
    <3>1. Len(Tail(p)) \in 1..Len(Tail(p)) /\ Len(Tail(p)) + 1 = Len(p)
      BY <1>1, <1>2
    <3> QED BY <2>1, <3>1 DEF Good, Whole
  <2> QED BY <2>2, <2>3, <2>4
<1> QED BY <1>2, <1>3, <1>4, <1>5 DEF Good, Path

\* A path that locks no writer and ends without the stream is good if it climbs.
LEMMA WithoutWriter ==
  ASSUME NEW p \in Path, Climbing(p),
         \A i \in 1..Len(p) : \A l \in p[i] : l.kind # "writer",
         \A l \in p[Len(p)] : l.kind # "out"
  PROVE  Good(p)
BY DEF Good, Whole, writer, out

\* The path of one call for each kind of session, stream and connection.
LEMMA GoodName ==
  ASSUME NEW c \in Conns,
         NEW s \in {context(c), greeter(c)}, NEW f \in {in(c), out(c)}
  PROVE  Good(name(s, f)) /\ Head(name(s, f)) = {}
<1> DEFINE p == name(s, f)
<1>1. p \in Path /\ Len(p) = 6 /\ Head(p) = {}
  BY LocksByName DEF name, Path
<1>2. \A i \in 1..6 : \A l \in p[i] : l.kind # "writer"
  BY DEF name, context, greeter, names, in, out
<1>3. Climbing(p)
  BY <1>1 DEF Climbing, name, context, greeter, names, in, out, Rank
<1>4. p[6] = {}
  BY DEF name
<1> QED BY <1>1, <1>2, <1>3, <1>4, WithoutWriter

LEMMA GoodBroadcast ==
  ASSUME NEW c \in Conns, NEW s \in {context(c), greeter(c)}
  PROVE  /\ Good(broadcast(s)) /\ Head(broadcast(s)) = {}
         /\ \A i, j \in 1..Len(broadcast(s)) :
              i <= j /\ clients \in broadcast(s)[i] => clients \in broadcast(s)[j]
<1> DEFINE p == broadcast(s)
<1>1. p \in Path /\ Len(p) = 4 /\ Head(p) = {}
  BY LocksByName DEF broadcast, Path
<1>2. \A i \in 1..4 : \A l \in p[i] : l.kind # "writer"
  BY DEF broadcast, context, greeter, clients
<1>3. Climbing(p)
  BY <1>1 DEF Climbing, broadcast, context, greeter, clients, Rank
<1>4. \A l \in p[4] : l.kind # "out"
  BY DEF broadcast, clients
<1>5. \A i, j \in 1..4 : i <= j /\ clients \in p[i] => clients \in p[j]
  BY DEF broadcast, context, greeter, clients
<1> QED BY <1>1, <1>2, <1>3, <1>4, <1>5, WithoutWriter

LEMMA GoodAddress ==
  ASSUME NEW c \in Conns
  PROVE  /\ Good(remote_address(greeter(c), out(c)))
         /\ Head(remote_address(greeter(c), out(c))) = {}
<1> DEFINE p == remote_address(greeter(c), out(c))
<1>1. p \in Path /\ Len(p) = 4 /\ Head(p) = {}
  BY LocksByName DEF remote_address, Path
<1>2. \A i \in 1..4 : \A l \in p[i] : l.kind # "writer"
  BY DEF remote_address, greeter, out
<1>3. Climbing(p)
  BY <1>1 DEF Climbing, remote_address, greeter, out, Rank
<1>4. p[4] = {}
  BY DEF remote_address
<1> QED BY <1>1, <1>2, <1>3, <1>4, WithoutWriter

LEMMA GoodInsert == Good(<<{}, {clients}, {}>>) /\ Good(<<{}>>)
<1> DEFINE p == <<{}, {clients}, {}>>
           q == <<{}>>
<1>1. p \in Path /\ Len(p) = 3 /\ q \in Path /\ Len(q) = 1
  BY DEF Path, Lock, clients, Rank
<1>2. \A i \in 1..3 : \A l \in p[i] : l.kind # "writer"
  BY DEF clients
<1>3. Climbing(p) /\ Climbing(q)
  BY <1>1 DEF Climbing, clients, Rank
<1>4. p[3] = {} /\ q[1] = {}
  OBVIOUS
<1>5. Good(p)
  BY <1>1, <1>2, <1>3, <1>4, WithoutWriter
<1>6. Good(q)
  BY <1>1, <1>3, <1>4, WithoutWriter
<1> QED BY <1>5, <1>6

LEMMA GoodRead ==
  ASSUME NEW c \in Conns
  PROVE  Good(read_message(c)) /\ Head(read_message(c)) = {}
<1> DEFINE p == read_message(c)
<1>1. p \in Path /\ Len(p) = 4 /\ Head(p) = {}
  BY LocksByName DEF read_message, Path
<1>2. \A i \in 1..4 : \A l \in p[i] : l.kind # "writer"
  BY DEF read_message, reader, in
<1>3. Climbing(p)
  BY <1>1 DEF Climbing, read_message, reader, in, Rank
<1>4. p[4] = {}
  BY DEF read_message
<1> QED BY <1>1, <1>2, <1>3, <1>4, WithoutWriter

LEMMA GoodShare ==
  ASSUME NEW c \in Conns
  PROVE  Good(share(c)) /\ Head(share(c)) = {}
<1> DEFINE p == share(c)
<1>1. p \in Path /\ Len(p) = 4 /\ Head(p) = {}
  BY LocksByName DEF share, Path
<1>2. \A i \in 1..4 : \A l \in p[i] : l.kind # "writer"
  BY DEF share, context, files
<1>3. Climbing(p)
  BY <1>1 DEF Climbing, share, context, files, Rank
<1>4. p[4] = {}
  BY DEF share
<1> QED BY <1>1, <1>2, <1>3, <1>4, WithoutWriter

LEMMA GoodPromote ==
  ASSUME NEW c \in Conns
  PROVE  Good(promote_sharer(c)) /\ Head(promote_sharer(c)) = {}
<1> DEFINE p == promote_sharer(c)
<1>1. p \in Path /\ Len(p) = 6 /\ Head(p) = {}
  BY LocksByName DEF promote_sharer, Path
<1>2. \A i \in 1..6 : \A l \in p[i] : l.kind # "writer"
  BY DEF promote_sharer, context, files
<1>3. Climbing(p)
  BY <1>1 DEF Climbing, promote_sharer, context, files, Rank
<1>4. p[6] = {}
  BY DEF promote_sharer
<1> QED BY <1>1, <1>2, <1>3, <1>4, WithoutWriter

LEMMA GoodNumber ==
  ASSUME NEW c \in Conns
  PROVE  Good(free_id(c)) /\ Head(free_id(c)) = {}
<1> DEFINE p == free_id(c)
<1>1. p \in Path /\ Len(p) = 3 /\ Head(p) = {}
  BY LocksByName DEF free_id, Path
<1>2. \A i \in 1..3 : \A l \in p[i] : l.kind # "writer"
  BY DEF free_id, context
<1>3. Climbing(p)
  BY <1>1 DEF Climbing, free_id, context, Rank
<1>4. p[3] = {}
  BY DEF free_id
<1> QED BY <1>1, <1>2, <1>3, <1>4, WithoutWriter

LEMMA GoodRename ==
  ASSUME NEW c \in Conns
  PROVE  Good(rename(c)) /\ Head(rename(c)) = {}
<1> DEFINE p == rename(c)
<1>1. p \in Path /\ Len(p) = 6 /\ Head(p) = {}
  BY LocksByName DEF rename, Path
<1>2. \A i \in 1..6 : \A l \in p[i] : l.kind # "writer"
  BY DEF rename, context, names, in
<1>3. Climbing(p)
  BY <1>1 DEF Climbing, rename, context, names, in, Rank
<1>4. p[6] = {}
  BY DEF rename
<1> QED BY <1>1, <1>2, <1>3, <1>4, WithoutWriter

LEMMA GoodRemove ==
  ASSUME NEW c \in Conns
  PROVE  Good(remove_from_clients(c)) /\ Head(remove_from_clients(c)) = {}
<1> DEFINE p == remove_from_clients(c)
<1>1. p \in Path /\ Len(p) = 12 /\ Head(p) = {}
  BY LocksByName DEF remove_from_clients, Path
<1>2. \A i \in 1..12 : \A l \in p[i] : l.kind # "writer"
  BY DEF remove_from_clients, context, names, clients, in
<1>3. Climbing(p)
  BY <1>1 DEF Climbing, remove_from_clients, context, names, clients, in, Rank
<1>4. p[12] = {}
  BY DEF remove_from_clients
<1> QED BY <1>1, <1>2, <1>3, <1>4, WithoutWriter

\* The steps of writing a message to d in n pieces under these guards.
Writing_steps(w, guards, d, n) ==
  /\ w \in Seq(SUBSET Lock)
  /\ Len(w) = 2 * n + 2
  /\ w[1] = guards /\ w[2 * n + 2] = guards
  /\ \A k \in 1..2 * n + 2 :
       /\ guards \subseteq w[k]
       /\ \A l \in w[k] : l \in guards \/ l = writer(d) \/ l = out(d)
       /\ out(d) \in w[k] => out(d) \in guards \/ k \in 3..2 * n + 1
       /\ k \in 2..2 * n + 1 => writer(d) \in w[k]
       /\ writer(d) \in w[k] => writer(d) \in guards \/ k \in 2..2 * n + 1

LEMMA Written ==
  ASSUME NEW guards \in SUBSET Lock, NEW d \in Conns, NEW n \in Nat \ {0}
  PROVE  Writing_steps(write_message(guards, d, n), guards, d, n)
<1> DEFINE w == write_message(guards, d, n)
<1> DEFINE set(k) == guards \union (IF k \in 2..2 * n + 1 THEN {writer(d)} ELSE {})
                     \union (IF k > 1 /\ k % 2 = 1 THEN {out(d)} ELSE {})
<1>1. w = [k \in 1..2 * n + 2 |-> set(k)]
  BY DEF write_message
<1>2. \A k \in 1..2 * n + 2 : set(k) \in SUBSET Lock
  BY LocksByName
<1> HIDE DEF w
<1>3. w \in [1..2 * n + 2 -> SUBSET Lock] /\ 2 * n + 2 \in Nat
  BY <1>1, <1>2
<1>4. w \in Seq(SUBSET Lock) /\ Len(w) = 2 * n + 2
  BY <1>3
<1>5. writer(d) # out(d)
  BY DEF writer, out
<1>6. (2 * n + 2) % 2 = 0
  OBVIOUS
<1>7. w[1] = guards /\ w[2 * n + 2] = guards
  <2>1. 1 \in 1..2 * n + 2 /\ 2 * n + 2 \in 1..2 * n + 2
    OBVIOUS
  <2>2. set(1) = guards
    OBVIOUS
  <2>3. set(2 * n + 2) = guards
    BY <1>6
  <2> QED BY <1>1, <2>1, <2>2, <2>3
<1>8. ASSUME NEW k \in 1..2 * n + 2
      PROVE  /\ guards \subseteq w[k]
             /\ \A l \in w[k] : l \in guards \/ l = writer(d) \/ l = out(d)
             /\ out(d) \in w[k] => out(d) \in guards \/ k \in 3..2 * n + 1
             /\ k \in 2..2 * n + 1 => writer(d) \in w[k]
             /\ (writer(d) \in w[k] => writer(d) \in guards \/ k \in 2..2 * n + 1)
  <2>1. w[k] = set(k)
    BY <1>1
  <2>2. k % 2 = 1 /\ k > 1 => k \in 3..2 * n + 1
    <3>1. 2 % 2 = 0
      OBVIOUS
    <3>2. k # 2 * n + 2 \/ k % 2 = 0
      BY <1>6
    <3> QED BY <3>1, <3>2
  <2> QED BY <2>1, <2>2, <1>5
<1> QED BY <1>4, <1>7, <1>8 DEF Writing_steps, w

LEMMA GoodReply ==
  ASSUME NEW d \in Conns, NEW n \in Nat \ {0}
  PROVE  Good(write_message({}, d, n)) /\ Head(write_message({}, d, n)) = {}
<1> DEFINE w == write_message({}, d, n)
<1>0. Writing_steps(w, {}, d, n)
  BY Written
<1> HIDE DEF w
<1>1. /\ w \in Seq(SUBSET Lock) /\ Len(w) = 2 * n + 2
      /\ w[1] = {} /\ w[2 * n + 2] = {}
  BY <1>0 DEF Writing_steps
<1>2. \A k \in 1..2 * n + 2 :
        /\ \A l \in w[k] : l = writer(d) \/ l = out(d)
        /\ out(d) \in w[k] => k \in 3..2 * n + 1
        /\ k \in 2..2 * n + 1 => writer(d) \in w[k]
        /\ writer(d) \in w[k] => k \in 2..2 * n + 1
  BY <1>0 DEF Writing_steps
<1>3. w \in Path /\ Head(w) = {}
  BY <1>1 DEF Path
<1>4. Climbing(w)
  <2> SUFFICES ASSUME NEW i \in 1..2 * n + 1,
                      NEW l \in w[i + 1] \ w[i], NEW k \in w[i]
               PROVE  Rank[k.kind] < Rank[l.kind]
    BY <1>1 DEF Climbing
  <2>1. i \in 1..2 * n + 2 /\ i + 1 \in 1..2 * n + 2
    OBVIOUS
  <2>2. i # 1
    BY <1>1
  <2>3. writer(d) \in w[i]
    BY <1>2, <2>1, <2>2
  <2>4. l = out(d) /\ k = writer(d)
    BY <1>2, <2>1, <2>3
  <2> QED BY <2>4 DEF out, writer, Rank
<1>5. Whole(w)
  <2> SUFFICES ASSUME NEW e \in Conns
               PROVE  /\ \A i, j, k \in 1..2 * n + 2 :
                           i <= j /\ j <= k /\ writer(e) \in w[i] /\ out(e) \in w[k]
                           => writer(e) \in w[j]
                      /\ \A i \in 1..2 * n + 2, f \in Conns :
                           writer(e) \in w[i]
                           => (writer(f) \in w[i] => f = e) /\ reader(f) \notin w[i]
                      /\ out(e) \notin w[2 * n + 2]
    BY <1>1 DEF Whole
  <2>1. \A f \in Conns : \A k \in 1..2 * n + 2 :
          /\ writer(f) \in w[k] \/ out(f) \in w[k] => f = d
          /\ reader(f) \notin w[k]
    BY <1>2 DEF writer, out, reader
  <2> QED BY <1>1, <1>2, <2>1
<1> QED BY <1>3, <1>4, <1>5 DEF Good, w

\* The steps of a broadcast's visit to the entry of d, N of them.
Visit_steps(p, d, N) ==
  /\ p \in Seq(SUBSET Lock)
  /\ Len(p) = N
  /\ p[1] = {clients} /\ p[N] = {clients}
  /\ p[2] = {clients, entry(d)} /\ p[N - 1] = {clients, entry(d)}
  /\ \A k \in 1..N :
       /\ clients \in p[k]
       /\ \A l \in p[k] : l \in {clients, entry(d), writer(d), out(d)}
       /\ out(d) \in p[k] => k \in 4..N - 2
       /\ writer(d) \in p[k] <=> k \in 3..N - 2
       /\ k \in 2..N - 1 => entry(d) \in p[k]

LEMMA Visited ==
  ASSUME NEW d \in Conns, NEW n \in Nat \ {0}
  PROVE  Visit_steps(visit(d, n), d, 2 * n + 4)
<1> DEFINE g == {clients, entry(d)}
           w == write_message(g, d, n)
           q == <<{clients}>> \o w
           p == q \o <<{clients}>>
<1>1. g \in SUBSET Lock /\ {clients} \in SUBSET Lock
  BY LocksByName
<1>2. Writing_steps(w, g, d, n)
  BY <1>1, Written
<1>3. visit(d, n) = p
  BY DEF visit
<1>4. /\ g = {clients, entry(d)}
      /\ writer(d) \notin g /\ out(d) \notin g /\ writer(d) # out(d)
  BY DEF writer, out, clients, entry
<1> HIDE DEF w, g
<1>5. w \in Seq(SUBSET Lock) /\ Len(w) = 2 * n + 2 /\ 2 * n + 2 \in Nat
  BY <1>2 DEF Writing_steps
<1>6. q \in Seq(SUBSET Lock) /\ Len(q) = 2 * n + 3 /\ q[1] = {clients}
  BY <1>1, <1>5
<1>7. \A k \in 2..2 * n + 3 : q[k] = w[k - 1]
  BY <1>5
<1> HIDE DEF q
<1>8. p \in Seq(SUBSET Lock) /\ Len(p) = 2 * n + 4 /\ p[2 * n + 4] = {clients}
  BY <1>1, <1>6
<1>9. \A k \in 1..2 * n + 3 : p[k] = q[k]
  BY <1>1, <1>6
<1> HIDE DEF p
<1>10. \A k \in 2..2 * n + 3 : k \in 1..2 * n + 3 /\ k - 1 \in 1..2 * n + 2
  OBVIOUS
<1>11. \A k \in 2..2 * n + 3 : p[k] = w[k - 1]
  BY <1>7, <1>9, <1>10
<1>12. p[1] = {clients}
  <2>1. 1 \in 1..2 * n + 3
    OBVIOUS
  <2> QED BY <1>6, <1>9, <2>1
<1>13. p[2] = g /\ p[2 * n + 3] = g
  <2>1. /\ 2 \in 2..2 * n + 3 /\ 2 * n + 3 \in 2..2 * n + 3
        /\ 2 - 1 = 1 /\ (2 * n + 3) - 1 = 2 * n + 2
    OBVIOUS
  <2>2. w[1] = g /\ w[2 * n + 2] = g
    BY <1>2 DEF Writing_steps
  <2> QED BY <1>11, <2>1, <2>2
<1>14. ASSUME NEW k \in 1..2 * n + 4
       PROVE  /\ clients \in p[k]
              /\ \A l \in p[k] : l \in {clients, entry(d), writer(d), out(d)}
              /\ out(d) \in p[k] => k \in 4..2 * n + 2
              /\ writer(d) \in p[k] <=> k \in 3..2 * n + 2
              /\ k \in 2..2 * n + 3 => entry(d) \in p[k]
  <2>1. CASE k = 1 \/ k = 2 * n + 4
    <3>1. p[k] = {clients}
      BY <1>8, <1>12, <2>1
    <3>2. k \notin 2..2 * n + 3 /\ k \notin 3..2 * n + 2
      BY <2>1
    <3> QED BY <1>4, <3>1, <3>2
  <2>2. CASE k \in 2..2 * n + 3
    <3>1. p[k] = w[k - 1] /\ k - 1 \in 1..2 * n + 2
      BY <1>10, <1>11, <2>2
    <3>2. /\ g \subseteq p[k]
          /\ \A l \in p[k] : l \in g \/ l = writer(d) \/ l = out(d)
          /\ out(d) \in p[k] => out(d) \in g \/ k - 1 \in 3..2 * n + 1
          /\ k - 1 \in 2..2 * n + 1 => writer(d) \in p[k]
          /\ writer(d) \in p[k] => writer(d) \in g \/ k - 1 \in 2..2 * n + 1
      BY <1>2, <3>1 DEF Writing_steps
    <3>3. /\ k - 1 \in 3..2 * n + 1 => k \in 4..2 * n + 2
          /\ k - 1 \in 2..2 * n + 1 <=> k \in 3..2 * n + 2
      OBVIOUS
    <3> QED BY <1>4, <3>2, <3>3
  <2>3. k = 1 \/ k = 2 * n + 4 \/ k \in 2..2 * n + 3
    OBVIOUS
  <2> QED BY <2>1, <2>2, <2>3
<1>15. (2 * n + 4) - 1 = 2 * n + 3 /\ (2 * n + 4) - 2 = 2 * n + 2
  OBVIOUS
<1> QED BY <1>3, <1>4, <1>8, <1>12, <1>13, <1>14, <1>15 DEF Visit_steps

LEMMA GoodVisit ==
  ASSUME NEW d \in Conns, NEW N \in Nat, N >= 6, NEW p, Visit_steps(p, d, N)
  PROVE  /\ Good(p) /\ Head(p) = {clients}
         /\ \A i \in 1..Len(p) : clients \in p[i]
<1>1. /\ p \in Seq(SUBSET Lock) /\ Len(p) = N
      /\ p[1] = {clients} /\ p[N] = {clients}
      /\ p[2] = {clients, entry(d)} /\ p[N - 1] = {clients, entry(d)}
  BY DEF Visit_steps
<1>2. \A k \in 1..N :
        /\ clients \in p[k]
        /\ \A l \in p[k] : l \in {clients, entry(d), writer(d), out(d)}
        /\ out(d) \in p[k] => k \in 4..N - 2
        /\ writer(d) \in p[k] <=> k \in 3..N - 2
        /\ k \in 2..N - 1 => entry(d) \in p[k]
  BY DEF Visit_steps
<1>3. p \in Path /\ Head(p) = {clients}
  BY <1>1 DEF Path
<1>4. Climbing(p)
  <2> SUFFICES ASSUME NEW i \in 1..N - 1,
                      NEW l \in p[i + 1] \ p[i], NEW k \in p[i]
               PROVE  Rank[k.kind] < Rank[l.kind]
    BY <1>1 DEF Climbing
  <2>0. i \in 1..N /\ i + 1 \in 1..N
    OBVIOUS
  <2>1. CASE i = 1
    <3>1. k = clients /\ l = entry(d)
      BY <1>1, <2>1
    <3> QED BY <3>1 DEF clients, entry, Rank
  <2>2. CASE i = 2
    <3>1. /\ k \in {clients, entry(d)}
          /\ l \in {writer(d), out(d)}
      BY <1>1, <1>2, <2>0, <2>2
    <3> QED BY <3>1 DEF clients, entry, writer, out, Rank
  <2>3. CASE i \in 3..N - 2
    <3>1. /\ writer(d) \in p[i] /\ entry(d) \in p[i] /\ clients \in p[i]
          /\ \A x \in p[i] : x \in {clients, entry(d), writer(d), out(d)}
          /\ \A x \in p[i + 1] : x \in {clients, entry(d), writer(d), out(d)}
      BY <1>2, <2>0, <2>3
    <3>2. l = out(d) /\ k \in {clients, entry(d), writer(d)}
      BY <3>1
    <3> QED BY <3>2 DEF clients, entry, writer, out, Rank
  <2>4. CASE i = N - 1
    <3>1. p[i + 1] = {clients}
      BY <1>1, <2>4
    <3>2. clients \in p[i]
      BY <1>2, <2>0
    <3> QED BY <3>1, <3>2
  <2>5. i = 1 \/ i = 2 \/ i \in 3..N - 2 \/ i = N - 1
    OBVIOUS
  <2> QED BY <2>1, <2>2, <2>3, <2>4, <2>5
<1>5. \A e \in Conns : \A k \in 1..N :
        /\ writer(e) \in p[k] => e = d /\ k \in 3..N - 2
        /\ out(e) \in p[k] => e = d /\ k \in 4..N - 2
        /\ reader(e) \notin p[k]
  <2> SUFFICES ASSUME NEW e \in Conns, NEW k \in 1..N
               PROVE  /\ writer(e) \in p[k] => e = d /\ k \in 3..N - 2
                      /\ out(e) \in p[k] => e = d /\ k \in 4..N - 2
                      /\ reader(e) \notin p[k]
    OBVIOUS
  <2>1. \A l \in p[k] : l \in {clients, entry(d), writer(d), out(d)}
    BY <1>2
  <2>2. /\ writer(e) \in p[k] => e = d
        /\ out(e) \in p[k] => e = d
        /\ reader(e) \notin p[k]
    BY <2>1 DEF clients, entry, writer, out, reader
  <2> QED BY <1>2, <2>2
<1>6. Whole(p)
  <2>1. ASSUME NEW e \in Conns, NEW i \in 1..N, NEW j \in 1..N, NEW k \in 1..N,
               i <= j, j <= k, writer(e) \in p[i], out(e) \in p[k]
        PROVE  writer(e) \in p[j]
    <3>1. e = d /\ i \in 3..N - 2 /\ k \in 4..N - 2
      BY <1>5, <2>1
    <3>2. j \in 3..N - 2
      BY <2>1, <3>1
    <3> QED BY <1>2, <3>1, <3>2
  <2>2. \A e \in Conns : out(e) \notin p[N]
    BY <1>1 DEF out, clients
  <2> QED BY <1>1, <1>5, <2>1, <2>2 DEF Whole
<1> QED BY <1>1, <1>2, <1>3, <1>4, <1>6 DEF Good

\* A path that keeps the clients locked once it has locked them.
Keeps_clients(p) ==
  \A i, j \in 1..Len(p) : i <= j /\ clients \in p[i] => clients \in p[j]

\* The path of every call is good and begins without guards; the path of a
\* broadcast keeps the clients locked.
LEMMA GoodPathOf ==
  ASSUME NEW c \in Conns, NEW n \in Nat \ {0}, NEW call \in Calls
  PROVE  /\ Good(PathOf(call, c, n)) /\ Head(PathOf(call, c, n)) = {}
         /\ call \in Broadcasts => Keeps_clients(PathOf(call, c, n))
<1>1. CASE call = "hello"
  BY <1>1, GoodName DEF PathOf, Broadcasts
<1>2. CASE call = "greet"
  BY <1>2, GoodBroadcast DEF PathOf, Keeps_clients
<1>3. CASE call = "address"
  BY <1>3, GoodAddress DEF PathOf, Broadcasts
<1>4. CASE call = "insert"
  BY <1>4, GoodInsert DEF PathOf, Broadcasts
<1>5. CASE call = "name"
  BY <1>5, GoodName DEF PathOf, Broadcasts
<1>6. CASE call = "read"
  BY <1>6, GoodRead DEF PathOf, Broadcasts
<1>7. CASE call = "broadcast"
  BY <1>7, GoodBroadcast DEF PathOf, Keeps_clients
<1>8. CASE call = "rename"
  BY <1>8, GoodRename DEF PathOf, Broadcasts
<1>9. CASE call = "remove"
  BY <1>9, GoodRemove DEF PathOf, Broadcasts
<1>10. CASE call = "share"
  BY <1>10, GoodShare DEF PathOf, Broadcasts
<1>11. CASE call = "spawn"
  BY <1>11, GoodInsert DEF PathOf, Broadcasts
<1>12. CASE call = "reply" \/ call = "end"
  <2>1. PathOf(call, c, n) = write_message({}, c, n) /\ call \notin Broadcasts
    BY <1>12 DEF PathOf, Broadcasts
  <2> QED BY <2>1, GoodReply
<1>13. CASE call = "promote"
  BY <1>13, GoodPromote DEF PathOf, Broadcasts
<1>14. CASE call = "number"
  BY <1>14, GoodNumber DEF PathOf, Broadcasts
<1> QED BY <1>1, <1>2, <1>3, <1>4, <1>5, <1>6, <1>7, <1>8, <1>9, <1>10, <1>11,
           <1>12, <1>13, <1>14 DEF Calls, Broadcasts

-----------------------------------------------------------------------------
(* Type correctness, and the inductive invariant *)

IInv == TypeOK /\ Paths /\ Exclusive /\ Lasting /\ Midway

\* What a thread that drops its guards and goes on leaves behind.
Released(t) ==
  /\ status' \in [Threads -> {"new", "running", "ended"}]
  /\ agenda' \in [Threads -> Seq(Calls) \ {<<>>}]
  /\ path' \in [Threads -> Path]
  /\ owed' \in [Threads -> SUBSET Conns]
  /\ Good(path'[t]) /\ Head(path'[t]) = {} /\ owed'[t] = {}
  /\ status'[t] # "running" => path'[t] = <<{}>>
  /\ Head(agenda'[t]) \in Broadcasts => Keeps_clients(path'[t])
  /\ \A u \in Threads \ {t} :
       /\ status'[u] = status[u] /\ agenda'[u] = agenda[u]
       /\ path'[u] = path[u] /\ owed'[u] = owed[u]

LEMMA Proceeded ==
  ASSUME TypeOK, NEW t \in Threads, NEW calls \in Seq(Calls) \ {<<>>},
         Proceed(t, calls)
  PROVE  Released(t)
<1>1. t[2] \in Conns
  BY DEF Threads
<1>2. /\ agenda' = [agenda EXCEPT ![t] = calls]
      /\ owed' = [owed EXCEPT ![t] = {}]
  BY DEF Proceed
<1>3. agenda' \in [Threads -> Seq(Calls) \ {<<>>}] /\ agenda'[t] = calls
  BY <1>2 DEF TypeOK
<1>4. owed' \in [Threads -> SUBSET Conns] /\ owed'[t] = {}
  BY <1>2 DEF TypeOK
<1>5. \A u \in Threads \ {t} : agenda'[u] = agenda[u] /\ owed'[u] = owed[u]
  BY <1>2 DEF TypeOK
<1>6. CASE calls = <<"end">>
  <2>1. /\ path' = [path EXCEPT ![t] = <<{}>>]
        /\ status' = [status EXCEPT ![t] = "ended"]
    BY <1>6 DEF Proceed
  <2>2. <<{}>> \in Path
    BY DEF Path
  <2>3. path' \in [Threads -> Path] /\ path'[t] = <<{}>>
    BY <2>1, <2>2 DEF TypeOK, Path
  <2>4. status' \in [Threads -> {"new", "running", "ended"}]
    BY <2>1 DEF TypeOK
  <2>5. \A u \in Threads \ {t} : path'[u] = path[u] /\ status'[u] = status[u]
    BY <2>1 DEF TypeOK
  <2>6. Head(agenda'[t]) \notin Broadcasts
    BY <1>3, <1>6 DEF Broadcasts
  <2>7. Good(path'[t]) /\ Head(path'[t]) = {}
    BY <2>3, GoodInsert
  <2> QED BY <1>3, <1>4, <1>5, <2>3, <2>4, <2>5, <2>6, <2>7 DEF Released
<1>7. CASE calls # <<"end">>
  <2>1. PICK n \in 1..Pieces : path' = [path EXCEPT ![t] = PathOf(Head(calls), t[2], n)]
    BY <1>7 DEF Proceed
  <2>2. status' = [status EXCEPT ![t] = "running"]
    BY <1>7 DEF Proceed
  <2>3. Head(calls) \in Calls /\ n \in Nat \ {0}
    BY LocksAssumption
  <2> DEFINE p == PathOf(Head(calls), t[2], n)
  <2>4. /\ Good(p) /\ Head(p) = {}
        /\ Head(calls) \in Broadcasts => Keeps_clients(p)
    BY <1>1, <2>3, GoodPathOf
  <2> HIDE DEF p
  <2>5. p \in Path
    BY <2>4 DEF Good
  <2>6. path' \in [Threads -> Path] /\ path'[t] = p
    BY <2>1, <2>5 DEF TypeOK, Path, p
  <2>7. /\ status' \in [Threads -> {"new", "running", "ended"}]
        /\ status'[t] = "running"
    BY <2>2 DEF TypeOK
  <2>8. \A u \in Threads \ {t} : path'[u] = path[u] /\ status'[u] = status[u]
    BY <2>1, <2>2 DEF TypeOK
  <2> QED BY <1>3, <1>4, <1>5, <2>4, <2>6, <2>7, <2>8 DEF Released
<1> QED BY <1>6, <1>7

\* A thread that goes on so, and is in the middle of no message, keeps IInv.
LEMMA ReleasedIsInv ==
  ASSUME IInv, NEW t \in Threads, Released(t),
         partial' \in [Conns -> SUBSET Threads],
         \A d \in Conns : partial'[d] \subseteq partial[d] \ {t},
         UNCHANGED <<members, space, gone>>,
         sent' \in 0..MaxSent
  PROVE  IInv'
<1>1. TypeOK'
  BY DEF IInv, TypeOK, Released, Path
<1>2. Paths'
  BY DEF IInv, Paths, Released, Good
<1>3. Exclusive'
  <2>1. /\ \A u \in Threads \ {t} : Head(path'[u]) = Head(path[u])
        /\ Head(path'[t]) = {}
    BY DEF Released
  <2>2. \A u, v \in Threads : u # v => Head(path'[u]) \intersect Head(path'[v]) = {}
    BY <2>1 DEF IInv, Exclusive, held
  <2>3. \A u \in Threads : status'[u] # "running" => path'[u] = <<{}>>
    BY DEF IInv, Exclusive, Released
  <2> QED BY <2>2, <2>3 DEF Exclusive, held
<1>4. Lasting'
  <2>1. ASSUME NEW u \in Threads
        PROVE  /\ Head(agenda'[u]) \in Broadcasts => Keeps_clients(path'[u])
               /\ owed'[u] # {} =>
                    clients \in Head(path'[u]) /\ Head(agenda'[u]) \in Broadcasts
    <3>1. CASE u = t
      BY <3>1 DEF Released
    <3>2. CASE u # t
      BY <3>2 DEF Released, IInv, Lasting, Keeps_clients, held
    <3> QED BY <3>1, <3>2
  <2> QED BY <2>1 DEF Lasting, Keeps_clients, held
<1>5. Midway'
  <2> SUFFICES ASSUME NEW d \in Conns, NEW u \in partial'[d]
               PROVE  /\ writer(d) \in Head(path'[u])
                      /\ \E k \in 1..Len(path'[u]) : out(d) \in path'[u][k]
    BY DEF Midway, held
  <2>1. u \in partial[d] /\ u # t /\ u \in Threads
    BY DEF IInv, TypeOK
  <2>2. path'[u] = path[u]
    BY <2>1 DEF Released
  <2> QED BY <2>1, <2>2 DEF IInv, Midway, held
<1> QED BY <1>1, <1>2, <1>3, <1>4, <1>5 DEF IInv

\* A thread that goes one step along its path has no lock another one has, and
\* the rest of its path is as good.
LEMMA Stepped ==
  ASSUME IInv, NEW t \in Threads, Step(t), Len(path[t]) > 1
  PROVE  /\ path' \in [Threads -> Path]
         /\ \A u \in Threads \ {t} : path'[u] = path[u]
         /\ Good(path[t]) /\ Good(path'[t])
         /\ Head(path[t]) = path[t][1] /\ Head(path'[t]) = path[t][2]
         /\ Len(path'[t]) = Len(path[t]) - 1
         /\ \A k \in 1..Len(path[t]) - 1 : path'[t][k] = path[t][k + 1]
<1>1. path \in [Threads -> Path] /\ path' = [path EXCEPT ![t] = Tail(path[t])]
  BY DEF IInv, TypeOK, Step, Path
<1>2. Good(path[t])
  BY <1>1 DEF IInv, Paths, Good
<1>3. path'[t] = Tail(path[t]) /\ \A u \in Threads \ {t} : path'[u] = path[u]
  BY <1>1
<1>4. /\ Good(path'[t])
      /\ Head(path'[t]) = path[t][2]
      /\ Len(path'[t]) = Len(path[t]) - 1
      /\ \A k \in 1..Len(path[t]) - 1 : path'[t][k] = path[t][k + 1]
  BY <1>2, <1>3, GoodTail
<1>5. path' \in [Threads -> Path]
  BY <1>1, <1>3, <1>4 DEF Good
<1>6. Head(path[t]) = path[t][1]
  BY <1>1 DEF Path
<1> QED BY <1>2, <1>3, <1>4, <1>5, <1>6

\* Going along a path keeps the clients locked and, if the locks it newly takes
\* were free, every lock with one holder.
LEMMA SteppedIsInv ==
  ASSUME IInv, NEW t \in Threads, Step(t), Len(path[t]) > 1, Running(t),
         \A l \in Wanted(t) : Free(l, t),
         UNCHANGED <<status, agenda>>, owed' \in [Threads -> SUBSET Conns],
         \A u \in Threads \ {t} : owed'[u] = owed[u],
         owed'[t] # {} => /\ Head(agenda[t]) \in Broadcasts
                          /\ owed[t] = owed'[t] \/ clients \in Wanted(t)
  PROVE  Paths' /\ Exclusive' /\ Lasting'
<1>1. /\ path' \in [Threads -> Path]
      /\ \A u \in Threads \ {t} : path'[u] = path[u]
      /\ Good(path[t]) /\ Good(path'[t])
      /\ Head(path[t]) = path[t][1] /\ Head(path'[t]) = path[t][2]
      /\ Len(path'[t]) = Len(path[t]) - 1
      /\ \A k \in 1..Len(path[t]) - 1 : path'[t][k] = path[t][k + 1]
  BY Stepped
<1>2. Len(path[t]) \in Nat
  BY <1>1 DEF Good, Path
<1>3. Paths'
  BY <1>1 DEF IInv, Paths, Good
<1>4. Wanted(t) = path[t][2] \ path[t][1]
  BY <1>1 DEF Wanted, held
<1>5. Exclusive'
  <2>1. ASSUME NEW u \in Threads \ {t}
        PROVE  Head(path'[t]) \intersect Head(path'[u]) = {}
    <3>1. path[t][1] \intersect Head(path[u]) = {}
      BY <1>1 DEF IInv, Exclusive, held
    <3>2. (path[t][2] \ path[t][1]) \intersect Head(path[u]) = {}
      BY <1>4 DEF Free, held
    <3> QED BY <1>1, <3>1, <3>2
  <2>2. \A u, v \in Threads : u # v => Head(path'[u]) \intersect Head(path'[v]) = {}
    BY <1>1, <2>1 DEF IInv, Exclusive, held
  <2>3. \A u \in Threads : status'[u] # "running" => path'[u] = <<{}>>
    BY <1>1 DEF IInv, Exclusive, Running
  <2> QED BY <2>2, <2>3 DEF Exclusive, held
<1>6. Lasting'
  <2>1. ASSUME NEW u \in Threads
        PROVE  /\ Head(agenda[u]) \in Broadcasts => Keeps_clients(path'[u])
               /\ owed'[u] # {} =>
                    clients \in Head(path'[u]) /\ Head(agenda[u]) \in Broadcasts
    <3>1. CASE u # t
      BY <1>1, <3>1 DEF IInv, Lasting, Keeps_clients, held
    <3>2. Head(agenda[t]) \in Broadcasts => Keeps_clients(path[t])
      BY DEF IInv, Lasting, Keeps_clients
    <3>3. Head(agenda[t]) \in Broadcasts => Keeps_clients(path'[t])
      <4> SUFFICES ASSUME Keeps_clients(path[t]),
                          NEW i \in 1..Len(path'[t]), NEW j \in 1..Len(path'[t]),
                          i <= j, clients \in path'[t][i]
                   PROVE  clients \in path'[t][j]
        BY <3>2 DEF Keeps_clients
      <4>1. /\ i + 1 \in 1..Len(path[t]) /\ j + 1 \in 1..Len(path[t]) /\ i + 1 <= j + 1
            /\ path'[t][i] = path[t][i + 1] /\ path'[t][j] = path[t][j + 1]
        BY <1>1, <1>2
      <4> QED BY <4>1 DEF Keeps_clients
    <3>4. ASSUME owed'[t] # {}
          PROVE  clients \in Head(path'[t]) /\ Head(agenda[t]) \in Broadcasts
      <4>1. CASE clients \in Wanted(t)
        BY <1>1, <1>4, <3>4, <4>1
      <4>2. CASE owed[t] = owed'[t]
        <5>1. clients \in path[t][1]
          BY <1>1, <3>4, <4>2 DEF IInv, Lasting, held
        <5>2. 1 \in 1..Len(path[t]) /\ 2 \in 1..Len(path[t])
          BY <1>2
        <5>3. clients \in path[t][2]
          BY <3>2, <3>4, <5>1, <5>2 DEF Keeps_clients
        <5> QED BY <1>1, <3>4, <5>3
      <4> QED BY <3>4, <4>1, <4>2
    <3> QED BY <3>1, <3>3, <3>4
  <2> QED BY <2>1 DEF Lasting, Keeps_clients, held
<1> QED BY <1>3, <1>5, <1>6

LEMMA LockIsInv ==
  ASSUME IInv, NEW t \in Threads, Lock_or_unlock(t)
  PROVE  IInv'
<1>1. /\ Running(t) /\ ~InSocket(t) /\ Len(path[t]) > 1 /\ Step(t)
      /\ \A l \in Wanted(t) : Free(l, t)
      /\ Visit(t)
      /\ UNCHANGED <<status, agenda, partial, space, gone, sent>>
  BY DEF Lock_or_unlock
<1>2. /\ path' \in [Threads -> Path]
      /\ \A u \in Threads \ {t} : path'[u] = path[u]
      /\ Good(path[t]) /\ Good(path'[t])
      /\ Head(path[t]) = path[t][1] /\ Head(path'[t]) = path[t][2]
      /\ Len(path'[t]) = Len(path[t]) - 1
      /\ \A k \in 1..Len(path[t]) - 1 : path'[t][k] = path[t][k + 1]
  BY <1>1, Stepped
<1>3. /\ members' \in SUBSET Conns /\ owed' \in [Threads -> SUBSET Conns]
      /\ \A u \in Threads \ {t} : owed'[u] = owed[u]
      /\ owed'[t] # {} => /\ Head(agenda[t]) \in Broadcasts
                          /\ owed[t] = owed'[t] \/ clients \in Wanted(t)
  <2>1. CASE clients \in Wanted(t)
    <3>1. owed' = [owed EXCEPT ![t] = IF Head(agenda[t]) \in Broadcasts
                                        THEN members ELSE {}]
      BY <1>1, <2>1 DEF Visit
    <3>2. members' \in {members \union {t[2]}, members \ {t[2]}, members}
      BY <1>1, <2>1 DEF Visit
    <3>3. t[2] \in Conns
      BY DEF Threads
    <3> QED BY <2>1, <3>1, <3>2, <3>3 DEF IInv, TypeOK
  <2>2. CASE clients \notin Wanted(t)
    BY <1>1, <2>2 DEF IInv, TypeOK, Visit, Lasting
  <2> QED BY <2>1, <2>2
<1>4. TypeOK'
  BY <1>1, <1>2, <1>3 DEF IInv, TypeOK, Path
<1>5. Paths' /\ Exclusive' /\ Lasting'
  BY <1>1, <1>3, SteppedIsInv
<1>6. Midway'
  <2> SUFFICES ASSUME NEW d \in Conns, NEW u \in partial[d]
               PROVE  /\ writer(d) \in Head(path'[u])
                      /\ \E k \in 1..Len(path'[u]) : out(d) \in path'[u][k]
    BY <1>1 DEF Midway, held
  <2>1. u \in Threads
    BY DEF IInv, TypeOK
  <2>2. /\ writer(d) \in Head(path[u])
        /\ \E k \in 1..Len(path[u]) : out(d) \in path[u][k]
    BY DEF IInv, Midway, held
  <2>3. CASE u = t
    <3>1. PICK k \in 1..Len(path[t]) : out(d) \in path[t][k]
      BY <2>2, <2>3
    <3>2. writer(d) \in path[t][1]
      BY <1>2, <2>2, <2>3
    <3>3. k # 1
      BY <1>1, <1>2, <3>1, <3>2 DEF InSocket, Writing, held
    <3>4. /\ Len(path[t]) \in Nat
          /\ 1 \in 1..Len(path[t]) /\ 2 \in 1..Len(path[t]) /\ 1 <= 2 /\ 2 <= k
      BY <1>1, <1>2, <3>3 DEF Good, Path
    <3>5. writer(d) \in path[t][2]
      BY <1>2, <3>1, <3>2, <3>4 DEF Good, Whole
    <3>6. k - 1 \in 1..Len(path'[t]) /\ path'[t][k - 1] = path[t][k]
      BY <1>2, <3>3, <3>4
    <3> QED BY <1>2, <2>3, <3>1, <3>5, <3>6
  <2>4. CASE u # t
    BY <1>2, <2>1, <2>2, <2>4
  <2> QED BY <2>3, <2>4
<1> QED BY <1>4, <1>5, <1>6 DEF IInv

LEMMA WriteIsInv ==
  ASSUME IInv, NEW t \in Threads, NEW d \in Conns, Write(t, d)
  PROVE  IInv'
<1> DEFINE More == \E k \in 2..Len(path[t]) : out(d) \in path[t][k]
<1>1. /\ Writing(t, d) /\ Running(t) /\ Step(t) /\ space[d] > 0
      /\ space' = [space EXCEPT ![d] = @ - 1]
      /\ partial' = [partial EXCEPT ![d] = IF More THEN partial[d] \union {t}
                                                   ELSE partial[d] \ {t}]
      /\ UNCHANGED <<status, agenda, owed, members, gone, sent>>
  BY DEF Write, Writing
<1>2. path[t] \in Path /\ Good(path[t])
  BY DEF IInv, TypeOK, Path, Paths, Good
<1>3. Len(path[t]) \in Nat /\ Len(path[t]) # 0 /\ Head(path[t]) = path[t][1]
  BY <1>2 DEF Path
<1>4. writer(d) \in path[t][1] /\ out(d) \in path[t][1]
  BY <1>1, <1>3 DEF Writing, held
<1>5. Len(path[t]) > 1
  <2>1. out(d) \notin path[t][Len(path[t])]
    BY <1>2 DEF Good, Whole
  <2> QED BY <1>3, <1>4, <2>1
<1>6. /\ path' \in [Threads -> Path]
      /\ \A u \in Threads \ {t} : path'[u] = path[u]
      /\ Head(path'[t]) = path[t][2]
      /\ Len(path'[t]) = Len(path[t]) - 1
      /\ \A k \in 1..Len(path[t]) - 1 : path'[t][k] = path[t][k + 1]
  BY <1>1, <1>5, Stepped
<1>7. Wanted(t) = {}
  <2> SUFFICES ASSUME NEW l \in path[t][2], l \notin path[t][1]
               PROVE  FALSE
    BY <1>3 DEF Wanted, held
  <2>1. /\ 1 \in 1..Len(path[t]) - 1 /\ 2 \in 1..Len(path[t])
        /\ l \in path[t][1 + 1] \ path[t][1]
    BY <1>3, <1>5
  <2>2. Rank[out(d).kind] < Rank[l.kind]
    BY <1>2, <1>4, <2>1 DEF Good, Climbing
  <2>3. path[t][2] \subseteq Lock
    BY <1>2, <2>1 DEF Path
  <2>4. Rank[l.kind] \in 1..6
    BY <2>3, Ranks
  <2>5. Rank[out(d).kind] = 6
    BY DEF out, Rank
  <2> QED BY <2>2, <2>4, <2>5
<1>8. TypeOK'
  <2>1. space' \in [Conns -> 0..Window]
    BY <1>1, LocksAssumption DEF IInv, TypeOK
  <2>2. partial' \in [Conns -> SUBSET Threads]
    BY <1>1 DEF IInv, TypeOK
  <2> QED BY <1>1, <1>6, <2>1, <2>2 DEF IInv, TypeOK, Path
<1>9. Paths' /\ Exclusive' /\ Lasting'
  <2>1. owed[t] # {} => Head(agenda[t]) \in Broadcasts
    BY DEF IInv, Lasting
  <2> QED BY <1>1, <1>5, <1>7, <1>8, <2>1, SteppedIsInv DEF TypeOK
<1>10. Midway'
  <2> SUFFICES ASSUME NEW e \in Conns, NEW u \in partial'[e]
               PROVE  /\ writer(e) \in Head(path'[u])
                      /\ \E k \in 1..Len(path'[u]) : out(e) \in path'[u][k]
    BY DEF Midway, held
  <2>1. u \in Threads
    BY <1>8 DEF TypeOK
  <2>2. CASE u # t
    <3>1. u \in partial[e]
      BY <1>1, <2>2 DEF IInv, TypeOK
    <3> QED BY <1>6, <2>1, <2>2, <3>1 DEF IInv, Midway, held
  <2>3. CASE u = t
    <3>1. e = d
      <4> SUFFICES ASSUME e # d PROVE FALSE
        OBVIOUS
      <4>1. t \in partial[e]
        BY <1>1, <2>3 DEF IInv, TypeOK
      <4>2. writer(e) \in path[t][1] /\ 1 \in 1..Len(path[t])
        BY <1>3, <4>1 DEF IInv, Midway, held
      <4> QED BY <1>2, <1>4, <4>2 DEF Good, Whole
    <3>2. More
      BY <1>1, <2>3, <3>1 DEF IInv, TypeOK
    <3>3. PICK k \in 2..Len(path[t]) : out(d) \in path[t][k]
      BY <3>2
    <3>4. /\ 1 \in 1..Len(path[t]) /\ 2 \in 1..Len(path[t]) /\ k \in 1..Len(path[t])
          /\ 1 <= 2 /\ 2 <= k
      BY <1>3, <1>5
    <3>5. writer(d) \in path[t][2]
      BY <1>2, <1>4, <3>3, <3>4 DEF Good, Whole
    <3>6. k - 1 \in 1..Len(path'[t]) /\ path'[t][k - 1] = path[t][k]
      BY <1>3, <1>6
    <3> QED BY <1>6, <2>3, <3>1, <3>3, <3>5, <3>6
  <2> QED BY <2>2, <2>3
<1> QED BY <1>8, <1>9, <1>10 DEF IInv

\* A thread at the end of its path is in the middle of no message.
LEMMA EndOfPath ==
  ASSUME IInv, NEW t \in Threads, Len(path[t]) = 1, NEW d \in Conns
  PROVE  t \notin partial[d]
<1>1. path[t] \in Path /\ out(d) \notin path[t][Len(path[t])]
  BY DEF IInv, TypeOK, Path, Paths, Whole
<1>2. \A k \in 1..Len(path[t]) : out(d) \notin path[t][k]
  BY <1>1
<1> QED BY <1>2 DEF IInv, Midway

LEMMA VisitIsInv ==
  ASSUME IInv, NEW t \in Threads, NEW d \in Conns, Visit_entry(t, d)
  PROVE  IInv'
<1>1. /\ Running(t) /\ Head(agenda[t]) \in Broadcasts /\ Len(path[t]) = 1
      /\ d \in owed[t] /\ owed' = [owed EXCEPT ![t] = @ \ {d}]
      /\ UNCHANGED <<status, agenda, members, partial, space, gone, sent>>
  BY DEF Visit_entry
<1>2. PICK n \in 1..Pieces : path' = [path EXCEPT ![t] = visit(d, n)]
  BY DEF Visit_entry
<1> DEFINE p == visit(d, n)
<1>3. Good(p) /\ Head(p) = {clients} /\ \A i \in 1..Len(p) : clients \in p[i]
  <2>1. n \in Nat \ {0} /\ 2 * n + 4 \in Nat /\ 2 * n + 4 >= 6
    BY LocksAssumption
  <2>2. Visit_steps(p, d, 2 * n + 4)
    BY <2>1, Visited
  <2> QED BY <2>1, <2>2, GoodVisit
<1> HIDE DEF p
<1>4. /\ path' \in [Threads -> Path] /\ path'[t] = p
      /\ \A u \in Threads \ {t} : path'[u] = path[u]
  BY <1>2, <1>3 DEF IInv, TypeOK, Path, Good, p
<1>5. TypeOK'
  BY <1>1, <1>4 DEF IInv, TypeOK, Path
<1>6. Paths'
  BY <1>3, <1>4 DEF IInv, Paths, Good
<1>7. clients \in Head(path[t])
  BY <1>1 DEF IInv, Lasting, held
<1>8. Exclusive'
  <2>1. \A u \in Threads \ {t} : Head(path'[t]) \intersect Head(path'[u]) = {}
    BY <1>3, <1>4, <1>7 DEF IInv, Exclusive, held
  <2>2. \A u, v \in Threads : u # v => Head(path'[u]) \intersect Head(path'[v]) = {}
    BY <1>4, <2>1 DEF IInv, Exclusive, held
  <2>3. \A u \in Threads : status[u] # "running" => path'[u] = <<{}>>
    BY <1>1, <1>4 DEF IInv, Exclusive, Running
  <2> QED BY <1>1, <2>2, <2>3 DEF Exclusive, held
<1>9. Lasting'
  <2>1. ASSUME NEW u \in Threads
        PROVE  /\ Head(agenda[u]) \in Broadcasts => Keeps_clients(path'[u])
               /\ owed'[u] # {} =>
                    clients \in Head(path'[u]) /\ Head(agenda[u]) \in Broadcasts
    <3>1. CASE u = t
      BY <1>1, <1>3, <1>4, <3>1 DEF Keeps_clients
    <3>2. CASE u # t
      BY <1>1, <1>4, <3>2 DEF IInv, TypeOK, Lasting, Keeps_clients, held
    <3> QED BY <3>1, <3>2
  <2> QED BY <1>1, <2>1 DEF Lasting, Keeps_clients, held
<1>10. Midway'
  <2> SUFFICES ASSUME NEW e \in Conns, NEW u \in partial[e]
               PROVE  /\ writer(e) \in Head(path'[u])
                      /\ \E k \in 1..Len(path'[u]) : out(e) \in path'[u][k]
    BY <1>1 DEF Midway, held
  <2>1. u \in Threads /\ u # t
    BY <1>1, EndOfPath DEF IInv, TypeOK
  <2> QED BY <1>4, <2>1 DEF IInv, Midway, held
<1> QED BY <1>5, <1>6, <1>8, <1>9, <1>10 DEF IInv

\* Whoever reads is in the middle of no message.
LEMMA ReaderWritesNothing ==
  ASSUME IInv, NEW c \in Conns, Reading(<<"serve", c>>), NEW d \in Conns
  PROVE  <<"serve", c>> \notin partial[d]
<1> DEFINE t == <<"serve", c>>
<1>1. t \in Threads /\ reader(c) \in held(t)
  BY DEF Threads, Reading
<1>2. path[t] \in Path /\ held(t) = path[t][1] /\ 1 \in 1..Len(path[t])
  BY <1>1 DEF IInv, TypeOK, Path, held
<1>3. writer(d) \notin held(t)
  BY <1>1, <1>2 DEF IInv, Paths, Whole
<1> QED BY <1>3 DEF IInv, Midway

\* A thread that does not run is in the middle of no message.
LEMMA IdleWritesNothing ==
  ASSUME IInv, NEW t \in Threads, status[t] # "running", NEW d \in Conns
  PROVE  t \notin partial[d]
<1>1. path[t] = <<{}>>
  BY DEF IInv, Exclusive
<1>2. Len(path[t]) = 1
  BY <1>1
<1> QED BY <1>2, EndOfPath

\* The calls of the handlers are calls.
LEMMA Agendas ==
  /\ greet_user \in Seq(Calls) \ {<<>>}
  /\ handle_client_messages \in Seq(Calls) \ {<<>>}
  /\ broadcast_interupt \in Seq(Calls) \ {<<>>}
  /\ send_file \in Seq(Calls) \ {<<>>}
  /\ <<"end">> \in Seq(Calls) \ {<<>>}
  /\ \A kind \in Requests : Handler[kind] \in Seq(Calls) \ {<<>>}
<1>1. "end" \in Calls /\ "name" \in Calls /\ "broadcast" \in Calls
      /\ "remove" \in Calls /\ "rename" \in Calls /\ "reply" \in Calls
      /\ "share" \in Calls /\ "spawn" \in Calls /\ "hello" \in Calls
      /\ "greet" \in Calls /\ "address" \in Calls /\ "insert" \in Calls
      /\ "read" \in Calls /\ "promote" \in Calls /\ "number" \in Calls
  BY DEF Calls, Broadcasts
<1>2. /\ handle_client_text \in Seq(Calls) \ {<<>>}
      /\ handle_upper_bound_violation \in Seq(Calls) \ {<<>>}
      /\ handle_client_leave \in Seq(Calls) \ {<<>>}
      /\ handle_client_rename \in Seq(Calls) \ {<<>>}
      /\ handle_client_chunk \in Seq(Calls) \ {<<>>}
      /\ handle_client_request_file_upload \in Seq(Calls) \ {<<>>}
      /\ handle_client_agree_file_download \in Seq(Calls) \ {<<>>}
  BY <1>1 DEF handle_client_text, handle_upper_bound_violation, handle_client_leave,
     handle_client_rename, handle_client_chunk, handle_client_request_file_upload,
     handle_client_agree_file_download
<1>3. /\ handle_client_request_file_download \in Seq(Calls) \ {<<>>}
      /\ handle_client_decline_file_download \in Seq(Calls) \ {<<>>}
  BY <1>1 DEF handle_client_request_file_download, handle_client_decline_file_download
<1>4. \A kind \in DOMAIN Handler : Handler[kind] \in Seq(Calls) \ {<<>>}
  <2>1. \A kind \in {"Text", "TooLong", "Leave", "Rename"} :
          Handler[kind] \in Seq(Calls) \ {<<>>}
    BY <1>2 DEF Handler
  <2>2. \A kind \in {"Chunk", "Upload", "Request", "Download", "Decline"} :
          Handler[kind] \in Seq(Calls) \ {<<>>}
    <3>1. /\ Handler["Chunk"] = handle_client_chunk
          /\ Handler["Upload"] = handle_client_request_file_upload
          /\ Handler["Request"] = handle_client_request_file_download
          /\ Handler["Download"] = handle_client_agree_file_download
          /\ Handler["Decline"] = handle_client_decline_file_download
      BY DEF Handler
    <3> QED BY <1>2, <1>3, <3>1
  <2>3. DOMAIN Handler = {"Text", "TooLong", "Leave", "Rename"}
          \union {"Chunk", "Upload", "Request", "Download", "Decline"}
    BY DEF Handler
  <2> QED BY <2>1, <2>2, <2>3
<1>5. Requests \subseteq DOMAIN Handler
  BY LocksAssumption
<1> QED BY <1>1, <1>4, <1>5 DEF greet_user, handle_client_messages,
     broadcast_interupt, send_file

\* A step that ends the call under way, of a thread in the middle of no message.
LEMMA ProceedIsInv ==
  ASSUME IInv, NEW t \in Threads, NEW calls \in Seq(Calls) \ {<<>>},
         Proceed(t, calls),
         \A d \in Conns : t \notin partial[d],
         UNCHANGED <<members, partial, space, gone>>, sent' \in 0..MaxSent
  PROVE  IInv'
<1>1. Released(t)
  BY Proceeded DEF IInv
<1>2. /\ partial' \in [Conns -> SUBSET Threads]
      /\ \A d \in Conns : partial'[d] \subseteq partial[d] \ {t}
  BY DEF IInv, TypeOK
<1>3. UNCHANGED <<members, space, gone>>
  OBVIOUS
<1> QED BY <1>1, <1>2, <1>3, ReleasedIsInv

LEMMA InitIsInv == Init => IInv
<1> SUFFICES ASSUME Init PROVE IInv
  OBVIOUS
<1>1. "end" \in Calls /\ <<"end">> \in Seq(Calls) \ {<<>>} /\ <<{}>> \in Path
  BY DEF Calls, Path
<1>2. TypeOK
  BY <1>1, LocksAssumption DEF Init, TypeOK, Path
<1>3. Paths
  BY GoodInsert DEF Init, Paths, Good
<1>4. Exclusive
  BY DEF Init, Exclusive, held
<1>5. Lasting
  BY DEF Init, Lasting, Broadcasts
<1>6. Midway
  BY DEF Init, Midway
<1> QED BY <1>2, <1>3, <1>4, <1>5, <1>6 DEF IInv

LEMMA NextIsInv == IInv /\ [Next]_vars => IInv'
<1> SUFFICES ASSUME IInv, [Next]_vars PROVE IInv'
  OBVIOUS
<1>0. sent \in 0..MaxSent /\ MaxSent \in Nat
  BY LocksAssumption DEF IInv, TypeOK
<1>1. ASSUME NEW t \in Threads, Lock_or_unlock(t) PROVE IInv'
  BY <1>1, LockIsInv
<1>2. ASSUME NEW t \in Threads, NEW d \in Conns, Write(t, d) PROVE IInv'
  BY <1>2, WriteIsInv
<1>3. ASSUME NEW t \in Threads, NEW d \in Conns, Visit_entry(t, d) PROVE IInv'
  BY <1>3, VisitIsInv
<1>4. ASSUME NEW t \in Threads, Return(t) PROVE IInv'
  <2>1. PICK calls \in {handle_client_messages, Tail(agenda[t])} :
          calls # <<>> /\ Proceed(t, calls)
    <3>1. handle_client_messages # <<>>
      BY Agendas
    <3> QED BY <1>4, <3>1 DEF Return
  <2>2. calls \in Seq(Calls) \ {<<>>}
    <3>1. agenda[t] \in Seq(Calls) /\ agenda[t] # <<>>
      BY DEF IInv, TypeOK
    <3>2. Tail(agenda[t]) \in Seq(Calls)
      BY <3>1
    <3> QED BY <2>1, <3>2, Agendas
  <2>3. \A d \in Conns : t \notin partial[d]
    BY <1>4, EndOfPath DEF Return
  <2> QED BY <1>0, <1>4, <2>1, <2>2, <2>3, ProceedIsInv DEF Return
<1>5. ASSUME NEW t \in Threads, Fail(t) PROVE IInv'
  <2>1. Released(t)
    BY <1>5, Agendas, Proceeded DEF Fail, IInv
  <2>2. /\ partial' \in [Conns -> SUBSET Threads]
        /\ \A d \in Conns : partial'[d] \subseteq partial[d] \ {t}
    BY <1>5 DEF Fail, IInv, TypeOK
  <2> QED BY <1>0, <1>5, <2>1, <2>2, ReleasedIsInv DEF Fail
<1>6. ASSUME NEW c \in Conns, send_file_non_blocking(c) PROVE IInv'
  <2> DEFINE t == <<"serve", c>>
             u == <<"send", c>>
  <2>1. t \in Threads /\ u \in Threads
    BY DEF Threads
  <2>2. UNCHANGED <<members, partial, space, gone, sent>> /\ Len(path[t]) = 1
    BY <1>6 DEF send_file_non_blocking
  <2>3. CASE status[u] = "new" /\ Proceed(u, send_file)
    <3>1. \A d \in Conns : u \notin partial[d]
      BY <2>1, <2>3, IdleWritesNothing
    <3> QED BY <1>0, <2>1, <2>2, <2>3, <3>1, Agendas, ProceedIsInv
  <2>4. CASE Proceed(t, handle_client_messages)
    <3>1. \A d \in Conns : t \notin partial[d]
      BY <2>1, <2>2, EndOfPath
    <3> QED BY <1>0, <2>1, <2>2, <2>4, <3>1, Agendas, ProceedIsInv
  <2> QED BY <1>6, <2>3, <2>4 DEF send_file_non_blocking
<1>7. ASSUME NEW c \in Conns, Receive_end(c) PROVE IInv'
  <2>1. /\ Reading(<<"serve", c>>) /\ Proceed(<<"serve", c>>, broadcast_interupt)
        /\ UNCHANGED <<members, partial, space, gone, sent>>
    BY <1>7 DEF Receive_end
  <2>2. <<"serve", c>> \in Threads
    BY DEF Threads
  <2>3. \A d \in Conns : <<"serve", c>> \notin partial[d]
    BY <2>1, ReaderWritesNothing
  <2> QED BY <1>0, <2>1, <2>2, <2>3, Agendas, ProceedIsInv
<1>8. ASSUME NEW c \in Conns, handle_connection(c) PROVE IInv'
  <2>1. /\ status[<<"serve", c>>] = "new" /\ Proceed(<<"serve", c>>, greet_user)
        /\ UNCHANGED <<members, partial, space, gone, sent>>
    BY <1>8 DEF handle_connection
  <2>2. <<"serve", c>> \in Threads
    BY DEF Threads
  <2>3. \A d \in Conns : <<"serve", c>> \notin partial[d]
    BY <2>1, <2>2, IdleWritesNothing
  <2> QED BY <1>0, <2>1, <2>2, <2>3, Agendas, ProceedIsInv
<1>9. ASSUME NEW c \in Conns, Receive(c) PROVE IInv'
  <2>1. PICK kind \in Requests : Proceed(<<"serve", c>>, Handler[kind])
    BY <1>9 DEF Receive
  <2>2. Reading(<<"serve", c>>) /\ UNCHANGED <<members, partial, space, gone>>
    BY <1>9 DEF Receive
  <2>3. sent' \in 0..MaxSent
    BY <1>0, <1>9 DEF Receive
  <2>4. <<"serve", c>> \in Threads
    BY DEF Threads
  <2>5. \A d \in Conns : <<"serve", c>> \notin partial[d]
    BY <2>2, ReaderWritesNothing
  <2> QED BY <2>1, <2>2, <2>3, <2>4, <2>5, Agendas, ProceedIsInv
<1>10. ASSUME NEW d \in Conns, Drain(d) PROVE IInv'
  <2>1. /\ UNCHANGED <<status, agenda, path, owed, members, partial, gone, sent>>
        /\ space' = [space EXCEPT ![d] = @ + 1] /\ space[d] < Window
    BY <1>10 DEF Drain
  <2>2. space' \in [Conns -> 0..Window]
    BY <2>1, LocksAssumption DEF IInv, TypeOK
  <2> QED BY <2>1, <2>2
          DEF IInv, TypeOK, Paths, Exclusive, Lasting, Midway, held
<1>11. ASSUME NEW d \in Conns, Close(d) PROVE IInv'
  <2>1. /\ UNCHANGED <<status, agenda, path, owed, members, partial, space, sent>>
        /\ gone' \in SUBSET Conns
    BY <1>11 DEF Close, IInv, TypeOK
  <2> QED BY <2>1 DEF IInv, TypeOK, Paths, Exclusive, Lasting, Midway, held
<1>12. CASE UNCHANGED vars
  BY <1>12 DEF vars, IInv, TypeOK, Paths, Exclusive, Lasting, Midway, held
<1>13. \A t \in Threads : t[2] \in Conns
  BY DEF Threads
<1> QED BY <1>1, <1>2, <1>3, <1>4, <1>5, <1>6, <1>7, <1>8, <1>9, <1>10, <1>11,
           <1>12, <1>13 DEF Next, Thread, Peer

\* IInv is an invariant: every lock has one holder, every path climbs the ranks,
\* broadcasts keep the clients locked.
THEOREM InductiveInvariant == Spec => []IInv
<1> QED BY InitIsInv, NextIsInv, PTL DEF Spec

\* Every variable of the server's threads and locks keeps its type.
THEOREM TypeCorrect == Spec => []TypeOK
<1>1. IInv => TypeOK
  BY DEF IInv
<1> QED BY <1>1, InductiveInvariant, PTL

\* For any number of connections, no message to a peer begins in the middle of
\* another: a thread in the middle of one holds the peer's writer.
THEOREM WholeMessages == Spec => []MessagesAreWhole
<1>1. IInv => MessagesAreWhole
  <2> SUFFICES ASSUME IInv, NEW d \in Conns, NEW t \in partial[d], NEW u \in partial[d],
                      t # u
               PROVE  FALSE
    BY DEF MessagesAreWhole
  <2>1. t \in Threads /\ u \in Threads
    BY DEF IInv, TypeOK
  <2>2. writer(d) \in held(t) /\ writer(d) \in held(u)
    BY DEF IInv, Midway
  <2> QED BY <2>1, <2>2 DEF IInv, Exclusive
<1> QED BY <1>1, InductiveInvariant, PTL

\* For any number of connections and threads, waiting is never circular: along a
\* chain of threads that wait for each other the ranks of the locks increase.
THEOREM NoDeadlock == Spec => []NoCircularWait
<1>1. IInv => NoCircularWait
  <2> SUFFICES ASSUME IInv, NEW S \in SUBSET Threads, S # {},
                      \A t \in S : \E u \in S : WaitsFor(t, u)
               PROVE  FALSE
    BY DEF NoCircularWait
  <2>1. ASSUME NEW t \in S, NEW u \in S, NEW l \in Wanted(t), l \in held(u)
        PROVE  \E v \in S : \E m \in Wanted(u) : m \in held(v)
                 /\ Rank[l.kind] < Rank[m.kind]
    <3>1. PICK v \in S : WaitsFor(u, v)
      OBVIOUS
    <3>2. PICK m \in Wanted(u) : m \in held(v)
      BY <3>1 DEF WaitsFor
    <3>3. Len(path[u]) > 1 /\ m \in path[u][2] /\ m \notin held(u)
      BY <3>2 DEF Wanted
    <3>4. u \in Threads /\ path[u] \in Path
      BY DEF IInv, TypeOK, Path
    <3>5. /\ held(u) = path[u][1]
          /\ 1 \in 1..Len(path[u]) - 1 /\ 1 + 1 = 2
      BY <3>3, <3>4 DEF Path, held
    <3>6. Rank[l.kind] < Rank[m.kind]
      BY <2>1, <3>3, <3>4, <3>5 DEF IInv, Paths, Climbing
    <3> QED BY <3>2, <3>6
  <2> DEFINE Waited(r) == \E t, u \in S : \E l \in Wanted(t) :
                            l \in held(u) /\ Rank[l.kind] >= r
  <2>2. \A t \in S : \A l \in Wanted(t) : Rank[l.kind] \in 1..6
    <3> SUFFICES ASSUME NEW t \in S, NEW l \in Wanted(t)
                 PROVE  Rank[l.kind] \in 1..6
      OBVIOUS
    <3>1. path[t] \in Path /\ Len(path[t]) > 1 /\ l \in path[t][2]
      BY DEF IInv, TypeOK, Path, Wanted
    <3>2. l \in Lock
      BY <3>1 DEF Path
    <3> QED BY <3>2, Ranks
  <2>3. Waited(1)
    <3>1. PICK t \in S : TRUE
      OBVIOUS
    <3>2. PICK u \in S : WaitsFor(t, u)
      OBVIOUS
    <3>3. PICK l \in Wanted(t) : l \in held(u)
      BY <3>2 DEF WaitsFor
    <3> QED BY <2>2, <3>3
  <2>4. \A r \in 1..6 : Waited(r) => Waited(r + 1)
    <3> SUFFICES ASSUME NEW r \in 1..6, Waited(r) PROVE Waited(r + 1)
      OBVIOUS
    <3>1. PICK t \in S, u \in S : \E l \in Wanted(t) :
            l \in held(u) /\ Rank[l.kind] >= r
      OBVIOUS
    <3>2. PICK l \in Wanted(t) : l \in held(u) /\ Rank[l.kind] >= r
      BY <3>1
    <3>3. PICK v \in S : \E m \in Wanted(u) : m \in held(v)
            /\ Rank[l.kind] < Rank[m.kind]
      BY <2>1, <3>2
    <3>4. PICK m \in Wanted(u) : m \in held(v) /\ Rank[l.kind] < Rank[m.kind]
      BY <3>3
    <3>5. Rank[m.kind] >= r + 1
      BY <2>2, <3>2, <3>4
    <3> QED BY <3>4, <3>5
  <2>5. ~Waited(7)
    BY <2>2
  <2> HIDE DEF Waited
  <2>6. Waited(2) /\ Waited(3)
    BY <2>3, <2>4
  <2>7. Waited(4) /\ Waited(5)
    BY <2>4, <2>6
  <2>8. Waited(6) /\ Waited(7)
    BY <2>4, <2>7
  <2> QED BY <2>5, <2>8
<1> QED BY <1>1, InductiveInvariant, PTL

===============================================================================
