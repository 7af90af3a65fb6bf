---------------------------------- MODULE Room ----------------------------------
(***************************************************************************)
(* What a chat room promises: broadcasts are published one at a time, the  *)
(* membership is frozen while one is being delivered, and a member is given *)
(* each broadcast at most once and in the order of publication.            *)
(***************************************************************************)
EXTENDS Naturals, Sequences

CONSTANTS
  Members,  \* everyone who may enter the room
  Nobody    \* no broadcast is open

VARIABLES
  members,    \* who is in the room
  speaker,    \* whose broadcast is open, or Nobody
  owed,       \* the members it has still to reach
  published,  \* number of broadcasts opened so far
  seen        \* what each member was given: the number of a broadcast, or 0
              \* for a message to that member alone

vars == <<members, speaker, owed, published, seen>>

Init ==
  /\ members = {}
  /\ speaker = Nobody
  /\ owed = {}
  /\ published = 0
  /\ seen = [m \in Members |-> <<>>]

Join(m) ==
  /\ speaker = Nobody
  /\ members' = members \union {m}
  /\ UNCHANGED <<speaker, owed, published, seen>>

Part(m) ==
  /\ speaker = Nobody
  /\ members' = members \ {m}
  /\ UNCHANGED <<speaker, owed, published, seen>>

Open(m) ==
  /\ speaker = Nobody
  /\ speaker' = m
  /\ owed' = members
  /\ published' = published + 1
  /\ UNCHANGED <<members, seen>>

\* The open broadcast is given to m, or finds m gone.
Give(m) ==
  /\ m \in owed
  /\ owed' = owed \ {m}
  /\ seen' \in {seen, [seen EXCEPT ![m] = Append(@, published)]}
  /\ UNCHANGED <<members, speaker, published>>

\* Every member was reached, or the speaker gives up on the rest.
Close ==
  /\ speaker # Nobody
  /\ speaker' = Nobody
  /\ owed' = {}
  /\ UNCHANGED <<members, published, seen>>

Whisper(m) ==
  /\ seen' = [seen EXCEPT ![m] = Append(@, 0)]
  /\ UNCHANGED <<members, speaker, owed, published>>

Next ==
  \/ \E m \in Members : Join(m) \/ Part(m) \/ Open(m) \/ Give(m) \/ Whisper(m)
  \/ Close

Spec == Init /\ [][Next]_vars
===============================================================================
