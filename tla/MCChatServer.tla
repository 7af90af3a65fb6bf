----------------------------- MODULE MCChatServer -----------------------------
(***************************************************************************)
(* Small instances of ChatServer for TLC.                                   *)
(***************************************************************************)
EXTENDS ChatServer, TLC

\* What the users of an instance send.
Say(kinds) == [kind : kinds, name : {NoName}]
Ask(new_names) == [kind : {"Rename"}, name : new_names]

Talk     == Say({"Text", "Leave"})
Anything == Say({"Text", "TooLong", "Leave", "Unparsable"})
            \union Ask(Names \union Conns)

\* The connections are interchangeable; liveness runs do not use this.
Interchangeable == Permutations(Conns)
===============================================================================
