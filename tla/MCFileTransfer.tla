----------------------------- MODULE MCFileTransfer -----------------------------
(***************************************************************************)
(* Small instances of FileTransfer for TLC.                                 *)
(***************************************************************************)
EXTENDS FileTransfer

CONSTANTS p, q, none, x, y, b, blank, at, elsewhere

\* p takes three chunks, b takes two, q takes one; none and blank are empty.  The
\* server has b and blank.
Lengths == [file \in Paths \union Stored |->
              CASE file = p -> 3 [] file = b -> 2 [] file = q -> 1 [] OTHER -> 0]

OneUpload    == {[path |-> p, name |-> x]}
OneDownload  == {[name |-> b, place |-> at]}

\* Two uploads of one name, one of an empty file; a download of what is being uploaded,
\* one name to two places, and an empty file of the server.
Contested    == {[path |-> p, name |-> x], [path |-> q, name |-> x], [path |-> none, name |-> y]}
AndUploaded  == {[name |-> b, place |-> at], [name |-> b, place |-> elsewhere],
                 [name |-> x, place |-> elsewhere], [name |-> blank, place |-> at]}

\* Whatever comes to the mind of the user; but of b, which takes long, there is one
\* download, or there are two and nothing else.
AtWill == [1..MaxCommands -> Commands]

Downloaded(session, name) ==
  {i \in DOMAIN session : "download" \in DOMAIN session[i] /\ session[i].download.name = name}

Sparing == {session \in AtWill : Cardinality(Downloaded(session, b)) <= 1}
             \union {SubSeq(session, 1, 2) :
                       session \in {s \in AtWill : {1, 2} \subseteq Downloaded(s, b)}}
================================================================================
