------------------------------- MODULE MCConsole --------------------------------
(***************************************************************************)
(* Small instances of Console for TLC.                                      *)
(***************************************************************************)
EXTENDS Console

\* All that can be typed with few keys.
Short == UNION {[1..n -> {"/", "r", "blank", "nl", Lead, Tail2}] : n \in 0..4}

\* Lines with every command, and more than one.
Long ==
  {<<"/", "r", "blank", "blank", "x", "cr", "nl", "/", "q", "nl">>,
   <<"/", "c", "blank", "x", "blank", "nl", "x">>,
   <<"/", "u", "blank", "x", "/", "y", "nl", "/", "u", "nl">>,
   <<"/", "u", "blank", "x", "/", "y", "blank", "x", "blank", "nl">>,
   <<"/", "d", "blank", "x", "blank", "y", "nl", "nl", "x">>,
   <<"/", "d", "blank", "y", Lead, Tail2, "nl", "/", "x">>,
   <<"x", "cr", "/", "nl", Lead, Tail2, "x", "y", "nl">>}

Typed == Short \union Long

Files == {<<"x">>, <<"x", "/", "y">>}
===============================================================================
