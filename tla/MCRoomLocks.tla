------------------------------ MODULE MCRoomLocks ------------------------------
(***************************************************************************)
(* Small instances of RoomLocks for TLC.                                    *)
(***************************************************************************)
EXTENDS RoomLocks

\* One message of every kind whose handler locks something of its own.
Varied == {"Text", "Leave", "Rename", "Download"}
===============================================================================
