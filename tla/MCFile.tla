------------------------------- MODULE MCFile -------------------------------
(* File for TLC: the name given to files and directories. *)
EXTENDS File
MCNames == {<<"d", "e">>}
=============================================================================
