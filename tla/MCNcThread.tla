---------------------------- MODULE MCNcThread ----------------------------
(* An instance of NcThread for TLC.  Blocks are interchangeable, so malloc *)
(* may as well return the first one that is free.                          *)
EXTENDS NcThread
FirstFree(free) == CHOOSE b \in free : \A c \in free : b <= c
=============================================================================
