-------------------------- MODULE MCLibraryIndex --------------------------
(***************************************************************************)
(* LibraryIndex with one preset in a folder of the library that has a      *)
(* locked folder beside it.                                                *)
(***************************************************************************)
EXTENDS LibraryIndex

CONSTANTS top, sub, locked

MCFolderOf == [p \in Presets |-> sub]
=============================================================================
