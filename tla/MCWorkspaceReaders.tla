-------------------------- MODULE MCWorkspaceReaders --------------------------
(* A small instance of WorkspaceReaders for TLC.                            *)
EXTENDS WorkspaceReaders

(* The root, one directory in it, and one file in that.                     *)
FileInDirectory == <<0, 1, 2>>

TheFile == <<3>>

(* No list, a valid list, and one with a duplicate that Skills may not have.*)
ListsOfEach == [bootstrap |-> {<<>>, <<3, 3>>}, skills |-> {<<3>>, <<3, 3>>}]
=============================================================================
