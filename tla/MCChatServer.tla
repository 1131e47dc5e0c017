---------------------------- MODULE MCChatServer ----------------------------
(***************************************************************************)
(* ChatServer for TLC: names are interchangeable.                          *)
(***************************************************************************)
EXTENDS ChatServer, TLC

NameSymmetry == Permutations(Names)
=============================================================================
