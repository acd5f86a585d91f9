---------------------------- MODULE MCChatServer ----------------------------
(***************************************************************************)
(* Small instances of ChatServer for TLC.  The connections are             *)
(* interchangeable model values; the users are the numbers 1, 2, ... since *)
(* the server visits the members of a group in sort order.                 *)
(***************************************************************************)
EXTENDS ChatServer, TLC

TwoUsers == 1..2
ThreeUsers == 1..3

ConnSymmetry == Permutations(Conns)
============================================================================
