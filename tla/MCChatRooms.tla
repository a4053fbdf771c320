---------------------------- MODULE MCChatRooms ----------------------------
(* A small instance of ChatRooms for TLC.                                  *)
EXTENDS ChatRooms, TLC

CONSTANTS p1, p2, tech, general

TwoPages == {p1, p2}
TwoRooms == {tech, general}

\* Users are alike.
Alike == Permutations(TwoPages)
=============================================================================
