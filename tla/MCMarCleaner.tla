---------------------------- MODULE MCMarCleaner ----------------------------
(* A small instance of MarCleaner for TLC.                                 *)
EXTENDS MarCleaner

Size(b, i) == [bytes |-> b, inodes |-> i]

MCEntrySizes == {Size(1, 1), Size(3, 2)}
MCHeadrooms == {Size(0, 0), Size(2, 3)}
MCFreeSpaces == {Size(0, 9), Size(4, 2), Size(9, 9)}
MCRequireds == {Zero, Size(1, 2)}
=============================================================================
