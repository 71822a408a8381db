--------------------------- MODULE MCLogCollector ---------------------------
(* Small instances of LogCollector for TLC.                                *)
EXTENDS LogCollector

MCMinHeadroom == [bytes |-> 1, inodes |-> 1]

\* Plenty, just enough to exceed the minimum, short of one or both, exactly the
\* minimum.
Plenty == [bytes |-> 2, inodes |-> 1]
LowOnInodes == [bytes |-> 2, inodes |-> 0]
MCSpaces == {Plenty, LowOnInodes, MCMinHeadroom}
=============================================================================
