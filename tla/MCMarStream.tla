----------------------------- MODULE MCMarStream ----------------------------
(* A small instance of MarStream for TLC: an entry with a manifest and an  *)
(* attachment whose writer may not be done, and an entry without one.      *)
EXTENDS MarStream

File(e, n, g) == [entry |-> e, name |-> n, grows |-> g]

MCFiles == <<File(1, 3, FALSE), File(1, 5, TRUE), File(2, 3, FALSE)>>
=============================================================================
