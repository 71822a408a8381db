----------------------------- MODULE MCMainLoop -----------------------------
(* A small instance of MainLoop for TLC.  The bounds are in the .cfg files. *)
EXTENDS MainLoop
=============================================================================
