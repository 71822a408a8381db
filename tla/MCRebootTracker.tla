-------------------------- MODULE MCRebootTracker --------------------------
(* A small instance of RebootTracker for TLC.  The bounds are in the .cfg.  *)
EXTENDS RebootTracker
=============================================================================
