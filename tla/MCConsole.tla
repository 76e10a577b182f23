----------------------------- MODULE MCConsole -----------------------------
(* Console for TLC; the constants are in the .cfg files.                   *)
EXTENDS Console
=============================================================================
