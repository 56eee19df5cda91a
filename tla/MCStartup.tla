----------------------------- MODULE MCStartup -----------------------------
(* Startup from nothing, with a few edits and faults.                       *)
EXTENDS Startup
=============================================================================
