------------------------------ MODULE MCPaging ------------------------------
(* Paging in all modes: FLOOD_WAITs shorter and longer than the pause.      *)
EXTENDS Paging
=============================================================================
