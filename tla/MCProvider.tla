----------------------------- MODULE MCProvider -----------------------------
(* Provider with sentences of no audio up to one chunk over the limit.      *)
EXTENDS Provider
=============================================================================
