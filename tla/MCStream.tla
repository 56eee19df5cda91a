------------------------------ MODULE MCStream ------------------------------
(* Stream on small instances: a few packets.                               *)
EXTENDS Stream
=============================================================================
