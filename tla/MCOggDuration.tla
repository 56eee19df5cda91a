--------------------------- MODULE MCOggDuration ---------------------------
(* OggDuration in the arithmetic of signed bytes: a duration has room for   *)
(* 12.7 seconds of 10 units and 8 samples.                                 *)
EXTENDS OggDuration
=============================================================================
