--------------------------- MODULE MCSpeechCache ---------------------------
(* SpeechCache on small instances: three sentences beside the preflight's, *)
(* of two sizes.                                                           *)
EXTENDS SpeechCache, TLC

CONSTANTS t0, t1, t2

MCTexts == {t0, t1, t2}

\* All three together exceed either limit of the runs; t2 fits in a cache of 2
\* by itself only.
MCSize == t0 :> 1 @@ t1 :> 1 @@ t2 :> 2
=============================================================================
