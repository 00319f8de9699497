----------------------------- MODULE MCAsyncSaver -----------------------------
(* AsyncSaver for TLC.                                                       *)
EXTENDS AsyncSaver

CONSTANTS s1, s2, s3, s4
=============================================================================
