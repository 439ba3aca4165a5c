--------------------------- MODULE MCRecognition ---------------------------
(* Recognition on small sets.                                                *)
EXTENDS Recognition
=============================================================================
