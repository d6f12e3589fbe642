--------------------------- MODULE MCNetDbEngine ---------------------------
(* Reseeding below one router, expiry from two on, at most three; up to two  *)
(* messages at a time.                                                       *)
EXTENDS NetDbEngine
=============================================================================
