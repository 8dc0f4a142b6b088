----------------------------- MODULE MCLimiter -----------------------------
(* More requests than the highest limit admits twice over.                 *)
EXTENDS Limiter
=============================================================================
