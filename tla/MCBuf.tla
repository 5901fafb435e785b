------------------------------- MODULE MCBuf -------------------------------
(* Four-bit sizes: the limit is none, tight, or the end of the range. *)
EXTENDS Buf

MCLimits == {0, 5, 15}
=============================================================================
