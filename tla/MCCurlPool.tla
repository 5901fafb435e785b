----------------------------- MODULE MCCurlPool -----------------------------
(* Three calls on a pool of two slots. *)
EXTENDS CurlPool

CONSTANTS a, b, c, h1, h2, h3, none

MCCalls == {a, b, c}
MCHandles == {h1, h2, h3}
=============================================================================
