--------------------------- MODULE MCCancelToken ---------------------------
(* Two waiting threads and two controlling ones. *)
EXTENDS CancelToken

CONSTANTS w1, w2, c1, c2, forever

MCWaiters == {w1, w2}
MCControllers == {c1, c2}
MCWaits == {1, 2, forever}

MCFewWaits == {2, forever}
=============================================================================
