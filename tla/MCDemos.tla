------------------------------ MODULE MCDemos ------------------------------
(* A history of four turns, a hand-over buffer of one byte and deltas of    *)
(* one or two; a chain of three backends as in the code, a showcase of more *)
(* events than the queue holds.                                             *)
EXTENDS Demos

MCScenario == <<"r", "r", "o">>
=============================================================================
