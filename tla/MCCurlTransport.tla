-------------------------- MODULE MCCurlTransport --------------------------
(* Budgets of a few milliseconds against a poll of two. *)
EXTENDS CurlTransport

CONSTANT infinite

Budgets(connect, first_byte, idle, total) ==
  [connect |-> connect, first_byte |-> first_byte, idle |-> idle, total |-> total]

(* All; connect and idle without the ones that would hide them; none. *)
MCTimeouts ==
  { Budgets(3, 3, 2, 4), Budgets(3, infinite, 2, infinite),
    Budgets(infinite, infinite, infinite, infinite) }
=============================================================================
