------------------------- MODULE MCScriptTransport -------------------------
(* Responses that cross each budget, meet it, or stay within it. *)
EXTENDS ScriptTransport

CONSTANTS infinite, call1, call2

MCResponses ==
  { [Silent EXCEPT !.connect_delay = 2, !.status = "RESET"],
    [Silent EXCEPT !.connect_delay = 1, !.first_byte_delay = 2, !.chunks = 1],
    [Silent EXCEPT !.per_chunk_delay = 2, !.chunks = 3],
    [Silent EXCEPT !.first_byte_delay = 1, !.per_chunk_delay = 1, !.chunks = 3,
                   !.status = "RESET", !.fail_after = 2] }

MCTimeouts ==
  { [connect |-> 2, first_byte |-> 3, idle |-> 2, total |-> 4],
    [connect |-> infinite, first_byte |-> infinite, idle |-> infinite, total |-> 3],
    [connect |-> infinite, first_byte |-> infinite, idle |-> infinite, total |-> infinite] }
=============================================================================
