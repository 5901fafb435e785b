------------------------------ MODULE MCEngine ------------------------------
(* A small chain for Engine, and one outcome of each kind run_attempt can  *)
(* return: the classes it leads to, with and without delivered bytes.      *)
EXTENDS Engine

MCPolicy == [lengthIsAdvance |-> TRUE, contentFilterIsAdvance |-> FALSE,
             overrides |-> <<[http |-> 503, cls |-> "ABORT"]>>]

Plain(ts, http, body) == [None EXCEPT !.ts = ts, !.http = http, !.body = body]

MCQuiet ==
  { Plain("OK", 200, "OK"),
    [Plain("OK", 200, "OK") EXCEPT !.finish = "LENGTH"],   \* ADVANCE by policy
    Plain("OK", 200, "MALFORMED"),                         \* ADVANCE
    Plain("OK", 503, "OK"),                                \* ABORT by override
    Plain("OK", 500, "OK"),                                \* RETRY_SAME
    Plain("CANCELLED", 0, "OK"),                           \* by the token
    [Plain("NOMEM", 0, "OK") EXCEPT !.terminal = TRUE] }

(* The same trips of a stream whose callbacks received bytes. *)
MCDelivered ==
  { [o EXCEPT !.delivered = TRUE, !.http = 200, !.ts = IF @ = "OK" /\ o.http = 500
                                                       THEN "RESET" ELSE @] :
      o \in MCQuiet \ {Plain("OK", 503, "OK")} }
  \cup { [Plain("CANCELLED", 200, "OK") EXCEPT !.delivered = d, !.asked = TRUE] :
            d \in BOOLEAN }   \* on_content_delta or on_raw_chunk returned nonzero

MCOutcomes == MCQuiet \cup MCDelivered
=============================================================================
