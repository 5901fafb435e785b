----------------------------- MODULE Transport -----------------------------
(***************************************************************************)
(* What the engine relies on in one call of sicha_transport.perform: the   *)
(* order of the sink's callbacks and what the returned status says of      *)
(* them.  CurlTransport and ScriptTransport implement it.                  *)
(***************************************************************************)
EXTENDS Integers

CONSTANTS
  HasToken,   \* perform was given a cancel token
  HasSink     \* and a sink

VARIABLES
  told,      \* on_status was called
  chunks,    \* calls of on_body
  refused,   \* a callback of the sink returned nonzero
  token,     \* the token is triggered
  result,    \* the returned status, "none" before
  broken     \* the machinery under the transport failed

transportVars == <<told, chunks, refused, token, result, broken>>

Failures ==
  {"CONNECT", "TLS", "TIMEOUT_CONNECT", "TIMEOUT_FIRST_BYTE", "TIMEOUT_IDLE",
   "TIMEOUT_TOTAL", "RESET", "PROTOCOL", "NOMEM", "OTHER"}

Init ==
  /\ told = FALSE /\ chunks = 0 /\ refused = FALSE
  /\ token \in (IF HasToken THEN BOOLEAN ELSE {FALSE})
  /\ result = "none" /\ broken = FALSE

(* The status comes once and before the body; a sink that refused hears no
   more. *)
Status ==
  /\ result = "none" /\ ~told
  /\ told' = TRUE
  /\ refused' \in (IF HasSink THEN BOOLEAN ELSE {FALSE})
  /\ UNCHANGED <<chunks, token, result, broken>>

Body ==
  /\ result = "none" /\ told /\ ~refused
  /\ chunks' = chunks + 1
  /\ refused' \in (IF HasSink THEN BOOLEAN ELSE {FALSE})
  /\ UNCHANGED <<told, token, result, broken>>

Trigger ==
  /\ HasToken
  /\ token' = TRUE
  /\ UNCHANGED <<told, chunks, refused, result, broken>>

(* Success only after a status and without a refusal; a cancellation only for
   the token, an abort only for the sink.  A refusal is reported unless the
   token is seen first or the machinery fails at that moment. *)
Return(ts) ==
  /\ result = "none"
  /\ ts \in Failures \cup {"OK", "CANCELLED", "ABORTED_BY_SINK"}
  /\ ts = "OK" => told /\ ~refused
  /\ ts = "CANCELLED" => token
  /\ ts = "ABORTED_BY_SINK" => refused
  /\ broken' \in BOOLEAN
  /\ broken' => ts \in {"NOMEM", "OTHER"}
  /\ refused /\ ~broken' => ts \in {"ABORTED_BY_SINK", "CANCELLED"}
  /\ result' = ts
  /\ UNCHANGED <<told, chunks, refused, token>>

Next ==
  \/ Status \/ Body \/ Trigger
  \/ \E ts \in Failures \cup {"OK", "CANCELLED", "ABORTED_BY_SINK"} : Return(ts)

Spec == Init /\ [][Next]_transportVars
=============================================================================
