--------------------------- MODULE FallbackChain ---------------------------
(***************************************************************************)
(* What one blocking call of sicha promises, without saying how: backends  *)
(* are tried in chain order, each at most Budget times; once bytes of the  *)
(* answer have reached the caller no other round trip begins, unless the   *)
(* policy opts back in; and the call ends with one status, which says      *)
(* whether anything was tried, delivered or left to try.                   *)
(* Engine implements this specification.                                   *)
(***************************************************************************)
EXTENDS Naturals

CONSTANTS
  N,               \* number of backends in the chain
  Budget,          \* round trips one backend may be given
  AfterDeltas,     \* SICHA_POLICY_RETRY_AFTER_DELTAS
  RawJson,         \* the request brings JSON text of its own
  MayCancel        \* is there anything that can cancel the call?

VARIABLES
  at,              \* backend the call is at, 1..N
  used,            \* round trips begun on it
  committed,       \* have answer bytes reached the caller?
  status           \* "running", then the status of the call

chainVars == <<at, used, committed, status>>

Verdicts ==
  {"OK", "ABORTED", "EXHAUSTED", "CANCELLED", "STREAM_LOST", "NOMEM", "INVALID_ARG"}

MayTryMore == ~committed \/ AfterDeltas

Init ==
  /\ at = 1
  /\ used = 0
  /\ committed = FALSE
  /\ status = "running"

(* A round trip begins on the backend the call is at. *)
Try ==
  /\ status = "running"
  /\ MayTryMore
  /\ used < Budget
  /\ used' = used + 1
  /\ UNCHANGED <<at, committed, status>>

(* The round trip hands answer bytes to the caller. *)
Deliver ==
  /\ status = "running"
  /\ used > 0
  /\ committed' = TRUE
  /\ UNCHANGED <<at, used, status>>

(* Give up on a backend that was tried, for the next one. *)
FallBack ==
  /\ status = "running"
  /\ MayTryMore
  /\ used > 0
  /\ at < N
  /\ at' = at + 1
  /\ used' = 0
  /\ UNCHANGED <<committed, status>>

(* The statuses a call may end with from here.  A request whose own JSON
   finds no memory is called invalid, but only where it was not yet sent. *)
MayEndWith(v) ==
  /\ v \in Verdicts
  /\ v \in {"OK", "ABORTED", "EXHAUSTED", "STREAM_LOST"} => used > 0
  /\ v = "EXHAUSTED" => at = N /\ MayTryMore
  /\ v = "STREAM_LOST" => ~MayTryMore
  /\ v = "CANCELLED" => MayCancel
  /\ v = "INVALID_ARG" => RawJson /\ used = 0

Conclude ==
  /\ status = "running"
  /\ \E v \in Verdicts : MayEndWith(v) /\ status' = v
  /\ UNCHANGED <<at, used, committed>>

Next == Try \/ Deliver \/ FallBack \/ Conclude

Spec == Init /\ [][Next]_chainVars
=============================================================================
