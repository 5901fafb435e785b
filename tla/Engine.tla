------------------------------- MODULE Engine -------------------------------
(***************************************************************************)
(* chat_common of src/client.c: one blocking call of sicha_chat or         *)
(* sicha_chat_stream walking the fallback chain, while other threads (or   *)
(* the call's own callbacks) may trigger its cancel token at any moment.   *)
(*                                                                         *)
(* What one round trip yields is chosen from Outcomes, the set of          *)
(* attempt_outcome values run_attempt can return; how it computes one is   *)
(* the subject of StreamAttempt.  Milliseconds are left out: a wait ends   *)
(* when its time is over or when the token wakes it.                       *)
(***************************************************************************)
EXTENDS Classify, FiniteSets

CONSTANTS
  N,                  \* n_backends; backends are 1..N, 0..n-1 in the code
  MaxTries,           \* policy.max_tries, resolved
  ValidationRetries,  \* policy.validation_retries
  AfterDeltas,        \* SICHA_POLICY_RETRY_AFTER_DELTAS is set
  Policy,             \* the part of the policy sicha_classify reads
  HasToken,           \* the caller passed a cancel token
  HasValidator,       \* the caller passed a validate callback
  Assisted,           \* backends with url_abort set
  RawJson,            \* the request has its messages or response format as JSON text
  Outcomes            \* the attempt_outcome records run_attempt may return

Backends == 1..N

(* delivered: a callback received answer bytes; asked: a callback returned *)
(* nonzero, which asks for cancellation; terminal: an allocation failed.   *)
Outcome == [ts : TransportStatus, http : Nat, body : BodyState, finish : FinishReason,
            delivered : BOOLEAN, asked : BOOLEAN, terminal : BOOLEAN]

ASSUME ChainAssumption == N \in Nat \ {0}
ASSUME PolicyAssumption ==
  /\ MaxTries \in Nat \ {0}     \* sicha_policy_resolve replaces 0
  /\ ValidationRetries \in Nat
  /\ AfterDeltas \in BOOLEAN
  /\ Policy.overrides \in Seq([http : Int, cls : ErrorClass])
  /\ PolicyValid(Policy)
ASSUME CallAssumption ==
  /\ HasToken \in BOOLEAN
  /\ HasValidator \in BOOLEAN
  /\ RawJson \in BOOLEAN
  /\ Assisted \subseteq Backends
  /\ Outcomes \subseteq Outcome

VARIABLES
  pc,              \* where the calling thread is
  i,               \* the backend of the outer loop
  retrySameUsed, validationUsed, tryOfBackend,  \* per-backend counters
  anyDelivered,    \* sticky over the whole call
  built,           \* backends whose body and headers were built
  outcome, cls,    \* of the round trip being settled
  attempts,        \* r->attempts, the records of the result
  final,           \* the status the call returns, "none" before
  resultBackend,   \* r->backend, 0 for the code's -1
  assists,         \* abort requests sent
  token,           \* the cancel token is triggered
  trips,           \* history: round trips begun
  late             \* history: the last one began with the token triggered

callVars == <<i, retrySameUsed, validationUsed, tryOfBackend>>
vars == <<pc, callVars, anyDelivered, built, outcome, cls, attempts, final,
          resultBackend, assists, token, trips, late>>

None == [ts |-> "OK", http |-> 0, body |-> "OK", finish |-> "UNKNOWN",
         delivered |-> FALSE, asked |-> FALSE, terminal |-> FALSE]

Init ==
  /\ pc = "top"
  /\ i = 1
  /\ retrySameUsed = 0 /\ validationUsed = 0 /\ tryOfBackend = 0
  /\ anyDelivered = FALSE
  /\ built = {}
  /\ outcome = None /\ cls = "NONE"
  /\ attempts = <<>>
  /\ final = "none"
  /\ resultBackend = 0
  /\ assists = 0
  /\ token \in (IF HasToken THEN BOOLEAN ELSE {FALSE})
  /\ trips = 0
  /\ late = FALSE

Return(status) == pc' = "done" /\ final' = status

-----------------------------------------------------------------------------
(* The top of the inner loop.                                              *)

(* Mutant: only a token triggered before the call is noticed. *)
StoppedBeforeFirst == token /\ trips = 0

(* The token is looked at before every round trip, the first included. *)
Stopped == token

StopAtTop ==
  /\ pc = "top"
  /\ Stopped
  /\ Return("CANCELLED")
  /\ UNCHANGED <<callVars, anyDelivered, built, outcome, cls, attempts,
                 resultBackend, assists, token, trips, late>>

PassTop ==
  /\ pc = "top"
  /\ ~Stopped
  /\ pc' = "build"
  /\ UNCHANGED <<callVars, anyDelivered, built, outcome, cls, attempts, final,
                 resultBackend, assists, token, trips, late>>

(* What building a body or headers may end with.  A request's own JSON was
   valid when the call began, so only memory can be short here; but import_json
   cannot tell a yyjson_read without memory from a text that is no JSON. *)
BuildErrors == {"NOMEM"} \cup (IF RawJson THEN {"INVALID_ARG"} ELSE {})

(* The body or the headers of a backend seen for the first time cannot be
   built; once built, they are kept for the retries. *)
BuildFails ==
  /\ pc = "build"
  /\ i \notin built
  /\ \E st \in BuildErrors : Return(st)
  /\ UNCHANGED <<callVars, anyDelivered, built, outcome, cls, attempts,
                 resultBackend, assists, token, trips, late>>

(* Reset the result's content and hand the request to the transport. *)
Send ==
  /\ pc = "build"
  /\ pc' = "flight"
  /\ built' = built \cup {i}
  /\ resultBackend' = i
  /\ trips' = trips + 1
  /\ late' = token
  /\ UNCHANGED <<callVars, anyDelivered, outcome, cls, attempts, final,
                 assists, token>>

-----------------------------------------------------------------------------
(* Settling a round trip: outcome, class, record, decision.                *)

(* The transport reports a cancellation only for the token or a callback, and
   run_attempt leaves no sink abort uninterpreted but that of a full memory. *)
MayReturn(o) ==
  /\ o.ts = "CANCELLED" => o.asked \/ token
  /\ o.ts = "ABORTED_BY_SINK" => o.terminal

ClassOf(o) ==
  IF o.terminal THEN "ADVANCE"
  ELSE sicha_classify(Policy, o.ts, o.http, o.body, o.finish)

(* run_attempt returns o; a success goes past the validator, which may
   reject it. *)
Land(o, rejected) ==
  /\ pc = "flight"
  /\ MayReturn(o)
  /\ rejected => HasValidator /\ ~o.terminal /\ ClassOf(o) = "NONE"
  /\ pc' = "record"
  /\ outcome' = o
  /\ anyDelivered' = (anyDelivered \/ o.delivered)
  /\ cls' = IF rejected THEN "VALIDATION" ELSE ClassOf(o)
  /\ UNCHANGED <<callVars, built, attempts, final, resultBackend, assists,
                 token, trips, late>>

(* Mutant: a record takes its try number from the counter of retries. *)
NewRecordOfRetry ==
  [attempt |-> Len(attempts), backend |-> i, tryOf |-> retrySameUsed, cls |-> cls,
   delivered |-> outcome.delivered, late |-> late]

NewRecord ==
  [attempt |-> Len(attempts), backend |-> i, tryOf |-> tryOfBackend, cls |-> cls,
   delivered |-> outcome.delivered, late |-> late]

(* The attempt is recorded and on_attempt called. *)
Record ==
  /\ pc = "record"
  /\ pc' = "decide"
  /\ attempts' = Append(attempts, NewRecord)
  /\ tryOfBackend' = tryOfBackend + 1
  /\ UNCHANGED <<i, retrySameUsed, validationUsed, anyDelivered, built, outcome, cls,
                 final, resultBackend, assists, token, trips, late>>

(* sicha_result_add_attempt has no memory: nothing is recorded. *)
RecordFails ==
  /\ pc = "record"
  /\ Return("NOMEM")
  /\ tryOfBackend' = tryOfBackend + 1
  /\ UNCHANGED <<i, retrySameUsed, validationUsed, anyDelivered, built, outcome, cls,
                 attempts, resultBackend, assists, token, trips, late>>

Deciding == pc = "decide" /\ ~outcome.terminal

(* The record of a round trip that ran out of memory is the last one. *)
OutOfMemory ==
  /\ pc = "decide"
  /\ outcome.terminal
  /\ Return("NOMEM")
  /\ UNCHANGED <<callVars, anyDelivered, built, outcome, cls, attempts,
                 resultBackend, assists, token, trips, late>>

EndWith(c, status) ==
  /\ Deciding
  /\ cls = c
  /\ Return(status)
  /\ UNCHANGED <<callVars, anyDelivered, built, outcome, cls, attempts,
                 resultBackend, assists, token, trips, late>>

Succeed == EndWith("NONE", "OK")
Abort   == EndWith("ABORT", "ABORTED")

NeedsAssist == i \in Assisted

Cancel == ~NeedsAssist /\ EndWith("CANCELLED", "CANCELLED")

(* kobold_abort_assist: one best-effort request without token or sink,
   whose result is ignored, before the call returns. *)
CancelWithAssist ==
  /\ Deciding
  /\ cls = "CANCELLED"
  /\ NeedsAssist
  /\ assists' = assists + 1
  /\ Return("CANCELLED")
  /\ UNCHANGED <<callVars, anyDelivered, built, outcome, cls, attempts,
                 resultBackend, token, trips, late>>

(* Mutant: a rejected sample is not subject to the commit rule. *)
MayRetryOrRejected == cls = "VALIDATION" \/ ~anyDelivered \/ AfterDeltas

(* The commit rule guards every way to another round trip.                 *)
MayRetry == ~anyDelivered \/ AfterDeltas

(* Mutant: the try that just failed is not counted. *)
TriesLeftOfOthers == retrySameUsed < MaxTries

TriesLeft == retrySameUsed + 1 < MaxTries

(* Mutant: the re-roll that is to come is counted as used. *)
RerollsLeftAfter == validationUsed + 1 < ValidationRetries

RerollsLeft == validationUsed < ValidationRetries

BackendSpent ==
  \/ cls = "VALIDATION" /\ ~RerollsLeft
  \/ cls = "RETRY_SAME" /\ ~TriesLeft
  \/ cls = "ADVANCE"

(* Mutant: a spent validator ends the chain instead of the backend. *)
ChainEndsOnRejection == i = N \/ cls = "VALIDATION"

ChainEnds == i = N

Failed == Deciding /\ cls \in {"VALIDATION", "RETRY_SAME", "ADVANCE"}

LoseStream ==
  /\ Failed
  /\ ~MayRetry
  /\ Return("STREAM_LOST")
  /\ UNCHANGED <<callVars, anyDelivered, built, outcome, cls, attempts,
                 resultBackend, assists, token, trips, late>>

(* A rejected sample is re-rolled at once, without backoff. *)
Reroll ==
  /\ Failed
  /\ MayRetry
  /\ cls = "VALIDATION"
  /\ RerollsLeft
  /\ validationUsed' = validationUsed + 1
  /\ pc' = "top"
  /\ UNCHANGED <<i, retrySameUsed, tryOfBackend, anyDelivered, built, outcome, cls,
                 attempts, final, resultBackend, assists, token, trips, late>>

RetrySame ==
  /\ Failed
  /\ MayRetry
  /\ cls = "RETRY_SAME"
  /\ TriesLeft
  /\ retrySameUsed' = retrySameUsed + 1
  /\ pc' = "wait"
  /\ UNCHANGED <<i, validationUsed, tryOfBackend, anyDelivered, built, outcome, cls,
                 attempts, final, resultBackend, assists, token, trips, late>>

(* goto advance: the counters of the next backend start at zero. *)
FallBack ==
  /\ Failed
  /\ MayRetry
  /\ BackendSpent
  /\ ~ChainEnds
  /\ i' = i + 1
  /\ retrySameUsed' = 0 /\ validationUsed' = 0 /\ tryOfBackend' = 0
  /\ pc' = "top"
  /\ UNCHANGED <<anyDelivered, built, outcome, cls, attempts, final,
                 resultBackend, assists, token, trips, late>>

(* The loop runs off the chain: final is still SICHA_E_EXHAUSTED. *)
Exhaust ==
  /\ Failed
  /\ MayRetry
  /\ BackendSpent
  /\ ChainEnds
  /\ Return("EXHAUSTED")
  /\ UNCHANGED <<callVars, anyDelivered, built, outcome, cls, attempts,
                 resultBackend, assists, token, trips, late>>

-----------------------------------------------------------------------------
(* clock->wait_ms returns nonzero iff the token is triggered.              *)

WaitOver ==
  /\ pc = "wait"
  /\ ~token
  /\ pc' = "top"
  /\ UNCHANGED <<callVars, anyDelivered, built, outcome, cls, attempts, final,
                 resultBackend, assists, token, trips, late>>

(* Mutant: a wait does not wake for the token. *)
WaitAsleep == pc = "wait" /\ token /\ UNCHANGED vars

WaitCancelled ==
  /\ pc = "wait"
  /\ token
  /\ Return("CANCELLED")
  /\ UNCHANGED <<callVars, anyDelivered, built, outcome, cls, attempts,
                 resultBackend, assists, token, trips, late>>

(* sicha_cancel_trigger, by another thread or from a callback.  A token is
   not reset while a call that uses it is in flight. *)
Trigger ==
  /\ HasToken
  /\ pc # "done"
  /\ token' = TRUE
  /\ UNCHANGED <<pc, callVars, anyDelivered, built, outcome, cls, attempts, final,
                 resultBackend, assists, trips, late>>

(* The call has returned. *)
Returned == pc = "done" /\ UNCHANGED vars

Round == \E o \in Outcomes, rejected \in BOOLEAN : Land(o, rejected)

Decide ==
  \/ OutOfMemory \/ Succeed \/ Abort \/ Cancel \/ CancelWithAssist
  \/ LoseStream \/ Reroll \/ RetrySame \/ FallBack \/ Exhaust

Step ==
  \/ StopAtTop \/ PassTop \/ BuildFails \/ Send
  \/ Record \/ RecordFails \/ Decide \/ WaitCancelled

Next == Step \/ Round \/ WaitOver \/ Trigger \/ Returned

Spec == Init /\ [][Next]_vars

(* Nothing but the calling thread is sure to move: with infinite budgets a
   wait or a round trip may last forever, except that a transport polls the
   token and a wait wakes on it. *)
CancelSpec == Spec /\ WF_vars(Step) /\ WF_vars(token /\ Round)

-----------------------------------------------------------------------------
(* Properties.                                                             *)

AttemptRecord ==
  [attempt : Nat, backend : Backends, tryOf : Nat, cls : ErrorClass,
   delivered : BOOLEAN, late : BOOLEAN]

Statuses ==
  {"OK", "ABORTED", "EXHAUSTED", "CANCELLED", "STREAM_LOST", "NOMEM", "INVALID_ARG"}

(* The values every variable of chat_common may take. *)
TypeOK ==
  /\ pc \in {"top", "build", "flight", "record", "decide", "wait", "done"}
  /\ i \in Backends
  /\ retrySameUsed \in Nat /\ validationUsed \in Nat /\ tryOfBackend \in Nat
  /\ anyDelivered \in BOOLEAN
  /\ built \subseteq Backends
  /\ outcome \in Outcome
  /\ cls \in ErrorClass
  /\ attempts \in Seq(AttemptRecord)
  /\ final \in Statuses \cup {"none"}
  /\ resultBackend \in 0..N
  /\ assists \in Nat
  /\ token \in BOOLEAN
  /\ trips \in Nat
  /\ late \in BOOLEAN

Settled == DOMAIN attempts

(* The streaming commit rule: without RETRY_AFTER_DELTAS a round trip that
   handed bytes to a callback is the last one of the call, whatever class,
   backend or retry counter it meets. *)
CommitRule ==
  ~AfterDeltas =>
    /\ \A j \in Settled : attempts[j].delivered => j = Len(attempts)
    /\ pc \in {"build", "flight"} => \A j \in Settled : ~attempts[j].delivered

(* The ordinals count up from 0, a backend's tries count up from 0, and the
   chain is walked in order without skips. *)
Numbering ==
  \A j \in Settled :
    /\ attempts[j].attempt = j - 1
    /\ j = 1 => attempts[j].backend = 1 /\ attempts[j].tryOf = 0
    /\ j > 1 =>
         \/ /\ attempts[j].backend = attempts[j - 1].backend
            /\ attempts[j].tryOf = attempts[j - 1].tryOf + 1
         \/ /\ attempts[j].backend = attempts[j - 1].backend + 1
            /\ attempts[j].tryOf = 0

(* No mixture of re-rolls and retries gives a backend more than max_tries +
   validation_retries round trips, nor the call more than that per backend
   (the attempt budget tests/test_routing.c checks on one example), and the
   records number the round trips. *)
AttemptBudget ==
  /\ Numbering
  /\ \A j \in Settled : attempts[j].tryOf < MaxTries + ValidationRetries
  /\ Len(attempts) <= i * (MaxTries + ValidationRetries)

(* Records of backend b with class c. *)
Count(b, c) ==
  Cardinality({j \in Settled : attempts[j].backend = b /\ attempts[j].cls = c})

(* A backend is left only for a reason: a failure of class ADVANCE, its last
   same-backend try, or a rejection after the last re-roll. *)
NoPrematureFallback ==
  \A j \in Settled : j > 1 /\ attempts[j].backend # attempts[j - 1].backend =>
    LET b == attempts[j - 1].backend IN
      CASE attempts[j - 1].cls = "ADVANCE"    -> TRUE
        [] attempts[j - 1].cls = "RETRY_SAME" -> Count(b, "RETRY_SAME") = MaxTries
        [] attempts[j - 1].cls = "VALIDATION" ->
             Count(b, "VALIDATION") = ValidationRetries + 1
        [] OTHER -> FALSE

(* Never for a cancelled wait or a stop at the top. *)
AssistOnce ==
  assists = IF attempts # <<>> /\ Last(attempts).cls = "CANCELLED" /\ Last(attempts).backend \in Assisted
            THEN 1 ELSE 0

(* The status of the call says what its records say: a success, an abort or
   a cancellation is always the last record and decides the status, and
   exhaustion means that every backend was tried and the last one failed.
   There is one record per round trip, in whatever way the call ends; only a
   record there is no memory for is missing, and then the status says so.
   A call that finds its request invalid on the way has not tried the backend
   it stopped at: a body that was sent once stays valid.  The abort request
   went out once if the last record is a cancelled round trip on an assisted
   backend, and otherwise never. *)
StatusTellsRecords ==
  /\ \A j \in Settled : attempts[j].cls \in {"NONE", "ABORT", "CANCELLED"} =>
       j = Len(attempts) /\ pc \in {"decide", "done"}
  /\ final = "OK"      => attempts # <<>> /\ Last(attempts).cls = "NONE"
  /\ final = "ABORTED" => attempts # <<>> /\ Last(attempts).cls = "ABORT"
  /\ final = "EXHAUSTED" =>
       /\ \A b \in Backends : \E j \in Settled : attempts[j].backend = b
       /\ Last(attempts).cls \in {"VALIDATION", "RETRY_SAME", "ADVANCE"}
  /\ final = "STREAM_LOST" => \E j \in Settled : attempts[j].delivered
  /\ final = "CANCELLED" => token \/ (attempts # <<>> /\ Last(attempts).cls = "CANCELLED")
  /\ final = "INVALID_ARG" =>
       RawJson /\ (attempts # <<>> => Last(attempts).backend + 1 = i)
  /\ pc = "done" =>
       /\ trips = Len(attempts) \/ (trips = Len(attempts) + 1 /\ final = "NOMEM")
       /\ resultBackend = IF trips = 0 THEN 0 ELSE
                          IF trips = Len(attempts) THEN Last(attempts).backend ELSE i
       /\ AssistOnce

(* Once the token is triggered at most one more round trip begins (the one
   whose check of the token had just passed), and none follows it. *)
CancelStopsTrips ==
  /\ \A j \in Settled : attempts[j].late => j = Len(attempts)
  /\ pc = "flight" => \A j \in Settled : ~attempts[j].late

(* Finite budgets: every wait and every round trip ends by itself. *)
BudgetsExpire == WF_vars(Round) /\ WF_vars(WaitOver)

(* With finite budgets every call returns, and without any budget at all a
   triggered token still ends it. *)
CallReturns ==
  /\ BudgetsExpire => <>(pc = "done")
  /\ token ~> pc = "done"

(* The call as the abstract chain of round trips. *)
Chain == INSTANCE FallbackChain WITH
  Budget    <- MaxTries + ValidationRetries,
  MayCancel <- HasToken \/ \E o \in Outcomes : o.asked,
  at        <- i,
  used      <- tryOfBackend + (IF pc \in {"flight", "record"} THEN 1 ELSE 0),
  committed <- anyDelivered,
  status    <- IF final = "none" THEN "running" ELSE final

(* Engine implements FallbackChain. *)
ImplementsChain == Chain!Spec
=============================================================================
